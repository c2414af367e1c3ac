----------------------------- MODULE Induction -----------------------------
(***************************************************************************)
(* What scans for a first match, and loops that build something up, rest   *)
(* on: induction over the natural numbers, with a set or a function where  *)
(* the usual theorems have an operator.                                    *)
(***************************************************************************)
EXTENDS FiniteSetsExt, NaturalsInduction, WellFoundedInduction, TLAPS

\* A non-empty set of indices has a lowest one: the loops over g_nat and g_conns
\* that stop at the first hit do stop at an index of the set they look for.
LEMMA MinExists ==
  ASSUME NEW S \in SUBSET Nat, S # {}
  PROVE  Min(S) \in S /\ \A x \in S : Min(S) <= x
<1>1. PICK x \in S : \A y \in S : ~(<<y, x>> \in OpToRel(<, Nat))
  BY NatLessThanWellFounded, WFMin, Zenon
<1>2. \A y \in S : ~(y < x)
  BY <1>1, Zenon DEF OpToRel
<1>3. \A y \in S : x <= y
  BY <1>2
<1> QED BY <1>3 DEF Min

\* The greatest of some numbers up to n.
LEMMA MaxExists ==
  ASSUME NEW n \in Nat, NEW S \in SUBSET (0 .. n), S # {}
  PROVE  Max(S) \in S /\ \A x \in S : x <= Max(S)
<1> DEFINE R == {k \in 0 .. n : n - k \in S}
<1>1. R \in SUBSET Nat /\ R # {}
  <2>1. PICK x \in S : TRUE
    OBVIOUS
  <2>2. x \in 0 .. n
    OBVIOUS
  <2>3. n - x \in 0 .. n /\ n - (n - x) = x
    BY <2>2
  <2>4. n - x \in R
    BY <2>3
  <2>5. R \in SUBSET Nat
    OBVIOUS
  <2> QED BY <2>4, <2>5
<1>2. PICK y \in R : \A z \in R : y <= z
  <2> HIDE DEF R
  <2> QED BY <1>1, MinExists
<1> DEFINE m == n - y
<1>3. m \in S /\ y \in 0 .. n
  BY <1>2
<1>4. \A x \in S : x <= m
  <2> TAKE x \in S
  <2>1. x \in 0 .. n
    OBVIOUS
  <2>2. n - x \in 0 .. n /\ n - (n - x) = x
    BY <2>1
  <2>3. y <= n - x
    BY <1>2, <2>2
  <2> QED BY <1>3, <2>1, <2>3
<1> HIDE DEF m
<1>5. \A x \in S : x \in Int
  OBVIOUS
<1>6. \E x \in S : \A y_1 \in S : x >= y_1
  BY <1>3, <1>4, <1>5
<1>7. Max(S) \in S /\ \A x \in S : Max(S) >= x
  BY <1>6, Zenon DEF Max
<1> QED BY <1>5, <1>7

\* The smaller of two numbers.
LEMMA MinOfTwo ==
  ASSUME NEW a \in Int, NEW b \in Int
  PROVE  Min({a, b}) = IF a <= b THEN a ELSE b
<1>1. \E x \in {a, b} : \A y \in {a, b} : x <= y
  OBVIOUS
<1>2. Min({a, b}) \in {a, b} /\ \A y \in {a, b} : Min({a, b}) <= y
  BY <1>1, Zenon DEF Min
<1> QED BY <1>2

\* A property of numbers up to n, as the set of those that have it.
LEMMA InductionUpTo ==
  ASSUME NEW n \in Nat, NEW P, 0 \in P, \A i \in 0 .. n - 1 : i \in P => i + 1 \in P
  PROVE  \A i \in 0 .. n : i \in P
<1> DEFINE Bad == {i \in 0 .. n : i \notin P}
<1>1. SUFFICES ASSUME Bad # {} PROVE FALSE
  OBVIOUS
<1>2. Bad \in SUBSET Nat
  OBVIOUS
<1>3. Min(Bad) \in Bad /\ \A x \in Bad : Min(Bad) <= x
  <2> HIDE DEF Bad
  <2> QED BY <1>1, <1>2, MinExists
<1> DEFINE m == Min(Bad)
<1> HIDE DEF m
<1>4. m \in 0 .. n /\ m \notin P /\ \A x \in 0 .. n : x \notin P => m <= x
  BY <1>3 DEF m
<1>5. m # 0 /\ m - 1 \in 0 .. n - 1 /\ m - 1 \in P
  BY <1>4
<1> QED BY <1>4, <1>5

\* f holds what a loop over 1 .. n has made of "base" after each of its steps.
IsLoop(f, n, base, step) == f[0] = base /\ \A i \in 1 .. n : f[i] = step[i][f[i - 1]]

\* A loop over 1 .. n that carries a value of S has a result after every step.
LEMMA LoopExists ==
  ASSUME NEW n \in Nat, NEW S, NEW base \in S, NEW step \in [1 .. n -> [S -> S]]
  PROVE  \E f \in [0 .. n -> S] : IsLoop(f, n, base, step)
<1> DEFINE Runs(m) == \E f \in [0 .. m -> S] : IsLoop(f, m, base, step)
           P == {m \in 0 .. n : Runs(m)}
<1>1. Runs(0)
  <2> DEFINE g == [i \in 0 .. 0 |-> base]
  <2>1. g \in [0 .. 0 -> S] /\ g[0] = base /\ 1 .. 0 = {}
    OBVIOUS
  <2> QED BY <2>1 DEF IsLoop
<1>2. ASSUME NEW m \in 0 .. n - 1, Runs(m) PROVE Runs(m + 1)
  <2>1. PICK f \in [0 .. m -> S] : IsLoop(f, m, base, step)
    BY <1>2
  <2> DEFINE g == [i \in 0 .. m + 1 |-> IF i = m + 1 THEN step[m + 1][f[m]] ELSE f[i]]
  <2>2. step[m + 1][f[m]] \in S
    <3>1. f[m] \in S /\ m + 1 \in 1 .. n
      OBVIOUS
    <3> QED BY <3>1
  <2>3. g \in [0 .. m + 1 -> S] /\ g[0] = base
    BY <2>1, <2>2 DEF IsLoop
  <2>4. ASSUME NEW i \in 1 .. m + 1 PROVE g[i] = step[i][g[i - 1]]
    <3>1. CASE i = m + 1
      BY <3>1
    <3>2. CASE i # m + 1
      <4>1. i \in 1 .. m /\ g[i] = f[i] /\ g[i - 1] = f[i - 1]
        BY <3>2
      <4> QED BY <2>1, <4>1 DEF IsLoop
    <3> QED BY <3>1, <3>2
  <2> HIDE DEF g
  <2> QED BY <2>3, <2>4 DEF IsLoop
<1>3. \A m \in 0 .. n : m \in P
  <2> HIDE DEF Runs
  <2>1. 0 \in P /\ \A m \in 0 .. n - 1 : m \in P => m + 1 \in P
    BY <1>1, <1>2
  <2> HIDE DEF P
  <2> QED BY <2>1, InductionUpTo
<1> QED BY <1>3

\* f holds what a loop makes that jumps from o to next[o] and stops where that is not ahead.
IsJump(f, n, next, base, step) ==
  \A o \in 0 .. n : f[o] = IF next[o] > o THEN step[o][f[next[o]]] ELSE base[o]

\* A loop that jumps ahead, as over packets of their own lengths, has a result from
\* every place it may start at.
LEMMA JumpExists ==
  ASSUME NEW n \in Nat, NEW S, NEW next \in [0 .. n -> 0 .. n], NEW base \in [0 .. n -> S],
         NEW step \in [0 .. n -> [S -> S]]
  PROVE  \E f \in [0 .. n -> S] : IsJump(f, n, next, base, step)
<1> DEFINE Jumps(f, lo) ==
             \A o \in lo .. n : f[o] = IF next[o] > o THEN step[o][f[next[o]]] ELSE base[o]
           P == {m \in 0 .. n : \E f \in [n - m .. n -> S] : Jumps(f, n - m)}
<1>1. 0 \in P
  <2> DEFINE f == [o \in n .. n |-> base[n]]
  <2>1. n \in 0 .. n /\ ~(next[n] > n) /\ base[n] \in S /\ n - 0 = n
    OBVIOUS
  <2>2. f \in [n .. n -> S] /\ Jumps(f, n)
    BY <2>1
  <2> HIDE DEF f, Jumps
  <2> QED BY <2>1, <2>2
<1>2. ASSUME NEW m \in 0 .. n - 1, m \in P PROVE m + 1 \in P
  <2>1. PICK k \in 0 .. n : k = n - m
    OBVIOUS
  <2>2. k - 1 = n - (m + 1) /\ m + 1 \in 0 .. n /\ k - 1 \in 0 .. n
    BY <2>1
  <2>3. PICK f \in [k .. n -> S] : Jumps(f, k)
    <3> HIDE DEF Jumps
    <3> QED BY <1>2, <2>1
  <2> DEFINE first == IF next[k - 1] > k - 1 THEN step[k - 1][f[next[k - 1]]] ELSE base[k - 1]
             g == [o \in k - 1 .. n |-> IF o = k - 1 THEN first ELSE f[o]]
  <2>4. first \in S
    <3>1. next[k - 1] > k - 1 => next[k - 1] \in k .. n
      BY <2>2
    <3>2. step[k - 1] \in [S -> S] /\ base[k - 1] \in S
      BY <2>2
    <3>3. next[k - 1] > k - 1 => f[next[k - 1]] \in S
      BY <3>1
    <3> QED BY <3>2, <3>3
  <2> HIDE DEF first
  <2>5. g \in [k - 1 .. n -> S] /\ \A o \in k - 1 .. n : g[o] = IF o = k - 1 THEN first ELSE f[o]
    BY <2>2, <2>4
  <2> HIDE DEF g
  <2>6. ASSUME NEW o \in k - 1 .. n
        PROVE  g[o] = IF next[o] > o THEN step[o][g[next[o]]] ELSE base[o]
    <3>1. o \in 0 .. n /\ next[o] \in 0 .. n
      BY <2>2
    <3>2. next[o] > o => next[o] \in k .. n /\ g[next[o]] = f[next[o]]
      <4>1. next[o] > o => next[o] \in k - 1 .. n /\ next[o] \in k .. n /\ next[o] # k - 1
        <5>1. PICK w \in 0 .. n : w = next[o]
          BY <3>1
        <5>2. w > o => w \in k - 1 .. n /\ w \in k .. n /\ w # k - 1
          BY <3>1
        <5> QED BY <5>1, <5>2
      <4> QED BY <2>5, <4>1
    <3>3. CASE o = k - 1
      BY <2>5, <3>2, <3>3 DEF first
    <3>4. CASE o # k - 1
      <4>1. o \in k .. n /\ g[o] = f[o]
        BY <2>5, <3>4
      <4> QED BY <2>3, <3>2, <4>1
    <3> QED BY <3>3, <3>4
  <2>7. Jumps(g, k - 1)
    BY <2>6
  <2> HIDE DEF Jumps
  <2> QED BY <2>2, <2>5, <2>7
<1>3. n \in P
  <2> HIDE DEF P
  <2>1. \A i \in 0 .. n : i \in P
    BY <1>1, <1>2, InductionUpTo
  <2> QED BY <2>1
<1>4. n - n = 0
  OBVIOUS
<1> HIDE DEF Jumps
<1>5. \E f \in [0 .. n -> S] : Jumps(f, 0)
  BY <1>3, <1>4
<1> QED BY <1>5, Zenon DEF Jumps, IsJump

\* f holds what a fold over sets of numbers up to n, the lowest first, makes of them.
IsFold(f, n, base, step) ==
  /\ f[{}] = base
  /\ \A T \in SUBSET (1 .. n) : T # {} => f[T] = step[Min(T)][f[T \ {Min(T)}]]

\* Such a fold has a result for every set.
LEMMA FoldExists ==
  ASSUME NEW n \in Nat, NEW S, NEW base \in S, NEW step \in [1 .. n -> [S -> S]]
  PROVE  \E f \in [SUBSET (1 .. n) -> S] : IsFold(f, n, base, step)
<1> DEFINE Folds(f, lo) ==
             /\ f[{}] = base
             /\ \A T \in SUBSET (lo .. n) : T # {} => f[T] = step[Min(T)][f[T \ {Min(T)}]]
           P == {m \in 0 .. n : \E f \in [SUBSET (n - m + 1 .. n) -> S] : Folds(f, n - m + 1)}
<1>1. 0 \in P
  <2> DEFINE f == [T \in SUBSET (n + 1 .. n) |-> base]
  <2>1. n + 1 .. n = {} /\ n - 0 + 1 = n + 1
    OBVIOUS
  <2>2. f \in [SUBSET (n + 1 .. n) -> S] /\ Folds(f, n + 1)
    BY <2>1
  <2> HIDE DEF f, Folds
  <2> QED BY <2>1, <2>2
<1>2. ASSUME NEW m \in 0 .. n - 1, m \in P PROVE m + 1 \in P
  <2>1. PICK k \in 1 .. n : k = n - m
    OBVIOUS
  <2>2. /\ k + 1 = n - m + 1 /\ k = n - (m + 1) + 1 /\ m + 1 \in 0 .. n
        /\ k \in k .. n
    BY <2>1
  <2>3. PICK f \in [SUBSET (k + 1 .. n) -> S] : Folds(f, k + 1)
    <3> HIDE DEF Folds
    <3> QED BY <1>2, <2>2
  <2> DEFINE g == [T \in SUBSET (k .. n) |-> IF k \in T THEN step[k][f[T \ {k}]] ELSE f[T]]
  <2>4. \A T \in SUBSET (k .. n) : T \ {k} \in SUBSET (k + 1 .. n)
    OBVIOUS
  <2>5. \A T \in SUBSET (k .. n) : k \notin T => T \in SUBSET (k + 1 .. n)
    OBVIOUS
  <2>6. \A T \in SUBSET (k .. n) : (IF k \in T THEN step[k][f[T \ {k}]] ELSE f[T]) \in S
    <3>1. step[k] \in [S -> S]
      BY <2>1
    <3> QED BY <2>4, <2>5, <3>1
  <2>7. /\ g \in [SUBSET (k .. n) -> S]
        /\ \A T \in SUBSET (k .. n) : g[T] = IF k \in T THEN step[k][f[T \ {k}]] ELSE f[T]
    BY <2>6
  <2> HIDE DEF g
  <2>8. g[{}] = base
    BY <2>3, <2>7
  <2>9. ASSUME NEW T \in SUBSET (k .. n), T # {}
        PROVE  g[T] = step[Min(T)][g[T \ {Min(T)}]]
    <3>1. T \in SUBSET Nat
      OBVIOUS
    <3>2. Min(T) \in T /\ \A x \in T : Min(T) <= x
      BY <2>9, <3>1, MinExists
    <3>3. CASE k \in T
      <4>1. Min(T) = k
        <5>1. Min(T) <= k /\ Min(T) \in k .. n
          BY <3>2, <3>3
        <5> QED BY <5>1
      <4>2. k \notin T \ {k} /\ T \ {k} \in SUBSET (k .. n)
        OBVIOUS
      <4>3. g[T \ {k}] = f[T \ {k}]
        BY <2>7, <4>2
      <4> QED BY <2>7, <3>3, <4>1, <4>3
    <3>4. CASE k \notin T
      <4>1. T \in SUBSET (k + 1 .. n)
        BY <2>5, <3>4
      <4>2. f[T] = step[Min(T)][f[T \ {Min(T)}]]
        BY <2>3, <2>9, <4>1
      <4>3. k \notin T \ {Min(T)} /\ T \ {Min(T)} \in SUBSET (k .. n)
        BY <3>4
      <4> QED BY <2>7, <3>4, <4>2, <4>3
    <3> QED BY <3>3, <3>4
  <2>10. Folds(g, k)
    BY <2>8, <2>9
  <2> HIDE DEF Folds
  <2> QED BY <2>2, <2>7, <2>10
<1>3. n \in P
  <2> HIDE DEF P
  <2>1. \A i \in 0 .. n : i \in P
    BY <1>1, <1>2, InductionUpTo
  <2> QED BY <2>1
<1>4. n - n + 1 = 1
  OBVIOUS
<1> HIDE DEF Folds
<1>5. \E f \in [SUBSET (1 .. n) -> S] : Folds(f, 1)
  BY <1>3, <1>4
<1> QED BY <1>5, Zenon DEF Folds, IsFold
=============================================================================
