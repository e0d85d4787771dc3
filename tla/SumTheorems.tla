---------------------------- MODULE SumTheorems ----------------------------
(***************************************************************************)
(* Facts about SumTo, proved by induction on the length of the sum.        *)
(*                                                                         *)
(* The provers cannot instantiate an induction theorem that takes a        *)
(* predicate as a parameter, so induction is restated for a SET of natural *)
(* numbers (NatSetInduction, from the least element of its complement) and *)
(* every proof below names the set of lengths for which its claim holds.   *)
(***************************************************************************)
EXTENDS Sums, WellFoundedInduction, TLAPS

\* Every nonempty set of natural numbers has a least element.
LEMMA NatLeast ==
  ASSUME NEW T \in SUBSET Nat, T # {}
  PROVE  \E x \in T : \A y \in T : x <= y
<1> DEFINE R == {ss \in Nat \X Nat : ss[1] < ss[2]}
<1>1. IsWellFoundedOn(R, Nat)
  BY NatLessThanWellFounded DEF OpToRel
<1>2. PICK x \in T : \A y \in T : <<y, x>> \notin R
  <2> HIDE DEF R
  <2> QED BY <1>1, WFMin
<1>3. ASSUME NEW y \in T PROVE x <= y
  <2>1. x \in Nat /\ y \in Nat
    OBVIOUS
  <2>2. ~(y < x)
    BY <1>2, <2>1
  <2> QED BY <2>1, <2>2
<1> QED BY <1>3

\* A set that holds 0 and, with every n, n + 1, holds every natural number.
LEMMA NatSetInduction ==
  ASSUME NEW S, 0 \in S, \A n \in Nat : n \in S => n + 1 \in S
  PROVE  \A n \in Nat : n \in S
<1> DEFINE T == {n \in Nat : n \notin S}
<1>1. SUFFICES ASSUME T # {} PROVE FALSE
  BY <1>1
<1>2. PICK x \in T : \A y \in T : x <= y
  BY <1>1, NatLeast
<1>3. x \in Nat /\ x # 0 /\ x \notin S
  BY DEF T
<1>4. x - 1 \in Nat /\ ~(x <= x - 1)
  BY <1>3
<1>5. x - 1 \in S
  BY <1>2, <1>4 DEF T
<1> QED BY <1>3, <1>4, <1>5

-----------------------------------------------------------------------------
\* s is the sequence of partial sums of f, up to n.
IsRun(s, f, n) == s = [i \in 0..n |-> IF i = 0 THEN 0 ELSE s[i - 1] + f[i]]

\* The recursive definition inside SumTo has a solution.
LEMMA RunExists ==
  ASSUME NEW f
  PROVE  \A n \in Nat : \E s : IsRun(s, f, n)
<1> DEFINE S == {n \in Nat : \E s : IsRun(s, f, n)}
<1>1. 0 \in S
  <2> DEFINE z == [i \in 0..0 |-> 0]
  <2>1. IsRun(z, f, 0)
    BY DEF IsRun
  <2> QED BY <2>1
<1>2. ASSUME NEW n \in Nat, n \in S PROVE n + 1 \in S
  <2>1. PICK s : IsRun(s, f, n)
    BY <1>2
  <2> DEFINE t == [i \in 0..(n + 1) |-> IF i <= n THEN s[i] ELSE s[n] + f[n + 1]]
  <2>2. ASSUME NEW i \in 0..(n + 1)
        PROVE  t[i] = IF i = 0 THEN 0 ELSE t[i - 1] + f[i]
    <3>1. CASE i = 0
      BY <2>1, <3>1 DEF IsRun
    <3>2. CASE i # 0 /\ i <= n
      <4>1. i \in 0..n /\ i - 1 \in 0..n /\ i - 1 \in 0..(n + 1) /\ i - 1 <= n
        BY <3>2
      <4>2. s[i] = s[i - 1] + f[i]
        BY <2>1, <3>2, <4>1 DEF IsRun
      <4> QED BY <3>2, <4>1, <4>2
    <3>3. CASE i = n + 1
      BY <3>3
    <3> QED BY <3>1, <3>2, <3>3
  <2>3. IsRun(t, f, n + 1)
    BY <2>2 DEF IsRun
  <2> QED BY <2>3
<1>3. \A n \in Nat : n \in S
  <2> HIDE DEF S
  <2> QED BY <1>1, <1>2, NatSetInduction
<1> QED BY <1>3

\* Two solutions agree wherever both are defined.
LEMMA RunPrefix ==
  ASSUME NEW f, NEW s, NEW t, NEW m \in Nat, NEW k \in Nat, k <= m,
         IsRun(s, f, k), IsRun(t, f, m)
  PROVE  \A i \in 0..k : s[i] = t[i]
<1> DEFINE S == {i \in Nat : i <= k => s[i] = t[i]}
<1>1. 0 \in S
  <2>1. 0 \in 0..k /\ 0 \in 0..m
    OBVIOUS
  <2> QED BY <2>1 DEF IsRun
<1>2. ASSUME NEW i \in Nat, i \in S PROVE i + 1 \in S
  <2>1. SUFFICES ASSUME i + 1 <= k PROVE s[i + 1] = t[i + 1]
    OBVIOUS
  <2>2. i + 1 \in 0..k /\ i + 1 \in 0..m /\ i + 1 # 0 /\ (i + 1) - 1 = i
    BY <2>1
  <2>3. s[i + 1] = s[i] + f[i + 1]
    BY <2>2 DEF IsRun
  <2>4. t[i + 1] = t[i] + f[i + 1]
    BY <2>2 DEF IsRun
  <2> QED BY <1>2, <2>1, <2>3, <2>4
<1>3. \A i \in Nat : i \in S
  <2> HIDE DEF S
  <2> QED BY <1>1, <1>2, NatSetInduction
<1> QED BY <1>3

LEMMA SumToIsRun ==
  ASSUME NEW f, NEW n \in Nat
  PROVE  \E s : IsRun(s, f, n) /\ SumTo(f, n) = s[n]
<1> DEFINE c == CHOOSE s : s = [i \in 0..n |-> IF i = 0 THEN 0 ELSE s[i - 1] + f[i]]
<1>1. IsRun(c, f, n)
  BY RunExists DEF IsRun
<1>2. SumTo(f, n) = c[n]
  BY DEF SumTo
<1> QED BY <1>1, <1>2

-----------------------------------------------------------------------------
\* The empty sum.
LEMMA SumToZero ==
  ASSUME NEW f
  PROVE  SumTo(f, 0) = 0
<1>1. PICK s : IsRun(s, f, 0) /\ SumTo(f, 0) = s[0]
  BY SumToIsRun
<1> QED BY <1>1 DEF IsRun

\* The sum one term longer.
LEMMA SumToStep ==
  ASSUME NEW f, NEW n \in Nat
  PROVE  SumTo(f, n + 1) = SumTo(f, n) + f[n + 1]
<1>1. PICK s : IsRun(s, f, n) /\ SumTo(f, n) = s[n]
  BY SumToIsRun
<1>2. PICK t : IsRun(t, f, n + 1) /\ SumTo(f, n + 1) = t[n + 1]
  BY SumToIsRun
<1>3. s[n] = t[n]
  BY <1>1, <1>2, RunPrefix
<1>4. t[n + 1] = t[n] + f[n + 1]
  BY <1>2 DEF IsRun
<1> QED BY <1>1, <1>2, <1>3, <1>4

\* A sum of integers is an integer.
LEMMA SumToInt ==
  ASSUME NEW n \in Nat, NEW f, \A i \in 1..n : f[i] \in Int
  PROVE  SumTo(f, n) \in Int
<1> DEFINE S == {k \in Nat : k <= n => SumTo(f, k) \in Int}
<1>1. 0 \in S
  BY SumToZero
<1>2. ASSUME NEW k \in Nat, k \in S PROVE k + 1 \in S
  <2>1. SUFFICES ASSUME k + 1 <= n PROVE SumTo(f, k + 1) \in Int
    OBVIOUS
  <2> QED BY <1>2, <2>1, SumToStep
<1>3. \A k \in Nat : k \in S
  <2> HIDE DEF S
  <2> QED BY <1>1, <1>2, NatSetInduction
<1> QED BY <1>3

\* Sums add term by term.
LEMMA SumToAdd ==
  ASSUME NEW n \in Nat, NEW f, NEW g, NEW h,
         \A i \in 1..n : f[i] \in Int /\ g[i] \in Int /\ h[i] = f[i] + g[i]
  PROVE  SumTo(h, n) = SumTo(f, n) + SumTo(g, n)
<1> DEFINE S == {k \in Nat : k <= n => SumTo(h, k) = SumTo(f, k) + SumTo(g, k)}
<1>1. 0 \in S
  BY SumToZero
<1>2. ASSUME NEW k \in Nat, k \in S PROVE k + 1 \in S
  <2>1. SUFFICES ASSUME k + 1 <= n
                 PROVE  SumTo(h, k + 1) = SumTo(f, k + 1) + SumTo(g, k + 1)
    OBVIOUS
  <2>2. SumTo(f, k) \in Int /\ SumTo(g, k) \in Int
    <3>1. \A i \in 1..k : f[i] \in Int /\ g[i] \in Int
      BY <2>1
    <3> QED BY <3>1, SumToInt
  <2> QED BY <1>2, <2>1, <2>2, SumToStep
<1>3. \A k \in Nat : k \in S
  <2> HIDE DEF S
  <2> QED BY <1>1, <1>2, NatSetInduction
<1> QED BY <1>3

\* Equal terms, equal sums.
LEMMA SumToEq ==
  ASSUME NEW n \in Nat, NEW f, NEW g, \A i \in 1..n : f[i] = g[i]
  PROVE  SumTo(f, n) = SumTo(g, n)
<1> DEFINE S == {k \in Nat : k <= n => SumTo(f, k) = SumTo(g, k)}
<1>1. 0 \in S
  BY SumToZero
<1>2. ASSUME NEW k \in Nat, k \in S PROVE k + 1 \in S
  BY <1>2, SumToStep
<1>3. \A k \in Nat : k \in S
  <2> HIDE DEF S
  <2> QED BY <1>1, <1>2, NatSetInduction
<1> QED BY <1>3

\* A sum with a single term that is not 0.
LEMMA SumToSingle ==
  ASSUME NEW n \in Nat, NEW f, NEW k \in 1..n, f[k] \in Int,
         \A i \in 1..n : i # k => f[i] = 0
  PROVE  SumTo(f, n) = f[k]
<1> DEFINE S == {m \in Nat : m <= n => SumTo(f, m) = IF k <= m THEN f[k] ELSE 0}
<1>1. 0 \in S
  BY SumToZero
<1>2. ASSUME NEW m \in Nat, m \in S PROVE m + 1 \in S
  <2>1. SUFFICES ASSUME m + 1 <= n
                 PROVE  SumTo(f, m + 1) = IF k <= m + 1 THEN f[k] ELSE 0
    OBVIOUS
  <2>2. SumTo(f, m + 1) = (IF k <= m THEN f[k] ELSE 0) + f[m + 1]
    BY <1>2, <2>1, SumToStep
  <2> QED BY <2>1, <2>2
<1>3. \A m \in Nat : m \in S
  <2> HIDE DEF S
  <2> QED BY <1>1, <1>2, NatSetInduction
<1> QED BY <1>3

\* A sum of zeroes.
LEMMA SumToAllZero ==
  ASSUME NEW n \in Nat, NEW f, \A i \in 1..n : f[i] = 0
  PROVE  SumTo(f, n) = 0
<1> DEFINE S == {m \in Nat : m <= n => SumTo(f, m) = 0}
<1>1. 0 \in S
  BY SumToZero
<1>2. ASSUME NEW m \in Nat, m \in S PROVE m + 1 \in S
  BY <1>2, SumToStep
<1>3. \A m \in Nat : m \in S
  <2> HIDE DEF S
  <2> QED BY <1>1, <1>2, NatSetInduction
<1> QED BY <1>3

\* Changing one term changes the sum by as much.
LEMMA SumToPoint ==
  ASSUME NEW n \in Nat, NEW f, NEW g, NEW k \in 1..n,
         \A i \in 1..n : f[i] \in Int /\ g[i] \in Int,
         \A i \in 1..n : i # k => g[i] = f[i]
  PROVE  SumTo(g, n) = SumTo(f, n) + (g[k] - f[k])
<1> DEFINE d == [i \in 1..n |-> IF i = k THEN g[k] - f[k] ELSE 0]
<1>1. \A i \in 1..n : f[i] \in Int /\ d[i] \in Int /\ g[i] = f[i] + d[i]
  OBVIOUS
<1>2. SumTo(d, n) = d[k]
  <2>1. d[k] \in Int /\ \A i \in 1..n : i # k => d[i] = 0
    OBVIOUS
  <2> HIDE DEF d
  <2> QED BY <2>1, SumToSingle
<1>3. SumTo(g, n) = SumTo(f, n) + SumTo(d, n)
  <2> HIDE DEF d
  <2> QED BY <1>1, SumToAdd
<1> QED BY <1>2, <1>3

\* Smaller terms, a smaller sum.
LEMMA SumToLe ==
  ASSUME NEW n \in Nat, NEW f, NEW g,
         \A i \in 1..n : f[i] \in Int /\ g[i] \in Int /\ f[i] <= g[i]
  PROVE  SumTo(f, n) <= SumTo(g, n)
<1> DEFINE S == {k \in Nat : k <= n => SumTo(f, k) <= SumTo(g, k)}
<1>1. 0 \in S
  BY SumToZero
<1>2. ASSUME NEW k \in Nat, k \in S PROVE k + 1 \in S
  <2>1. SUFFICES ASSUME k + 1 <= n PROVE SumTo(f, k + 1) <= SumTo(g, k + 1)
    OBVIOUS
  <2>2. SumTo(f, k) \in Int /\ SumTo(g, k) \in Int
    <3>1. \A i \in 1..k : f[i] \in Int /\ g[i] \in Int
      BY <2>1
    <3> QED BY <3>1, SumToInt
  <2>3. k + 1 \in 1..n
    BY <2>1
  <2>4. SumTo(f, k) <= SumTo(g, k)
    BY <1>2, <2>1
  <2> QED BY <2>2, <2>3, <2>4, SumToStep
<1>3. \A k \in Nat : k \in S
  <2> HIDE DEF S
  <2> QED BY <1>1, <1>2, NatSetInduction
<1> QED BY <1>3

\* Smaller terms with the same sum are the same terms.
LEMMA SumToSame ==
  ASSUME NEW n \in Nat, NEW f, NEW g,
         \A i \in 1..n : f[i] \in Int /\ g[i] \in Int /\ f[i] <= g[i],
         SumTo(f, n) = SumTo(g, n)
  PROVE  \A i \in 1..n : f[i] = g[i]
<1> SUFFICES ASSUME NEW k \in 1..n, f[k] < g[k] PROVE FALSE
  OBVIOUS
<1> DEFINE h == [i \in 1..n |-> IF i = k THEN f[k] ELSE g[i]]
<1>1. /\ \A i \in 1..n : f[i] \in Int /\ h[i] \in Int /\ f[i] <= h[i]
      /\ \A i \in 1..n : i # k => h[i] = g[i]
      /\ h[k] = f[k]
  OBVIOUS
<1> HIDE DEF h
<1>2. SumTo(f, n) <= SumTo(h, n)
  BY <1>1, SumToLe
<1>3. SumTo(h, n) = SumTo(g, n) + (h[k] - g[k])
  BY <1>1, SumToPoint
<1>4. SumTo(g, n) \in Int
  BY SumToInt
<1> QED BY <1>1, <1>2, <1>3, <1>4
=============================================================================
