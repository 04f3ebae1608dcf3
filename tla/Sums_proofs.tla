----------------------------- MODULE Sums_proofs -----------------------------
(***************************************************************************)
(* What sums are, for sequences of any length.                             *)
(***************************************************************************)
EXTENDS Sums, WellFoundedInduction, TLAPS

-----------------------------------------------------------------------------
(* Induction over numbers.  The theorems of the library take a predicate as *)
(* a parameter; a set does as well.                                         *)

\* A set of numbers that is not empty has a least element.
LEMMA LeastNumber ==
    ASSUME NEW S \in SUBSET Nat, S # {}
    PROVE  \E m \in S : \A n \in S : m <= n
<1> DEFINE R == OpToRel(<, Nat)
<1>1. IsWellFoundedOn(R, Nat)
  BY NatLessThanWellFounded
<1>2. \A n \in Nat, k \in Nat : <<n, k>> \in R <=> n < k
  BY DEF OpToRel
<1> HIDE DEF R
<1>3. PICK m \in S : \A n \in S : <<n, m>> \notin R
  BY <1>1, WFMin
<1>4. \A n \in S : ~(n < m)
  BY <1>2, <1>3
<1>5. m \in Nat /\ \A n \in S : n \in Nat
  OBVIOUS
<1> QED
  BY <1>4, <1>5

\* Induction, for a set of numbers instead of a predicate.
LEMMA SetInduction ==
    ASSUME NEW S, 0 \in S, \A n \in Nat : n \in S => n + 1 \in S
    PROVE  Nat \subseteq S
<1> SUFFICES ASSUME Nat \ S # {} PROVE FALSE
  OBVIOUS
<1>1. PICK m \in Nat \ S : \A n \in Nat \ S : m <= n
  BY LeastNumber
<1>2. m - 1 \in Nat
  BY <1>1
<1>3. m - 1 \in S
  BY <1>1, <1>2
<1> QED
  BY <1>1, <1>2, <1>3

\* The sums of a sequence's beginnings, as a function f of the length.
Sums(f, costs, n) ==
    f = [i \in 0 .. n |-> IF i = 0 THEN 0 ELSE f[i - 1] + costs[i]]

\* There is such a function for any sequence of numbers.
LEMMA SumsExist ==
    ASSUME NEW costs, NEW n \in Nat
    PROVE  \E f : Sums(f, costs, n)
<1> DEFINE S == {k \in Nat : \E f : Sums(f, costs, k)}
<1>1. 0 \in S
  <2> DEFINE f == [i \in {0} |-> 0]
  <2>1. f = [i \in 0 .. 0 |-> IF i = 0 THEN 0 ELSE f[i - 1] + costs[i]]
    OBVIOUS
  <2> QED
    BY <2>1 DEF Sums
<1>2. ASSUME NEW k \in Nat, k \in S
      PROVE  k + 1 \in S
  <2>1. PICK f : f = [i \in 0 .. k |->
                        IF i = 0 THEN 0 ELSE f[i - 1] + costs[i]]
    BY <1>2 DEF Sums
  <2> DEFINE g == [i \in 0 .. k + 1 |->
                     IF i = k + 1 THEN f[k] + costs[i] ELSE f[i]]
  <2>2. ASSUME NEW i \in 0 .. k + 1
        PROVE  g[i] = IF i = 0 THEN 0 ELSE g[i - 1] + costs[i]
    <3>1. CASE i = k + 1
      BY <3>1
    <3>2. CASE i # k + 1
      <4>1. i \in 0 .. k /\ g[i] = f[i]
        BY <3>2
      <4>2. i # 0 => i - 1 \in 0 .. k /\ g[i - 1] = f[i - 1]
        BY <4>1
      <4>3. f[i] = IF i = 0 THEN 0 ELSE f[i - 1] + costs[i]
        BY <2>1, <4>1
      <4> HIDE DEF g
      <4> QED
        BY <4>1, <4>2, <4>3
    <3> QED
      BY <3>1, <3>2
  <2>3. Sums(g, costs, k + 1)
    BY <2>2 DEF Sums
  <2> QED
    BY <2>3
<1>3. Nat \subseteq S
  <2> HIDE DEF S
  <2> QED
    BY <1>1, <1>2, SetInduction
<1> QED
  BY <1>3

\* SumsOf adds one member of the sequence after the other.
LEMMA SumsOfSteps ==
    ASSUME NEW costs \in Seq(Nat)
    PROVE  /\ SumsOf(costs)[0] = 0
           /\ \A i \in 1 .. Len(costs) :
                 SumsOf(costs)[i] = SumsOf(costs)[i - 1] + costs[i]
<1>1. Len(costs) \in Nat
  OBVIOUS
<1>2. \E f : f = [i \in 0 .. Len(costs) |->
                    IF i = 0 THEN 0 ELSE f[i - 1] + costs[i]]
  BY <1>1, SumsExist DEF Sums
<1> DEFINE s == SumsOf(costs)
<1>3. s = [i \in 0 .. Len(costs) |->
             IF i = 0 THEN 0 ELSE s[i - 1] + costs[i]]
  BY <1>2 DEF SumsOf
<1> HIDE DEF s
<1>4. s[0] = 0 /\ \A i \in 1 .. Len(costs) : s[i] = s[i - 1] + costs[i]
  BY <1>1, <1>3
<1> QED
  BY <1>4 DEF s

\* They are numbers,
LEMMA SumsOfType ==
    ASSUME NEW costs \in Seq(Nat)
    PROVE  \A i \in 0 .. Len(costs) : SumsOf(costs)[i] \in Nat
<1> DEFINE s == SumsOf(costs)
           S == {k \in Nat : k <= Len(costs) => s[k] \in Nat}
<1>1. /\ s[0] = 0
      /\ \A i \in 1 .. Len(costs) : s[i] = s[i - 1] + costs[i]
  BY SumsOfSteps
<1> HIDE DEF s
<1>2. 0 \in S
  BY <1>1
<1>3. ASSUME NEW k \in Nat, k \in S
      PROVE  k + 1 \in S
  <2> SUFFICES ASSUME k + 1 <= Len(costs)
               PROVE  s[k + 1] \in Nat
    OBVIOUS
  <2>1. s[k + 1] = s[(k + 1) - 1] + costs[k + 1]
    BY <1>1
  <2>2. (k + 1) - 1 = k /\ costs[k + 1] \in Nat /\ s[k] \in Nat
    BY <1>3
  <2> QED
    BY <2>1, <2>2
<1>4. Nat \subseteq S
  <2> HIDE DEF S
  <2> QED
    BY <1>2, <1>3, SetInduction
<1> QED
  BY <1>4 DEF s

\* and a longer beginning has no smaller one.
LEMMA SumsOfGrow ==
    ASSUME NEW costs \in Seq(Nat), NEW i \in Nat, NEW j \in 0 .. Len(costs),
           i <= j
    PROVE  SumsOf(costs)[i] <= SumsOf(costs)[j]
<1> DEFINE s == SumsOf(costs)
           S == {d \in Nat : i + d <= Len(costs) => s[i] <= s[i + d]}
<1>1. /\ \A k \in 1 .. Len(costs) : s[k] = s[k - 1] + costs[k]
      /\ \A k \in 0 .. Len(costs) : s[k] \in Nat
  BY SumsOfSteps, SumsOfType
<1> HIDE DEF s
<1>2. 0 \in S
  BY <1>1
<1>3. ASSUME NEW d \in Nat, d \in S
      PROVE  d + 1 \in S
  <2> SUFFICES ASSUME i + d + 1 <= Len(costs)
               PROVE  s[i] <= s[i + (d + 1)]
    OBVIOUS
  <2>1. s[i + d + 1] = s[(i + d + 1) - 1] + costs[i + d + 1]
    BY <1>1
  <2>2. (i + d + 1) - 1 = i + d /\ costs[i + d + 1] \in Nat
        /\ s[i + d] \in Nat /\ s[i] \in Nat /\ s[i] <= s[i + d]
    BY <1>1, <1>3
  <2> QED
    BY <2>1, <2>2
<1>4. Nat \subseteq S
  <2> HIDE DEF S
  <2> QED
    BY <1>2, <1>3, SetInduction
<1>5. j - i \in Nat /\ i + (j - i) = j
  OBVIOUS
<1>6. s[i] <= s[i + (j - i)]
  BY <1>4, <1>5
<1> QED
  BY <1>5, <1>6 DEF s
=============================================================================
