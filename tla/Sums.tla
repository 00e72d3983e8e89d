-------------------------------- MODULE Sums --------------------------------
(***************************************************************************)
(* Facts about numbers, sums along an interval and sums over finite sets   *)
(* that the proofs of several components rest on.  Each induction is an    *)
(* argument about a least counterexample.                                  *)
(***************************************************************************)
EXTENDS Integers, WellFoundedInduction, TLAPS

\* A set of numbers has a least one.
LEMMA LeastNumber ==
    ASSUME NEW T, T \subseteq Nat, T # {}
    PROVE  \E x \in T : \A y \in T : x <= y
<1>1. PICK x \in T : \A y \in T : ~(<<y, x>> \in OpToRel(<, Nat))
  BY NatLessThanWellFounded, WFMin
<1>2. \A y \in T : ~(y < x)
  BY <1>1 DEF OpToRel
<1> QED BY <1>2

\* A number below twice the modulus goes round once at most.
LEMMA OneRound ==
    ASSUME NEW m \in Nat \ {0}, NEW a \in 0 .. (m + m - 1)
    PROVE  a % m = IF a < m THEN a ELSE a - m
<1> DEFINE q == a \div m
           r == a % m
<1>1. q \in Int /\ r \in 0 .. (m - 1) /\ a = m * q + r
  OBVIOUS
<1> HIDE DEF q, r
<1>2. q \in {0, 1}
  <2>1. CASE q >= 2
    <3>1. PICK d \in Nat : q = d + 2 BY <1>1, <2>1
    <3>2. m * q = m * d + (m + m) /\ m * d \in Nat BY <3>1
    <3> QED BY <1>1, <3>2
  <2>2. CASE q < 0
    <3>1. PICK d \in Nat : q = 0 - (d + 1) BY <1>1, <2>2
    <3>2. m * q = 0 - (m * d) - m /\ m * d \in Nat BY <3>1
    <3> QED BY <1>1, <3>2
  <2> QED BY <1>1, <2>1, <2>2
<1>3. CASE q = 0
  <2>1. a = r BY <1>1, <1>3
  <2> QED BY <1>1, <2>1 DEF r
<1>4. CASE q = 1
  <2>1. a = m + r BY <1>1, <1>4
  <2> QED BY <1>1, <2>1 DEF r
<1> QED BY <1>2, <1>3, <1>4

----------------------------------------------------------------------------
(* Sums along an interval. *)

\* s[i] is the sum of the first i of the weights w.
Adds(s, w, n) == s = [i \in 0 .. n |-> IF i = 0 THEN 0 ELSE s[i - 1] + w[i]]

\* The recursion of a sum along an interval defines a function.
LEMMA SumExists ==
    ASSUME NEW n \in Nat, NEW w
    PROVE  \E s : Adds(s, w, n)
<1> DEFINE T == {m \in Nat : ~ \E s : Adds(s, w, m)}
<1>1. SUFFICES T = {}
  OBVIOUS
<1>2. SUFFICES ASSUME T # {} PROVE FALSE
  OBVIOUS
<1>3. PICK m \in T : \A k \in T : m <= k
  BY <1>2, LeastNumber
<1>4. CASE m = 0
  <2>1. Adds([i \in 0 .. 0 |-> 0], w, 0)
    BY DEF Adds
  <2> QED BY <1>4, <2>1
<1>5. CASE m # 0
  <2>1. m - 1 \in Nat /\ m - 1 \notin T
    BY <1>3, <1>5
  <2>2. PICK s : Adds(s, w, m - 1)
    BY <2>1
  <2> DEFINE t == [i \in 0 .. m |-> IF i = m THEN s[m - 1] + w[m] ELSE s[i]]
  <2>3. \A i \in 0 .. (m - 1) : s[i] = IF i = 0 THEN 0 ELSE s[i - 1] + w[i]
    BY <2>2 DEF Adds
  <2>4. \A i \in 0 .. m : t[i] = IF i = 0 THEN 0 ELSE t[i - 1] + w[i]
    BY <1>5, <2>1, <2>3
  <2>5. t = [i \in 0 .. m |-> IF i = 0 THEN 0 ELSE t[i - 1] + w[i]]
    <3>1. t = [i \in 0 .. m |-> t[i]]
      OBVIOUS
    <3> HIDE DEF t
    <3> QED BY <2>4, <3>1
  <2>6. Adds(t, w, m)
    BY <2>5 DEF Adds
  <2> QED BY <2>6
<1> QED BY <1>3, <1>4, <1>5

\* A function on an interval that never goes down from one to the next does not
\* go down.
LEMMA Climbs ==
    ASSUME NEW a \in Int, NEW b \in Int, NEW f,
           \A i \in a .. b : f[i] \in Int,
           \A i \in (a + 1) .. b : f[i - 1] <= f[i]
    PROVE  \A i \in a .. b, j \in a .. b : i <= j => f[i] <= f[j]
<1> SUFFICES ASSUME NEW i \in a .. b PROVE \A j \in a .. b : i <= j => f[i] <= f[j]
  OBVIOUS
<1> DEFINE T == {m \in Nat : i + m \in a .. b /\ ~(f[i] <= f[i + m])}
<1>1. T = {}
  <2> SUFFICES ASSUME T # {} PROVE FALSE
    OBVIOUS
  <2>1. PICK m \in T : \A k \in T : m <= k
    BY LeastNumber
  <2> DEFINE j == i + m
  <2>2. m \in Nat /\ j \in a .. b /\ ~(f[i] <= f[j])
    BY <2>1
  <2>3. f[i] \in Int /\ f[i] <= f[i]
    <3>1. f[i] \in Int OBVIOUS
    <3> QED BY <3>1
  <2>4. m # 0
    BY <2>2, <2>3
  <2>5. m - 1 \in Nat /\ i + (m - 1) = j - 1 /\ j - 1 \in a .. b /\ j \in (a + 1) .. b
    BY <2>2, <2>4
  <2>6. m - 1 \notin T
    <3>1. ~(m <= m - 1) BY <2>2
    <3> QED BY <2>1, <3>1
  <2>7. f[i] <= f[j - 1]
    BY <2>5, <2>6
  <2>8. f[j - 1] <= f[j]
    BY <2>5
  <2>9. f[j] \in Int /\ f[j - 1] \in Int
    BY <2>2, <2>5
  <2> HIDE DEF j
  <2> QED BY <2>2, <2>3, <2>7, <2>8, <2>9
<1> SUFFICES ASSUME NEW j \in a .. b, i <= j PROVE f[i] <= f[j]
  OBVIOUS
<1>2. j - i \in Nat /\ i + (j - i) = j
  OBVIOUS
<1>3. j - i \notin T
  BY <1>1
<1> QED BY <1>2, <1>3

\* The sums of whole numbers are whole, start at 0 and grow by the weights.
LEMMA SumSteps ==
    ASSUME NEW n \in Nat, NEW w, \A i \in 1 .. n : w[i] \in Int, NEW s, Adds(s, w, n)
    PROVE  /\ s[0] = 0
           /\ \A i \in 0 .. n : s[i] \in Int
           /\ \A i \in 1 .. n : s[i] = s[i - 1] + w[i]
<1>1. \A i \in 0 .. n : s[i] = IF i = 0 THEN 0 ELSE s[i - 1] + w[i]
  BY DEF Adds
<1>2. s[0] = 0 /\ \A i \in 1 .. n : s[i] = s[i - 1] + w[i]
  BY <1>1
<1> DEFINE T == {m \in Nat : m <= n /\ s[m] \notin Int}
<1>3. T = {}
  <2> SUFFICES ASSUME T # {} PROVE FALSE
    OBVIOUS
  <2>1. PICK m \in T : \A k \in T : m <= k
    BY LeastNumber
  <2>2. m # 0
    BY <1>2, <2>1
  <2>3. m - 1 \in Nat /\ m - 1 \notin T /\ m \in 1 .. n
    BY <2>1, <2>2
  <2>4. s[m - 1] \in Int /\ w[m] \in Int
    BY <2>3
  <2> QED BY <1>2, <2>1, <2>3, <2>4
<1> QED BY <1>2, <1>3

=============================================================================
