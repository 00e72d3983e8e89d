--------------------------- MODULE IpReassProofs ---------------------------
(***************************************************************************)
(* What IP reassembly keeps for any structures, limits, datagrams and      *)
(* fragments, with ip_reass_tmr interrupted between any two of its steps.  *)
(***************************************************************************)
EXTENDS IpReass, Sums, FiniteSetTheorems

Links == [Struct -> Ptr]

----------------------------------------------------------------------------
(* Lists followed through pointers. *)

\* The n structures s are the list that begins at h.
Row(next, h, s, n) ==
    /\ n \in Nat /\ s \in [1 .. n -> Struct]
    /\ \A i, j \in 1 .. n : s[i] = s[j] => i = j
    /\ h = IF n = 0 THEN Null ELSE s[1]
    /\ \A i \in 1 .. n : next[s[i]] = IF i = n THEN Null ELSE s[i + 1]

LEMMA SizeOfStruct == N \in Nat \ {0}
BY SizeAssumption, FS_CardinalityType, FS_EmptySet DEF N

\* Structures that are all different are no more than there are.
LEMMA Pigeons ==
    ASSUME NEW n \in Nat, NEW s \in [1 .. n -> Struct],
           \A i, j \in 1 .. n : s[i] = s[j] => i = j
    PROVE  n <= N
<1>1. IsFiniteSet(1 .. n) /\ Cardinality(1 .. n) = n
  BY FS_Interval
<1>2. CASE N < n
  <2>1. \E i, j \in 1 .. n : i # j /\ s[i] = s[j]
    BY <1>1, <1>2, SizeAssumption, FS_PigeonHole DEF N
  <2> QED BY <2>1
<1> QED BY <1>2, SizeOfStruct

\* What the recursion of Chain meets.
Meets(at, next, h) ==
    at = [i \in 0 .. N |-> IF i = 0 THEN h ELSE IF at[i - 1] = Null THEN Null ELSE next[at[i - 1]]]

LEMMA MeetsExists ==
    ASSUME NEW next, NEW h
    PROVE  \E at : Meets(at, next, h)
<1> DEFINE G(n, at) == at = [i \in 0 .. n |-> IF i = 0 THEN h ELSE IF at[i - 1] = Null THEN Null ELSE next[at[i - 1]]]
           T == {n \in Nat : ~ \E at : G(n, at)}
<1>1. SUFFICES T = {}
  <2> HIDE DEF G
  <2>1. T = {} => \E at : G(N, at) BY SizeOfStruct
  <2> QED BY <2>1 DEF G, Meets
<1>2. SUFFICES ASSUME T # {} PROVE FALSE
  OBVIOUS
<1>3. PICK m \in T : \A y \in T : m <= y
  <2> HIDE DEF G
  <2> QED BY <1>2, LeastNumber
<1>4. CASE m = 0
  <2>1. G(0, [i \in 0 .. 0 |-> h]) OBVIOUS
  <2> QED BY <1>3, <1>4, <2>1
<1>5. CASE m > 0
  <2>1. m - 1 \in Nat /\ m - 1 \notin T BY <1>3, <1>5
  <2>2. PICK a : G(m - 1, a) BY <2>1
  <2> DEFINE b == [i \in 0 .. m |-> IF i = m THEN IF a[m - 1] = Null THEN Null ELSE next[a[m - 1]] ELSE a[i]]
  <2>3. m \in Nat BY <1>3
  <2>4. \A i \in 0 .. (m - 1) : b[i] = a[i] BY <2>3
  <2>5. \A i \in 0 .. m : b[i] = IF i = 0 THEN h ELSE IF b[i - 1] = Null THEN Null ELSE next[b[i - 1]]
    <3> SUFFICES ASSUME NEW i \in 0 .. m
                 PROVE  b[i] = IF i = 0 THEN h ELSE IF b[i - 1] = Null THEN Null ELSE next[b[i - 1]]
      OBVIOUS
    <3>1. CASE i = m
      <4>1. b[i - 1] = a[m - 1] BY <1>5, <2>3, <2>4, <3>1
      <4> QED BY <1>5, <2>3, <3>1, <4>1
    <3>2. CASE i # m
      <4>1. i \in 0 .. (m - 1) BY <2>3, <3>2
      <4>2. a[i] = IF i = 0 THEN h ELSE IF a[i - 1] = Null THEN Null ELSE next[a[i - 1]] BY <2>2, <4>1
      <4>3. i # 0 => i - 1 \in 0 .. (m - 1) BY <2>3, <4>1
      <4> HIDE DEF b, G
      <4> QED BY <2>4, <4>1, <4>2, <4>3
    <3> QED BY <3>1, <3>2
  <2>6. b = [i \in 0 .. m |-> b[i]] OBVIOUS
  <2>7. G(m, b)
    <3> HIDE DEF b
    <3> QED BY <2>5, <2>6
  <2> QED BY <1>3, <2>7
<1> QED BY <1>3, <1>4, <1>5
\* What Chain is: the pointers met, up to Null.
LEMMA ChainSteps ==
    ASSUME NEW next \in Links, NEW h \in Ptr
    PROVE  \E n \in 0 .. N + 1 :
             /\ Chain(next, h) \in [1 .. n -> Struct]
             /\ h = IF n = 0 THEN Null ELSE Chain(next, h)[1]
             /\ \A i \in 1 .. n : i # n => next[Chain(next, h)[i]] = Chain(next, h)[i + 1]
             /\ n # 0 /\ n <= N => next[Chain(next, h)[n]] = Null
<1> DEFINE at == CHOOSE a : Meets(a, next, h)
           Stops(k) == k = N + 1 \/ at[k] = Null
           Is(k) == Stops(k) /\ \A j \in 0 .. k - 1 : at[j] # Null
           n == CHOOSE k \in 0 .. N + 1 : Is(k)
           c == [i \in 1 .. n |-> at[i - 1]]
<1>0. N \in Nat \ {0} BY SizeOfStruct
<1>1. at = [i \in 0 .. N |-> IF i = 0 THEN h ELSE IF at[i - 1] = Null THEN Null ELSE next[at[i - 1]]]
  <2>1. Meets(at, next, h) BY MeetsExists
  <2> HIDE DEF at
  <2> QED BY <2>1 DEF Meets
<1>2. Chain(next, h) = c
  BY DEF Chain, Meets
<1> HIDE DEF at
<1>3. at[0] = h /\ \A i \in 0 .. N : i # 0 => at[i] = IF at[i - 1] = Null THEN Null ELSE next[at[i - 1]]
  BY <1>0, <1>1
<1>4. n \in 0 .. N + 1 /\ Is(n)
  <2> DEFINE K == {k \in 0 .. N + 1 : Stops(k)}
  <2>1. N + 1 \in K /\ K \subseteq Nat BY <1>0
  <2>2. PICK k \in K : \A j \in K : k <= j
    <3> HIDE DEF K
    <3> QED BY <2>1, LeastNumber
  <2>3. \A j \in 0 .. k - 1 : at[j] # Null
    <3> SUFFICES ASSUME NEW j \in 0 .. k - 1, at[j] = Null PROVE FALSE
      OBVIOUS
    <3>1. j \in K /\ j < k BY <1>0, <2>1, <2>2
    <3> HIDE DEF K
    <3> QED BY <2>1, <2>2, <3>1
  <2>4. k \in 0 .. N + 1 /\ Is(k) BY <2>2, <2>3
  <2> QED BY <2>4
<1> HIDE DEF n
<1>5. \A i \in 0 .. n - 1 : at[i] \in Struct
  <2> DEFINE T == {i \in 0 .. n - 1 : at[i] \notin Struct}
  <2>1. SUFFICES ASSUME T # {} PROVE FALSE OBVIOUS
  <2>2. T \subseteq Nat BY <1>0, <1>4
  <2>3. PICK m \in T : \A y \in T : m <= y
    <3> HIDE DEF T
    <3> QED BY <2>1, <2>2, LeastNumber
  <2>4. m \in 0 .. N /\ at[m] # Null /\ at[m] \notin Struct BY <1>0, <1>4, <2>3
  <2>5. CASE m = 0 BY <1>3, <2>4, <2>5 DEF Ptr
  <2>6. CASE m # 0
    <3>1. m - 1 \in 0 .. n - 1 /\ m - 1 \notin T BY <1>0, <1>4, <2>3, <2>6
    <3>2. at[m - 1] \in Struct /\ at[m - 1] # Null BY <1>4, <3>1
    <3>3. at[m] = next[at[m - 1]] BY <1>3, <2>4, <2>6, <3>2
    <3> QED BY <2>4, <3>2, <3>3 DEF Links, Ptr
  <2> QED BY <2>5, <2>6
<1>6. c \in [1 .. n -> Struct]
  <2>1. \A i \in 1 .. n : i - 1 \in 0 .. n - 1 BY <1>0, <1>4
  <2> QED BY <1>5, <2>1
<1>7. \A i \in 1 .. n : c[i] = at[i - 1] OBVIOUS
<1> HIDE DEF c
<1>8. h = IF n = 0 THEN Null ELSE c[1]
  <2>1. CASE n = 0 BY <1>0, <1>3, <1>4, <2>1
  <2>2. CASE n # 0
    <3>1. 1 \in 1 .. n BY <1>0, <1>4, <2>2
    <3> QED BY <1>3, <1>7, <2>2, <3>1
  <2> QED BY <2>1, <2>2
<1>9. \A i \in 1 .. n : i # n => next[c[i]] = c[i + 1]
  <2> SUFFICES ASSUME NEW i \in 1 .. n, i # n PROVE next[c[i]] = c[i + 1]
    OBVIOUS
  <2>1. i \in 0 .. N /\ i # 0 /\ i + 1 \in 1 .. n /\ i - 1 \in 0 .. n - 1 /\ i + 1 - 1 = i BY <1>0, <1>4
  <2>2. at[i - 1] # Null BY <1>4, <2>1
  <2>3. at[i] = next[at[i - 1]] BY <1>3, <2>1, <2>2
  <2> QED BY <1>7, <2>1, <2>3
<1>10. n # 0 /\ n <= N => next[c[n]] = Null
  <2> SUFFICES ASSUME n # 0, n <= N PROVE next[c[n]] = Null
    OBVIOUS
  <2>1. n \in 1 .. n /\ n \in 0 .. N /\ n - 1 \in 0 .. n - 1 /\ n # N + 1 BY <1>0, <1>4
  <2>2. at[n - 1] # Null /\ at[n] = Null BY <1>4, <2>1
  <2>3. at[n] = next[at[n - 1]] BY <1>3, <2>1, <2>2
  <2> QED BY <1>7, <2>1, <2>2, <2>3
<1> QED BY <1>2, <1>4, <1>6, <1>8, <1>9, <1>10

\* A chain whose structures are all different is a list.
LEMMA ChainIsRow ==
    ASSUME NEW next \in Links, NEW h \in Ptr, NEW n \in Nat, Chain(next, h) \in [1 .. n -> Struct],
           \A i, j \in 1 .. n : Chain(next, h)[i] = Chain(next, h)[j] => i = j
    PROVE  Row(next, h, Chain(next, h), n)
<1> DEFINE c == Chain(next, h)
<1>1. PICK k \in 0 .. N + 1 :
             /\ c \in [1 .. k -> Struct]
             /\ h = IF k = 0 THEN Null ELSE c[1]
             /\ \A i \in 1 .. k : i # k => next[c[i]] = c[i + 1]
             /\ k # 0 /\ k <= N => next[c[k]] = Null
  BY ChainSteps
<1>2. c \in [1 .. n -> Struct] /\ \A i, j \in 1 .. n : c[i] = c[j] => i = j OBVIOUS
<1> HIDE DEF c
<1>3. k = n
  <2>1. k \in Nat BY SizeOfStruct
  <2>2. 1 .. k = 1 .. n BY <1>1, <1>2
  <2>3. k \in 1 .. k => k \in 1 .. n BY <2>2
  <2>4. n \in 1 .. n => n \in 1 .. k BY <2>2
  <2> QED BY <2>1, <2>3, <2>4
<1>4. n <= N BY <1>2, Pigeons
<1>5. Row(next, h, c, n) BY <1>1, <1>2, <1>3, <1>4 DEF Row
<1> QED BY <1>5 DEF c

\* Chain follows a list to its end.
LEMMA RowIsChain ==
    ASSUME NEW next \in Links, NEW h, NEW s, NEW n, Row(next, h, s, n)
    PROVE  Chain(next, h) = s /\ n <= N
<1> DEFINE c == Chain(next, h)
<1>1. /\ n \in Nat /\ s \in [1 .. n -> Struct]
      /\ h = IF n = 0 THEN Null ELSE s[1]
      /\ \A i \in 1 .. n : next[s[i]] = IF i = n THEN Null ELSE s[i + 1]
  BY DEF Row
<1>2. n <= N BY Pigeons DEF Row
<1>3. h \in Ptr BY <1>1 DEF Ptr
<1>4. PICK k \in 0 .. N + 1 :
             /\ c \in [1 .. k -> Struct]
             /\ h = IF k = 0 THEN Null ELSE c[1]
             /\ \A i \in 1 .. k : i # k => next[c[i]] = c[i + 1]
             /\ k # 0 /\ k <= N => next[c[k]] = Null
  BY <1>3, ChainSteps
<1> HIDE DEF c
<1>5. k \in Nat /\ N \in Nat /\ Null \notin Struct BY SizeOfStruct, SizeAssumption
<1>6. \A i \in 1 .. n : i <= k => c[i] = s[i]
  <2> DEFINE T == {i \in 1 .. n : i <= k /\ c[i] # s[i]}
  <2>1. SUFFICES ASSUME T # {} PROVE FALSE OBVIOUS
  <2>2. T \subseteq Nat BY <1>1
  <2>3. PICK m \in T : \A y \in T : m <= y
    <3> HIDE DEF T
    <3> QED BY <2>1, <2>2, LeastNumber
  <2>4. m \in 1 .. n /\ m \in 1 .. k /\ c[m] # s[m] BY <1>1, <1>5, <2>3
  <2>5. CASE m = 1 BY <1>1, <1>4, <1>5, <2>4, <2>5
  <2>6. CASE m # 1
    <3>1. m - 1 \in 1 .. n /\ m - 1 \in 1 .. k /\ m - 1 # n /\ m - 1 # k /\ m - 1 + 1 = m BY <1>1, <1>5, <2>4, <2>6
    <3>2. m - 1 \notin T BY <1>1, <1>5, <2>3, <3>1
    <3>3. c[m - 1] = s[m - 1] BY <1>5, <3>1, <3>2
    <3> QED BY <1>1, <1>4, <2>4, <3>1, <3>3
  <2> QED BY <2>5, <2>6
<1>7. k = n
  <2>1. CASE n = 0
    <3>1. k # 0 => 1 \in 1 .. k BY <1>5
    <3> QED BY <1>1, <1>4, <1>5, <2>1, <3>1
  <2>2. CASE n # 0 /\ k < n
    <3>1. k = 0 \/ (k \in 1 .. k /\ k \in 1 .. n /\ k # n /\ k + 1 \in 1 .. n /\ 1 \in 1 .. n /\ k <= N) BY <1>1, <1>2, <1>5, <2>2
    <3>2. CASE k = 0 BY <1>1, <1>4, <1>5, <2>2, <3>2
    <3>3. CASE k # 0
      <4>1. c[k] = s[k] BY <1>5, <1>6, <3>1, <3>3
      <4>2. next[s[k]] = s[k + 1] /\ s[k + 1] \in Struct BY <1>1, <3>1, <3>3
      <4> QED BY <1>4, <1>5, <3>1, <3>3, <4>1, <4>2
    <3> QED BY <3>2, <3>3
  <2>3. CASE n # 0 /\ n < k
    <3>1. n \in 1 .. k /\ n \in 1 .. n /\ n # k /\ n + 1 \in 1 .. k BY <1>1, <1>5, <2>3
    <3>2. c[n] = s[n] /\ c[n + 1] \in Struct BY <1>4, <1>5, <1>6, <2>3, <3>1
    <3>3. next[c[n]] = c[n + 1] BY <1>4, <3>1
    <3> QED BY <1>1, <1>5, <3>1, <3>2, <3>3
  <2> QED BY <1>1, <1>5, <2>1, <2>2, <2>3
<1>8. c = s
  <2>1. \A i \in 1 .. n : c[i] = s[i] BY <1>1, <1>6, <1>7
  <2> QED BY <1>1, <1>4, <1>7, <2>1
<1> QED BY <1>2, <1>8 DEF c

\* A chain does not leave a set that its pointers do not leave.
LEMMA ChainStays ==
    ASSUME NEW next \in Links, NEW A, A \subseteq Struct, NEW h \in A \cup {Null},
           \A x \in A : next[x] \in A \cup {Null}
    PROVE  ToSet(Chain(next, h)) \subseteq A
<1> DEFINE c == Chain(next, h)
<1>0. h \in Ptr BY DEF Ptr
<1>1. PICK n \in 0 .. N + 1 :
             /\ c \in [1 .. n -> Struct]
             /\ h = IF n = 0 THEN Null ELSE c[1]
             /\ \A i \in 1 .. n : i # n => next[c[i]] = c[i + 1]
             /\ n # 0 /\ n <= N => next[c[n]] = Null
  BY <1>0, ChainSteps
<1> HIDE DEF c
<1>2. n \in Nat /\ Null \notin Struct BY SizeOfStruct, SizeAssumption
<1>3. \A i \in 1 .. n : c[i] \in A
  <2> DEFINE T == {i \in 1 .. n : c[i] \notin A}
  <2>1. SUFFICES ASSUME T # {} PROVE FALSE OBVIOUS
  <2>2. T \subseteq Nat BY <1>2
  <2>3. PICK m \in T : \A y \in T : m <= y
    <3> HIDE DEF T
    <3> QED BY <2>1, <2>2, LeastNumber
  <2>4. m \in 1 .. n /\ c[m] \in Struct /\ c[m] \notin A BY <1>1, <2>3
  <2>5. CASE m = 1 BY <1>1, <1>2, <2>4, <2>5
  <2>6. CASE m # 1
    <3>1. m - 1 \in 1 .. n /\ m - 1 # n /\ m - 1 + 1 = m BY <1>2, <2>4, <2>6
    <3>2. m - 1 \notin T BY <1>2, <2>3, <3>1
    <3>3. c[m - 1] \in A BY <3>1, <3>2
    <3> QED BY <1>1, <1>2, <2>4, <3>1, <3>3
  <2> QED BY <2>5, <2>6
<1>4. ToSet(c) \subseteq A
  <2>1. DOMAIN c = 1 .. n BY <1>1
  <2> QED BY <1>3, <2>1 DEF ToSet
<1> QED BY <1>4 DEF c
----------------------------------------------------------------------------
(* The two lists. *)

Datum == [d : Datagrams \cup {NoDatagram}, p : Seq(Frags), last : BOOLEAN, timer : 0 .. MaxAge]
Book  == [head : Ptr, pool : Ptr, count : Int, next : Links, data : [Struct -> Datum]]

\* The structure the main loop is giving back.
Gone == IF pc \in {"link", "put"} THEN {tmp} ELSE {}

\* The n structures l in use, the m structures q in the pool, and X are all.
Lists(S, l, n, q, m, X) ==
    /\ Row(S.next, S.head, l, n)
    /\ Row(S.next, S.pool, q, m)
    /\ \A i \in 1 .. n, j \in 1 .. m : l[i] # q[j]
    /\ \A e \in Struct : e \in X <=> (\A i \in 1 .. n : l[i] # e) /\ (\A j \in 1 .. m : q[j] # e)

SoundBut(S, X) ==
    LET all == List(S) \o Pool(S)
    IN  IsInjective(all) /\ ToSet(all) = Struct \ X

LEMMA SoundIs == Sound(reass) <=> SoundBut(reass, Gone)
BY DEF Sound, SoundBut, Gone

\* One list behind another one.
LEMMA Joined ==
    ASSUME NEW n \in Nat, NEW m \in Nat, NEW l \in [1 .. n -> Struct], NEW q \in [1 .. m -> Struct]
    PROVE  /\ l \in Seq(Struct) /\ q \in Seq(Struct) /\ Len(l) = n /\ Len(q) = m
           /\ l \o q \in [1 .. n + m -> Struct]
           /\ \A i \in 1 .. n : (l \o q)[i] = l[i]
           /\ \A j \in 1 .. m : (l \o q)[n + j] = q[j]
           /\ \A i \in 1 .. n + m : (i \in 1 .. n) \/ (i - n \in 1 .. m /\ n + (i - n) = i)
<1>1. /\ l \in Seq(Struct) /\ q \in Seq(Struct) /\ Len(l) = n /\ Len(q) = m
  OBVIOUS
<1>2. l \o q \in Seq(Struct) /\ Len(l \o q) = n + m
  BY <1>1
<1>3. /\ \A i \in 1 .. n : (l \o q)[i] = l[i]
      /\ \A j \in 1 .. m : (l \o q)[n + j] = q[j]
  BY <1>1
<1>4. l \o q \in [1 .. n + m -> Struct]
  <2>1. \A s \in Seq(Struct) : s \in [1 .. Len(s) -> Struct] OBVIOUS
  <2> QED BY <1>2, <2>1
<1>5. \A i \in 1 .. n + m : (i \in 1 .. n) \/ (i - n \in 1 .. m /\ n + (i - n) = i)
  OBVIOUS
<1> QED BY <1>1, <1>3, <1>4, <1>5

LEMMA SoundLists ==
    ASSUME NEW S \in Book, NEW X, X \subseteq Struct, SoundBut(S, X)
    PROVE  \E n, m \in 0 .. N :
             /\ Lists(S, List(S), n, Pool(S), m, X)
             /\ Len(List(S)) = n /\ List(S) \in Seq(Struct)
             /\ Len(Pool(S)) = m /\ Pool(S) \in Seq(Struct)
<1>1. S.next \in Links /\ S.head \in Ptr /\ S.pool \in Ptr
  BY DEF Book
<1> DEFINE l == Chain(S.next, S.head)
           q == Chain(S.next, S.pool)
<1>2. l = List(S) /\ q = Pool(S)
  BY DEF List, Pool
<1>3. PICK n \in 0 .. N + 1 : l \in [1 .. n -> Struct]
  BY <1>1, ChainSteps
<1>4. PICK m \in 0 .. N + 1 : q \in [1 .. m -> Struct]
  BY <1>1, ChainSteps
<1>5. n \in Nat /\ m \in Nat /\ N \in Nat
  BY SizeOfStruct
<1>6. IsInjective(l \o q) /\ ToSet(l \o q) = Struct \ X
  BY <1>2 DEF SoundBut
<1> HIDE DEF l, q
<1>7. /\ l \in Seq(Struct) /\ q \in Seq(Struct) /\ Len(l) = n /\ Len(q) = m
      /\ l \o q \in [1 .. n + m -> Struct]
      /\ \A i \in 1 .. n : (l \o q)[i] = l[i]
      /\ \A j \in 1 .. m : (l \o q)[n + j] = q[j]
      /\ \A i \in 1 .. n + m : (i \in 1 .. n) \/ (i - n \in 1 .. m /\ n + (i - n) = i)
  BY <1>3, <1>4, <1>5, Joined
<1> DEFINE a == l \o q
<1>8. DOMAIN a = 1 .. n + m
  BY <1>7
<1>9. \A i, j \in 1 .. n + m : a[i] = a[j] => i = j
  BY <1>6, <1>8 DEF IsInjective
<1>10. {a[i] : i \in 1 .. n + m} = Struct \ X
  BY <1>6, <1>8 DEF ToSet
<1> HIDE DEF a
<1>11. \A i, j \in 1 .. n : l[i] = l[j] => i = j
  <2>1. \A i \in 1 .. n : i \in 1 .. n + m BY <1>5
  <2> QED BY <1>7, <1>9, <2>1 DEF a
<1>12. \A i, j \in 1 .. m : q[i] = q[j] => i = j
  <2> SUFFICES ASSUME NEW i \in 1 .. m, NEW j \in 1 .. m, q[i] = q[j] PROVE i = j
    OBVIOUS
  <2>1. n + i \in 1 .. n + m /\ n + j \in 1 .. n + m BY <1>5
  <2>2. n + i = n + j BY <1>7, <1>9, <2>1 DEF a
  <2> QED BY <1>5, <2>2
<1>13. \A i \in 1 .. n, j \in 1 .. m : l[i] # q[j]
  <2> SUFFICES ASSUME NEW i \in 1 .. n, NEW j \in 1 .. m, l[i] = q[j] PROVE FALSE
    OBVIOUS
  <2>1. i \in 1 .. n + m /\ n + j \in 1 .. n + m /\ i # n + j BY <1>5
  <2> QED BY <1>7, <1>9, <2>1 DEF a
<1>14. \A e \in Struct : e \in X <=> (\A i \in 1 .. n : l[i] # e) /\ (\A j \in 1 .. m : q[j] # e)
  <2>1. \A i \in 1 .. n : l[i] \in Struct \ X
    <3>1. \A i \in 1 .. n : i \in 1 .. n + m BY <1>5
    <3> QED BY <1>7, <1>10, <3>1 DEF a
  <2>2. \A j \in 1 .. m : q[j] \in Struct \ X
    <3>1. \A j \in 1 .. m : n + j \in 1 .. n + m BY <1>5
    <3> QED BY <1>7, <1>10, <3>1 DEF a
  <2>3. ASSUME NEW e \in Struct, e \notin X
        PROVE  (\E i \in 1 .. n : l[i] = e) \/ (\E j \in 1 .. m : q[j] = e)
    <3>1. PICK i \in 1 .. n + m : a[i] = e BY <1>10, <2>3
    <3>2. CASE i \in 1 .. n BY <1>7, <3>1, <3>2 DEF a
    <3>3. CASE i - n \in 1 .. m /\ n + (i - n) = i
      <4>1. a[n + (i - n)] = q[i - n] BY <1>7, <3>3 DEF a
      <4> QED BY <3>1, <3>3, <4>1
    <3> QED BY <1>7, <3>2, <3>3
  <2> QED BY <2>1, <2>2, <2>3
<1>15. Row(S.next, S.head, l, n)
  BY <1>1, <1>3, <1>5, <1>11, ChainIsRow DEF l
<1>16. Row(S.next, S.pool, q, m)
  BY <1>1, <1>4, <1>5, <1>12, ChainIsRow DEF q
<1>17. n \in 0 .. N /\ m \in 0 .. N
  BY <1>3, <1>4, <1>5, <1>11, <1>12, Pigeons
<1>18. Lists(S, l, n, q, m, X)
  BY <1>13, <1>14, <1>15, <1>16 DEF Lists
<1> QED BY <1>2, <1>7, <1>17, <1>18

LEMMA ListsSound ==
    ASSUME NEW S \in Book, NEW X, X \subseteq Struct, NEW l, NEW n, NEW q, NEW m, Lists(S, l, n, q, m, X)
    PROVE  /\ SoundBut(S, X)
           /\ List(S) = l /\ Pool(S) = q
           /\ Len(List(S)) = n /\ List(S) \in Seq(Struct)
           /\ Listed(S) = {l[i] : i \in 1 .. n}
<1>1. S.next \in Links /\ S.head \in Ptr /\ S.pool \in Ptr
  BY DEF Book
<1>2. /\ n \in Nat /\ l \in [1 .. n -> Struct] /\ \A i, j \in 1 .. n : l[i] = l[j] => i = j
      /\ m \in Nat /\ q \in [1 .. m -> Struct] /\ \A i, j \in 1 .. m : q[i] = q[j] => i = j
      /\ \A i \in 1 .. n, j \in 1 .. m : l[i] # q[j]
      /\ \A e \in Struct : e \in X <=> (\A i \in 1 .. n : l[i] # e) /\ (\A j \in 1 .. m : q[j] # e)
  BY DEF Lists, Row
<1>3. List(S) = l /\ Pool(S) = q
  BY <1>1, RowIsChain DEF Lists, List, Pool
<1>4. /\ l \in Seq(Struct) /\ q \in Seq(Struct) /\ Len(l) = n /\ Len(q) = m
      /\ l \o q \in [1 .. n + m -> Struct]
      /\ \A i \in 1 .. n : (l \o q)[i] = l[i]
      /\ \A j \in 1 .. m : (l \o q)[n + j] = q[j]
      /\ \A i \in 1 .. n + m : (i \in 1 .. n) \/ (i - n \in 1 .. m /\ n + (i - n) = i)
  BY <1>2, Joined
<1> DEFINE a == l \o q
<1>5. DOMAIN a = 1 .. n + m
  BY <1>4
<1> HIDE DEF a
<1>6. ASSUME NEW i \in 1 .. n + m, NEW j \in 1 .. n + m, a[i] = a[j]
      PROVE  i = j
  <2>1. CASE i \in 1 .. n /\ j \in 1 .. n BY <1>2, <1>4, <1>6, <2>1 DEF a
  <2>2. ASSUME NEW k \in 1 .. n + m, k \notin 1 .. n PROVE k - n \in 1 .. m /\ a[k] = q[k - n] /\ n + (k - n) = k
    <3>1. k - n \in 1 .. m /\ n + (k - n) = k BY <1>4, <2>2
    <3>2. a[n + (k - n)] = q[k - n] BY <1>4, <3>1 DEF a
    <3> QED BY <3>1, <3>2
  <2>3. CASE i \in 1 .. n /\ j \notin 1 .. n BY <1>2, <1>4, <1>6, <2>2, <2>3 DEF a
  <2>4. CASE i \notin 1 .. n /\ j \in 1 .. n BY <1>2, <1>4, <1>6, <2>2, <2>4 DEF a
  <2>5. CASE i \notin 1 .. n /\ j \notin 1 .. n
    <3>1. i - n = j - n BY <1>2, <1>6, <2>2, <2>5
    <3> QED BY <2>2, <2>5, <3>1
  <2> QED BY <2>1, <2>3, <2>4, <2>5
<1>7. IsInjective(a)
  BY <1>5, <1>6 DEF IsInjective
<1>8. ToSet(a) = Struct \ X
  <2>1. ToSet(a) = {a[i] : i \in 1 .. n + m} BY <1>5 DEF ToSet
  <2>2. ASSUME NEW i \in 1 .. n + m PROVE a[i] \in Struct \ X
    <3>1. CASE i \in 1 .. n
      <4>1. a[i] = l[i] /\ l[i] \in Struct BY <1>2, <1>4, <3>1 DEF a
      <4> QED BY <1>2, <3>1, <4>1
    <3>2. CASE i - n \in 1 .. m /\ n + (i - n) = i
      <4>1. a[n + (i - n)] = q[i - n] /\ q[i - n] \in Struct BY <1>2, <1>4, <3>2 DEF a
      <4>2. a[i] = q[i - n] BY <3>2, <4>1
      <4> QED BY <1>2, <3>2, <4>1, <4>2
    <3> QED BY <1>4, <3>1, <3>2
  <2>3. ASSUME NEW e \in Struct \ X PROVE \E i \in 1 .. n + m : a[i] = e
    <3>1. (\E i \in 1 .. n : l[i] = e) \/ (\E j \in 1 .. m : q[j] = e) BY <1>2, <2>3
    <3>2. \A i \in 1 .. n : i \in 1 .. n + m BY <1>2
    <3>3. \A j \in 1 .. m : n + j \in 1 .. n + m BY <1>2
    <3> QED BY <1>4, <3>1, <3>2, <3>3 DEF a
  <2> QED BY <2>1, <2>2, <2>3
<1>9. SoundBut(S, X)
  BY <1>3, <1>7, <1>8 DEF SoundBut, a
<1>10. Listed(S) = {l[i] : i \in 1 .. n}
  <2>1. DOMAIN l = 1 .. n BY <1>2
  <2> QED BY <1>3, <2>1 DEF Listed, ToSet
<1> QED BY <1>3, <1>4, <1>9, <1>10
----------------------------------------------------------------------------
(* What the operations do to the lists. *)

Drop(s, n, k) == [j \in 1 .. n - 1 |-> IF j < k THEN s[j] ELSE s[j + 1]]
Push(e, s, n) == [j \in 1 .. n + 1 |-> IF j = 1 THEN e ELSE s[j - 1]]

\* Elsewhere than in the list pointers may change.
LEMMA RowKept ==
    ASSUME NEW next, NEW h, NEW s, NEW n, Row(next, h, s, n),
           NEW next2, \A i \in 1 .. n : next2[s[i]] = next[s[i]]
    PROVE  Row(next2, h, s, n)
BY DEF Row

LEMMA RowPush ==
    ASSUME NEW next \in Links, NEW h, NEW s, NEW n, Row(next, h, s, n),
           NEW e \in Struct, \A i \in 1 .. n : s[i] # e
    PROVE  Row([next EXCEPT ![e] = h], e, Push(e, s, n), n + 1)
<1> DEFINE next2 == [next EXCEPT ![e] = h]
           t == Push(e, s, n)
<1>1. /\ n \in Nat /\ s \in [1 .. n -> Struct]
      /\ \A i, j \in 1 .. n : s[i] = s[j] => i = j
      /\ h = IF n = 0 THEN Null ELSE s[1]
      /\ \A i \in 1 .. n : next[s[i]] = IF i = n THEN Null ELSE s[i + 1]
  BY DEF Row
<1>2. \A i \in 1 .. n + 1 : i # 1 => i - 1 \in 1 .. n
  BY <1>1
<1>3. t \in [1 .. n + 1 -> Struct]
  BY <1>1, <1>2 DEF Push
<1>4. t[1] = e /\ \A i \in 1 .. n + 1 : i # 1 => t[i] = s[i - 1]
  BY <1>1 DEF Push
<1>5. next2[e] = h /\ \A x \in Struct : x # e => next2[x] = next[x]
  BY DEF Links
<1> HIDE DEF next2, t
<1>6. \A i, j \in 1 .. n + 1 : t[i] = t[j] => i = j
  <2> SUFFICES ASSUME NEW i \in 1 .. n + 1, NEW j \in 1 .. n + 1, t[i] = t[j] PROVE i = j
    OBVIOUS
  <2>1. CASE i = 1 BY <1>2, <1>4, <2>1
  <2>2. CASE j = 1 BY <1>2, <1>4, <2>2
  <2>3. CASE i # 1 /\ j # 1
    <3>1. i - 1 = j - 1 BY <1>1, <1>2, <1>4, <2>3
    <3> QED BY <1>1, <3>1
  <2> QED BY <2>1, <2>2, <2>3
<1>7. \A i \in 1 .. n + 1 : next2[t[i]] = IF i = n + 1 THEN Null ELSE t[i + 1]
  <2> SUFFICES ASSUME NEW i \in 1 .. n + 1 PROVE next2[t[i]] = IF i = n + 1 THEN Null ELSE t[i + 1]
    OBVIOUS
  <2>1. CASE i = 1
    <3>1. n # 0 => 2 \in 1 .. n + 1 /\ t[2] = s[1] BY <1>1, <1>4
    <3> QED BY <1>1, <1>4, <1>5, <2>1, <3>1
  <2>2. CASE i # 1
    <3>1. i - 1 \in 1 .. n /\ (i - 1 = n <=> i = n + 1) /\ i - 1 + 1 = i BY <1>1, <1>2, <2>2
    <3>2. next2[t[i]] = next[s[i - 1]] BY <1>1, <1>4, <1>5, <2>2, <3>1
    <3>3. i # n + 1 => i + 1 \in 1 .. n + 1 /\ i + 1 # 1 /\ i + 1 - 1 = i BY <1>1
    <3> QED BY <1>1, <1>4, <3>1, <3>2, <3>3
  <2> QED BY <2>1, <2>2
<1>8. n + 1 \in Nat /\ n + 1 # 0
  BY <1>1
<1>9. Row(next2, e, t, n + 1)
  BY <1>3, <1>4, <1>6, <1>7, <1>8 DEF Row
<1> QED BY <1>9 DEF next2, t

\* What follows the first of a list is a list.
LEMMA RowRest ==
    ASSUME NEW next, NEW h, NEW s, NEW n, Row(next, h, s, n), n # 0
    PROVE  Row(next, next[h], Drop(s, n, 1), n - 1)
<1> DEFINE t == Drop(s, n, 1)
<1>1. /\ n \in Nat /\ s \in [1 .. n -> Struct]
      /\ \A i, j \in 1 .. n : s[i] = s[j] => i = j
      /\ h = s[1]
      /\ \A i \in 1 .. n : next[s[i]] = IF i = n THEN Null ELSE s[i + 1]
  BY DEF Row
<1>2. \A i \in 1 .. n - 1 : i + 1 \in 1 .. n /\ t[i] = s[i + 1]
  BY <1>1 DEF Drop
<1>3. t \in [1 .. n - 1 -> Struct]
  BY <1>1, <1>2 DEF Drop
<1> HIDE DEF t
<1>4. \A i, j \in 1 .. n - 1 : t[i] = t[j] => i = j
  <2> SUFFICES ASSUME NEW i \in 1 .. n - 1, NEW j \in 1 .. n - 1, t[i] = t[j] PROVE i = j
    OBVIOUS
  <2>1. i + 1 = j + 1 BY <1>1, <1>2
  <2> QED BY <1>1, <2>1
<1>5. n - 1 \in Nat /\ next[h] = IF n - 1 = 0 THEN Null ELSE t[1]
  <2>1. 1 \in 1 .. n /\ (n = 1 <=> n - 1 = 0) /\ (n # 1 => 1 \in 1 .. n - 1) BY <1>1
  <2> QED BY <1>1, <1>2, <2>1
<1>6. \A i \in 1 .. n - 1 : next[t[i]] = IF i = n - 1 THEN Null ELSE t[i + 1]
  <2> SUFFICES ASSUME NEW i \in 1 .. n - 1 PROVE next[t[i]] = IF i = n - 1 THEN Null ELSE t[i + 1]
    OBVIOUS
  <2>1. i + 1 \in 1 .. n /\ (i + 1 = n <=> i = n - 1) /\ (i # n - 1 => i + 1 \in 1 .. n - 1) BY <1>1
  <2> QED BY <1>1, <1>2, <2>1
<1>7. Row(next, next[h], t, n - 1)
  BY <1>3, <1>4, <1>5, <1>6 DEF Row
<1> QED BY <1>7 DEF t

\* A structure behind another one leaves the list.
LEMMA RowDrop ==
    ASSUME NEW next \in Links, NEW h, NEW s, NEW n, Row(next, h, s, n), NEW k \in 1 .. n, k # 1
    PROVE  Row([next EXCEPT ![s[k - 1]] = next[s[k]]], h, Drop(s, n, k), n - 1)
<1> DEFINE t == Drop(s, n, k)
           next2 == [next EXCEPT ![s[k - 1]] = next[s[k]]]
<1>1. /\ n \in Nat /\ s \in [1 .. n -> Struct]
      /\ \A i, j \in 1 .. n : s[i] = s[j] => i = j
      /\ h = IF n = 0 THEN Null ELSE s[1]
      /\ \A i \in 1 .. n : next[s[i]] = IF i = n THEN Null ELSE s[i + 1]
  BY DEF Row
<1>2. k \in Nat /\ k - 1 \in 1 .. n /\ k - 1 \in 1 .. n - 1 /\ 1 \in 1 .. n - 1 /\ 1 < k /\ n # 0 /\ n - 1 # 0
  BY <1>1
<1>3. \A i \in 1 .. n - 1 : /\ i \in 1 .. n /\ i + 1 \in 1 .. n
                            /\ (i < k => t[i] = s[i]) /\ (~(i < k) => t[i] = s[i + 1])
  BY <1>1 DEF Drop
<1>4. t \in [1 .. n - 1 -> Struct]
  BY <1>1, <1>3 DEF Drop
<1>5. /\ next2[s[k - 1]] = next[s[k]]
      /\ \A i \in 1 .. n : i # k - 1 => next2[s[i]] = next[s[i]]
  BY <1>1, <1>2 DEF Links
<1> HIDE DEF t, next2
<1>6. \A i, j \in 1 .. n - 1 : t[i] = t[j] => i = j
  <2> SUFFICES ASSUME NEW i \in 1 .. n - 1, NEW j \in 1 .. n - 1, t[i] = t[j] PROVE i = j
    OBVIOUS
  <2>1. CASE i < k /\ j < k BY <1>1, <1>3, <2>1
  <2>2. CASE ~(i < k) /\ ~(j < k)
    <3>1. i + 1 = j + 1 BY <1>1, <1>3, <2>2
    <3> QED BY <1>1, <3>1
  <2>3. CASE i < k /\ ~(j < k)
    <3>1. i = j + 1 BY <1>1, <1>3, <2>3
    <3> QED BY <1>1, <1>2, <2>3, <3>1
  <2>4. CASE ~(i < k) /\ j < k
    <3>1. j = i + 1 BY <1>1, <1>3, <2>4
    <3> QED BY <1>1, <1>2, <2>4, <3>1
  <2> QED BY <2>1, <2>2, <2>3, <2>4
<1>7. \A i \in 1 .. n - 1 : next2[t[i]] = IF i = n - 1 THEN Null ELSE t[i + 1]
  <2> SUFFICES ASSUME NEW i \in 1 .. n - 1 PROVE next2[t[i]] = IF i = n - 1 THEN Null ELSE t[i + 1]
    OBVIOUS
  <2>0. i \in Nat /\ i \in 1 .. n /\ i + 1 \in 1 .. n /\ (i # n - 1 => i + 1 \in 1 .. n - 1 /\ i + 1 + 1 \in 1 .. n) BY <1>1
  <2>1. CASE i < k - 1
    <3>1. i < k /\ i + 1 < k /\ i # n /\ i # n - 1 /\ i # k - 1 BY <1>1, <1>2, <2>0, <2>1
    <3> QED BY <1>1, <1>3, <1>5, <2>0, <3>1
  <2>2. CASE i = k - 1
    <3>1. i < k /\ ~(i + 1 < k) /\ k = i + 1 /\ (k = n <=> i = n - 1) BY <1>1, <1>2, <2>0, <2>2
    <3>2. next2[t[i]] = next[s[k]] BY <1>3, <1>5, <2>2, <3>1
    <3> QED BY <1>1, <1>3, <2>0, <3>1, <3>2
  <2>3. CASE i > k - 1
    <3>1. ~(i < k) /\ ~(i + 1 < k) /\ i + 1 # k - 1 /\ (i + 1 = n <=> i = n - 1) BY <1>1, <1>2, <2>0, <2>3
    <3>2. next2[t[i]] = next[s[i + 1]] BY <1>3, <1>5, <2>0, <3>1
    <3> QED BY <1>1, <1>3, <2>0, <3>1, <3>2
  <2> QED BY <1>2, <2>0, <2>1, <2>2, <2>3
<1>8. n - 1 \in Nat /\ h = t[1]
  BY <1>1, <1>2, <1>3
<1>9. Row(next2, h, t, n - 1)
  BY <1>2, <1>4, <1>6, <1>7, <1>8 DEF Row
<1> QED BY <1>9 DEF t, next2

\* t, of length n - 1, is what is left of s but for its k-th.
ButFor(t, s, n, k) ==
    /\ \A i \in 1 .. n - 1 : t[i] # s[k] /\ \E j \in 1 .. n : s[j] = t[i]
    /\ \A j \in 1 .. n : j # k => \E i \in 1 .. n - 1 : t[i] = s[j]

\* What is left is what was there but for one.
LEMMA Dropped ==
    ASSUME NEW n \in Nat, NEW s, NEW k \in 1 .. n,
           \A i, j \in 1 .. n : s[i] = s[j] => i = j
    PROVE  ButFor(Drop(s, n, k), s, n, k)
<1>1. \A i \in 1 .. n - 1 : /\ i \in 1 .. n /\ i + 1 \in 1 .. n
                            /\ (i < k => Drop(s, n, k)[i] = s[i] /\ i # k)
                            /\ (~(i < k) => Drop(s, n, k)[i] = s[i + 1] /\ i + 1 # k)
  BY DEF Drop
<1>2. \A i \in 1 .. n - 1 : Drop(s, n, k)[i] # s[k] /\ \E j \in 1 .. n : s[j] = Drop(s, n, k)[i]
  BY <1>1
<1>3. ASSUME NEW j \in 1 .. n, j # k PROVE \E i \in 1 .. n - 1 : Drop(s, n, k)[i] = s[j]
  <2>1. CASE j < k
    <3>1. j \in 1 .. n - 1 BY <2>1
    <3> QED BY <1>1, <2>1, <3>1
  <2>2. CASE j > k
    <3>1. j - 1 \in 1 .. n - 1 /\ ~(j - 1 < k) /\ j - 1 + 1 = j BY <2>2
    <3>2. Drop(s, n, k)[j - 1] = s[j] BY <1>1, <3>1
    <3> QED BY <3>1, <3>2
  <2> QED BY <1>3, <2>1, <2>2
<1> QED BY <1>2, <1>3 DEF ButFor

LEMMA Pushed ==
    ASSUME NEW n \in Nat, NEW s, NEW e
    PROVE  /\ Push(e, s, n)[1] = e /\ 1 \in 1 .. n + 1
           /\ \A i \in 1 .. n : i + 1 \in 1 .. n + 1 /\ Push(e, s, n)[i + 1] = s[i]
           /\ \A i \in 1 .. n + 1 : i # 1 => i - 1 \in 1 .. n /\ Push(e, s, n)[i] = s[i - 1]
BY DEF Push
LEMMA Unlinked ==
    ASSUME NEW S \in Book, NEW X, X \subseteq Struct, NEW l, NEW n, NEW q, NEW m, Lists(S, l, n, q, m, X),
           NEW k \in 1 .. n, NEW before, k # 1 => before = l[k - 1]
    PROVE  LET T == Unlink(S, l[k], before)
           IN  /\ T \in Book /\ l[k] \in Struct \ X
               /\ T.pool = S.pool /\ T.count = S.count /\ T.data = S.data
               /\ \A x \in Struct : T.next[x] = S.next[x] \/ S.next[x] = l[k]
               /\ Lists(T, Drop(l, n, k), n - 1, q, m, X \cup {l[k]})
<1> DEFINE T == Unlink(S, l[k], before)
           t == Drop(l, n, k)
<1>1. /\ n \in Nat /\ l \in [1 .. n -> Struct] /\ \A i, j \in 1 .. n : l[i] = l[j] => i = j
      /\ S.head = IF n = 0 THEN Null ELSE l[1]
      /\ \A i \in 1 .. n : S.next[l[i]] = IF i = n THEN Null ELSE l[i + 1]
      /\ m \in Nat /\ q \in [1 .. m -> Struct]
      /\ \A i \in 1 .. n, j \in 1 .. m : l[i] # q[j]
      /\ \A e \in Struct : e \in X <=> (\A i \in 1 .. n : l[i] # e) /\ (\A j \in 1 .. m : q[j] # e)
  BY DEF Lists, Row
<1>2. S.next \in Links /\ Row(S.next, S.head, l, n) /\ Row(S.next, S.pool, q, m)
  BY DEF Book, Lists
<1>3. l[k] \in Struct \ X /\ l[k] # Null /\ 1 \in 1 .. n /\ n # 0 /\ S.next[l[k]] \in Ptr
  <2>1. l[k] \in Struct /\ 1 \in 1 .. n /\ n # 0 BY <1>1
  <2>2. S.next[l[k]] \in Ptr BY <1>2, <2>1 DEF Links
  <2> QED BY <1>1, <2>1, <2>2, SizeAssumption
<1>4. /\ T \in Book /\ T.pool = S.pool /\ T.count = S.count /\ T.data = S.data
      /\ \A x \in Struct : T.next[x] = S.next[x] \/ S.next[x] = l[k]
      /\ Row(T.next, T.head, t, n - 1)
      /\ \A j \in 1 .. m : T.next[q[j]] = S.next[q[j]]
  <2>1. CASE k = 1
    <3>1. S.head = l[k] BY <1>1, <1>3, <2>1
    <3>2. T = [S EXCEPT !.head = S.next[l[k]]] BY <3>1 DEF Unlink
    <3>3. /\ T \in Book /\ T.pool = S.pool /\ T.count = S.count /\ T.data = S.data
          /\ T.next = S.next /\ T.head = S.next[S.head]
      BY <1>3, <3>1, <3>2 DEF Book
    <3> HIDE DEF T
    <3>4. Row(T.next, T.head, t, n - 1) BY <1>2, <1>3, <2>1, <3>3, RowRest
    <3> QED BY <3>3, <3>4
  <2>2. CASE k # 1
    <3>1. S.head # l[k] /\ k - 1 \in 1 .. n /\ k - 1 # n /\ k - 1 + 1 = k BY <1>1, <1>3, <2>2
    <3>2. before \in Struct /\ S.next[before] = l[k] BY <1>1, <2>2, <3>1
    <3>3. T = [S EXCEPT !.next[before] = S.next[l[k]]] BY <3>1 DEF Unlink
    <3>4. /\ T \in Book /\ T.pool = S.pool /\ T.count = S.count /\ T.data = S.data
          /\ T.next = [S.next EXCEPT ![before] = S.next[l[k]]] /\ T.head = S.head
      BY <1>3, <3>2, <3>3 DEF Book, Links
    <3> HIDE DEF T
    <3>5. Row(T.next, T.head, t, n - 1) BY <1>2, <2>2, <3>4, RowDrop
    <3>6. \A x \in Struct : x # before => T.next[x] = S.next[x] BY <1>2, <3>4 DEF Links
    <3>7. \A j \in 1 .. m : q[j] \in Struct /\ q[j] # before BY <1>1, <2>2, <3>1
    <3> QED BY <3>2, <3>4, <3>5, <3>6, <3>7
  <2> QED BY <2>1, <2>2
<1> HIDE DEF T
<1>5. Row(T.next, T.pool, q, m)
  BY <1>2, <1>4, RowKept
<1>6. /\ \A i \in 1 .. n - 1 : t[i] # l[k] /\ \E j \in 1 .. n : l[j] = t[i]
      /\ \A j \in 1 .. n : j # k => \E i \in 1 .. n - 1 : t[i] = l[j]
  <2>1. n \in Nat /\ k \in 1 .. n BY <1>1
  <2>2. \A i, j \in 1 .. n : l[i] = l[j] => i = j BY <1>1
  <2>3. ButFor(t, l, n, k) BY ONLY <2>1, <2>2, Dropped DEF t
  <2> QED BY <2>3 DEF ButFor
<1> HIDE DEF t
<1>7. \A i \in 1 .. n - 1, j \in 1 .. m : t[i] # q[j]
  <2> TAKE i \in 1 .. n - 1, j \in 1 .. m
  <2>1. PICK a \in 1 .. n : l[a] = t[i] BY <1>6
  <2> QED BY <1>1, <2>1
<1>8. ASSUME NEW e \in Struct
      PROVE  e \in X \cup {l[k]} <=> (\A i \in 1 .. n - 1 : t[i] # e) /\ (\A j \in 1 .. m : q[j] # e)
  <2>1. CASE e = l[k] BY <1>1, <1>6, <2>1
  <2>2. CASE e # l[k]
    <3>1. (\E i \in 1 .. n : l[i] = e) <=> (\E i \in 1 .. n - 1 : t[i] = e) BY <1>6, <2>2
    <3>2. e \in X \cup {l[k]} <=> e \in X BY <2>2
    <3> QED BY <1>1, <3>1, <3>2
  <2> QED BY <2>1, <2>2
<1>9. Lists(T, t, n - 1, q, m, X \cup {l[k]})
  BY <1>4, <1>5, <1>7, <1>8 DEF Lists
<1> QED BY <1>3, <1>4, <1>9 DEF T, t

\* memp_free puts it in front of the pool.
LEMMA Released ==
    ASSUME NEW S \in Book, NEW X, X \subseteq Struct, NEW l, NEW n, NEW q, NEW m, Lists(S, l, n, q, m, X),
           NEW e \in X
    PROVE  LET T == Release(S, e)
           IN  /\ T \in Book
               /\ T.head = S.head /\ T.pool = e /\ T.count = S.count /\ T.data = [S.data EXCEPT ![e] = Unused]
               /\ T.next = [S.next EXCEPT ![e] = S.pool]
               /\ Lists(T, l, n, Push(e, q, m), m + 1, X \ {e})
<1> DEFINE T == Release(S, e)
           t == Push(e, q, m)
<1>1. /\ n \in Nat /\ l \in [1 .. n -> Struct]
      /\ m \in Nat /\ q \in [1 .. m -> Struct]
      /\ \A i \in 1 .. n, j \in 1 .. m : l[i] # q[j]
      /\ \A x \in Struct : x \in X <=> (\A i \in 1 .. n : l[i] # x) /\ (\A j \in 1 .. m : q[j] # x)
      /\ Row(S.next, S.head, l, n) /\ Row(S.next, S.pool, q, m)
  BY DEF Lists, Row
<1>2. /\ e \in Struct /\ S.next \in Links /\ S.pool \in Ptr
      /\ (\A i \in 1 .. n : l[i] # e) /\ (\A j \in 1 .. m : q[j] # e)
  BY <1>1 DEF Book
<1>3. /\ T \in Book
      /\ T.head = S.head /\ T.pool = e /\ T.count = S.count /\ T.data = [S.data EXCEPT ![e] = Unused]
      /\ T.next = [S.next EXCEPT ![e] = S.pool]
  <2>1. Unused \in Datum BY SizeAssumption DEF Unused, Datum
  <2> QED BY <1>2, <2>1 DEF Book, Release, Ptr, Links
<1> HIDE DEF T
<1>4. Row(T.next, T.head, l, n)
  <2>1. \A x \in Struct : x # e => T.next[x] = S.next[x] BY <1>2, <1>3 DEF Links
  <2>2. \A i \in 1 .. n : T.next[l[i]] = S.next[l[i]] BY <1>1, <1>2, <2>1
  <2>3. Row(T.next, S.head, l, n) BY ONLY <1>1, <2>2, RowKept
  <2> QED BY <1>3, <2>3
<1>5. Row(T.next, T.pool, t, m + 1)
  <2>1. Row([S.next EXCEPT ![e] = S.pool], e, t, m + 1) BY <1>1, <1>2, RowPush
  <2> QED BY <1>3, <2>1
<1>6. /\ t[1] = e /\ 1 \in 1 .. m + 1
      /\ \A i \in 1 .. m : i + 1 \in 1 .. m + 1 /\ t[i + 1] = q[i]
      /\ \A i \in 1 .. m + 1 : i # 1 => i - 1 \in 1 .. m /\ t[i] = q[i - 1]
  BY <1>1, Pushed
<1> HIDE DEF t
<1>7. \A i \in 1 .. n, j \in 1 .. m + 1 : l[i] # t[j]
  BY <1>1, <1>2, <1>6
<1>8. ASSUME NEW x \in Struct
      PROVE  x \in X \ {e} <=> (\A i \in 1 .. n : l[i] # x) /\ (\A j \in 1 .. m + 1 : t[j] # x)
  <2>1. CASE x = e BY <1>6, <2>1
  <2>2. CASE x # e
    <3>1. (\E i \in 1 .. m : q[i] = x) <=> (\E i \in 1 .. m + 1 : t[i] = x) BY <1>6, <2>2
    <3> QED BY <1>1, <2>2, <3>1
  <2> QED BY <2>1, <2>2
<1>9. Lists(T, l, n, t, m + 1, X \ {e})
  BY <1>4, <1>5, <1>7, <1>8 DEF Lists
<1> QED BY <1>3, <1>9 DEF T, t

\* ip_reass_free_complete_datagram with the right predecessor.
LEMMA FreedWhole ==
    ASSUME NEW S \in Book, NEW X, X \subseteq Struct, NEW l, NEW n, NEW q, NEW m, Lists(S, l, n, q, m, X),
           NEW k \in 1 .. n, NEW before, k # 1 => before = l[k - 1]
    PROVE  LET T == FreeComplete(S, l[k], before)
           IN  /\ T \in Book /\ l[k] \in Struct \ X
               /\ T.pool = l[k] /\ T.count = S.count - Len(S.data[l[k]].p) /\ T.data = [S.data EXCEPT ![l[k]] = Unused]
               /\ \A x \in Struct : T.next[x] = S.next[x] \/ S.next[x] = l[k] \/ x = l[k]
               /\ Lists(T, Drop(l, n, k), n - 1, Push(l[k], q, m), m + 1, X)
<1> DEFINE e == l[k]
           U == Unlink(S, e, before)
           V == Release(U, e)
           T == FreeComplete(S, e, before)
           Y == X \cup {e}
<1>1. /\ U \in Book /\ e \in Struct \ X
      /\ U.pool = S.pool /\ U.count = S.count /\ U.data = S.data
      /\ \A x \in Struct : U.next[x] = S.next[x] \/ S.next[x] = e
      /\ Lists(U, Drop(l, n, k), n - 1, q, m, Y)
  BY Unlinked
<1>2. T = [V EXCEPT !.count = @ - Len(S.data[e].p)]
  BY DEF FreeComplete
<1> HIDE DEF U, e
<1>3. /\ V \in Book
      /\ V.head = U.head /\ V.pool = e /\ V.count = U.count /\ V.data = [U.data EXCEPT ![e] = Unused]
      /\ V.next = [U.next EXCEPT ![e] = U.pool]
      /\ Lists(V, Drop(l, n, k), n - 1, Push(e, q, m), m + 1, Y \ {e})
  <2>1. Y \subseteq Struct /\ e \in Y BY <1>1
  <2> HIDE DEF Y
  <2> QED BY <1>1, <2>1, Released
<1>4. Y \ {e} = X
  BY <1>1
<1> HIDE DEF V, T
<1>5. Len(S.data[e].p) \in Nat /\ S.count \in Int
  <2>1. S.data[e] \in Datum /\ S.count \in Int BY <1>1 DEF Book
  <2>2. S.data[e].p \in Seq(Frags) BY <2>1 DEF Datum
  <2> QED BY <2>1, <2>2
<1>6. /\ T \in Book
      /\ T.head = V.head /\ T.pool = V.pool /\ T.count = V.count - Len(S.data[e].p) /\ T.data = V.data /\ T.next = V.next
  BY <1>1, <1>2, <1>3, <1>5 DEF Book
<1>7. \A x \in Struct : x # e => T.next[x] = U.next[x]
  BY <1>1, <1>3, <1>6 DEF Book, Links
<1>8. Lists(T, Drop(l, n, k), n - 1, Push(e, q, m), m + 1, X)
  BY <1>3, <1>4, <1>6 DEF Lists
<1> QED BY <1>1, <1>3, <1>6, <1>7, <1>8 DEF e, T

\* T is S with e = l[k] taken from the list to the pool.
TakenOut(S, X, l, n, q, m, k, e, T) ==
    /\ T \in Book /\ e \in Struct /\ e \notin X /\ T.pool = e
    /\ T.data[e] = Unused /\ \A x \in Struct : x # e => T.data[x] = S.data[x]
    /\ \A x \in Struct : T.next[x] = S.next[x] \/ S.next[x] = e \/ x = e
    /\ Lists(T, Drop(l, n, k), n - 1, Push(e, q, m), m + 1, X)

LEMMA FreedIs ==
    ASSUME NEW S \in Book, NEW X, X \subseteq Struct, NEW l, NEW n, NEW q, NEW m, Lists(S, l, n, q, m, X),
           NEW k \in 1 .. n, NEW e, e = l[k], NEW before, k # 1 => before = l[k - 1],
           NEW T, T = FreeComplete(S, e, before)
    PROVE  TakenOut(S, X, l, n, q, m, k, e, T)
<1> DEFINE U == FreeComplete(S, l[k], before)
<1>1. /\ U \in Book /\ l[k] \in Struct \ X
      /\ U.pool = l[k] /\ U.count = S.count - Len(S.data[l[k]].p) /\ U.data = [S.data EXCEPT ![l[k]] = Unused]
      /\ \A x \in Struct : U.next[x] = S.next[x] \/ S.next[x] = l[k] \/ x = l[k]
      /\ Lists(U, Drop(l, n, k), n - 1, Push(l[k], q, m), m + 1, X)
  BY FreedWhole
<1>2. T = U
  OBVIOUS
<1> HIDE DEF U
<1>3. T.data[e] = Unused /\ (\A x \in Struct : x # e => T.data[x] = S.data[x])
  BY <1>1, <1>2 DEF Book
<1> QED BY <1>1, <1>2, <1>3 DEF TakenOut

\* ip_reass_enqueue_new_datagram takes the first of the pool to the front.
LEMMA Enqueued ==
    ASSUME NEW S \in Book, NEW X, X \subseteq Struct, NEW l, NEW n, NEW q, NEW m, Lists(S, l, n, q, m, X),
           S.pool # Null, NEW d \in Datagrams
    PROVE  LET T == Enqueue(S, d)
               e == S.pool
           IN  /\ T \in Book /\ e \in Struct \ X /\ m # 0 /\ e = q[1]
               /\ T.count = S.count /\ T.data = [S.data EXCEPT ![e] = [Unused EXCEPT !.d = d, !.timer = MaxAge]]
               /\ \A x \in Struct : x # e => T.next[x] = S.next[x]
               /\ Lists(T, Push(e, l, n), n + 1, Drop(q, m, 1), m - 1, X)
<1> DEFINE T == Enqueue(S, d)
           e == S.pool
           t == Push(e, l, n)
           u == Drop(q, m, 1)
<1>1. /\ n \in Nat /\ l \in [1 .. n -> Struct]
      /\ m \in Nat /\ q \in [1 .. m -> Struct] /\ \A i, j \in 1 .. m : q[i] = q[j] => i = j
      /\ S.pool = IF m = 0 THEN Null ELSE q[1]
      /\ \A i \in 1 .. n, j \in 1 .. m : l[i] # q[j]
      /\ \A x \in Struct : x \in X <=> (\A i \in 1 .. n : l[i] # x) /\ (\A j \in 1 .. m : q[j] # x)
      /\ Row(S.next, S.head, l, n) /\ Row(S.next, S.pool, q, m)
  BY DEF Lists, Row
<1>2. m # 0 /\ 1 \in 1 .. m /\ e = q[1] /\ e \in Struct \ X /\ \A i \in 1 .. n : l[i] # e
  BY <1>1
<1>3. S.next \in Links /\ S.head \in Ptr /\ S.pool \in Ptr /\ S.next[e] \in Ptr
  BY <1>2 DEF Book, Links
<1>4. /\ T \in Book /\ T.head = e /\ T.pool = S.next[e] /\ T.count = S.count
      /\ T.data = [S.data EXCEPT ![e] = [Unused EXCEPT !.d = d, !.timer = MaxAge]]
      /\ T.next = [S.next EXCEPT ![e] = S.head]
  <2>1. [Unused EXCEPT !.d = d, !.timer = MaxAge] \in Datum
    <3>1. Unused \in Datum BY SizeAssumption DEF Unused, Datum
    <3>2. MaxAge \in 0 .. MaxAge BY SizeAssumption
    <3>3. \A v \in Datum, a \in 0 .. MaxAge : [v EXCEPT !.d = d, !.timer = a] \in Datum BY DEF Datum
    <3> QED BY <3>1, <3>2, <3>3
  <2> QED BY <1>2, <1>3, <2>1 DEF Book, Enqueue, Ptr, Links
<1> HIDE DEF T
<1>5. \A x \in Struct : x # e => T.next[x] = S.next[x]
  BY <1>3, <1>4 DEF Links
<1>6. Row(T.next, T.head, t, n + 1)
  BY <1>1, <1>2, <1>3, <1>4, RowPush
<1>7. /\ \A i \in 1 .. m - 1 : u[i] # q[1] /\ \E j \in 1 .. m : q[j] = u[i]
      /\ \A j \in 1 .. m : j # 1 => \E i \in 1 .. m - 1 : u[i] = q[j]
  <2>1. m \in Nat /\ 1 \in 1 .. m BY <1>1, <1>2
  <2>2. \A i, j \in 1 .. m : q[i] = q[j] => i = j BY <1>1
  <2>3. ButFor(u, q, m, 1) BY ONLY <2>1, <2>2, Dropped DEF u
  <2> QED BY <2>3 DEF ButFor
<1>8. Row(T.next, T.pool, u, m - 1)
  <2>1. Row(S.next, S.next[S.pool], u, m - 1) BY <1>1, <1>2, RowRest
  <2> HIDE DEF u
  <2>2. \A i \in 1 .. m - 1 : T.next[u[i]] = S.next[u[i]] BY <1>1, <1>2, <1>5, <1>7
  <2> QED BY <1>4, <2>1, <2>2, RowKept
<1>9. /\ t[1] = e /\ 1 \in 1 .. n + 1
      /\ \A i \in 1 .. n : i + 1 \in 1 .. n + 1 /\ t[i + 1] = l[i]
      /\ \A i \in 1 .. n + 1 : i # 1 => i - 1 \in 1 .. n /\ t[i] = l[i - 1]
  BY <1>1, Pushed
<1> HIDE DEF t, u
<1>10. \A i \in 1 .. n + 1, j \in 1 .. m - 1 : t[i] # u[j]
  <2> TAKE i \in 1 .. n + 1, j \in 1 .. m - 1
  <2>1. PICK b \in 1 .. m : q[b] = u[j] BY <1>7
  <2> QED BY <1>1, <1>2, <1>7, <1>9, <2>1
<1>11. ASSUME NEW x \in Struct
       PROVE  x \in X <=> (\A i \in 1 .. n + 1 : t[i] # x) /\ (\A j \in 1 .. m - 1 : u[j] # x)
  <2>1. CASE x = e BY <1>2, <1>9, <2>1
  <2>2. CASE x # e
    <3>1. (\E i \in 1 .. n : l[i] = x) <=> (\E i \in 1 .. n + 1 : t[i] = x) BY <1>9, <2>2
    <3>2. (\E i \in 1 .. m : q[i] = x) <=> (\E i \in 1 .. m - 1 : u[i] = x) BY <1>2, <1>7, <2>2
    <3> QED BY <1>1, <3>1, <3>2
  <2> QED BY <2>1, <2>2
<1>12. Lists(T, t, n + 1, u, m - 1, X)
  BY <1>6, <1>8, <1>10, <1>11 DEF Lists
<1> QED BY <1>2, <1>4, <1>5, <1>12 DEF T, t, u

\* T is S with e = q[1] taken from the pool to the list, for datagram d.
TakenIn(S, X, l, n, q, m, e, d, T) ==
    /\ T \in Book /\ e \in Struct /\ e \notin X /\ m # 0 /\ e = q[1]
    /\ T.data[e] = [Unused EXCEPT !.d = d, !.timer = MaxAge] /\ \A x \in Struct : x # e => T.data[x] = S.data[x]
    /\ \A x \in Struct : x # e => T.next[x] = S.next[x]
    /\ Lists(T, Push(e, l, n), n + 1, Drop(q, m, 1), m - 1, X)

LEMMA EnqueuedIs ==
    ASSUME NEW S \in Book, NEW X, X \subseteq Struct, NEW l, NEW n, NEW q, NEW m, Lists(S, l, n, q, m, X),
           NEW e, e = S.pool, e # Null, NEW d \in Datagrams, NEW T, T = Enqueue(S, d)
    PROVE  TakenIn(S, X, l, n, q, m, e, d, T)
<1> DEFINE U == Enqueue(S, d)
           a == S.pool
<1>0. S.pool # Null
  OBVIOUS
<1>1. /\ U \in Book /\ a \in Struct \ X /\ m # 0 /\ a = q[1]
      /\ U.count = S.count /\ U.data = [S.data EXCEPT ![a] = [Unused EXCEPT !.d = d, !.timer = MaxAge]]
      /\ \A x \in Struct : x # a => U.next[x] = S.next[x]
      /\ Lists(U, Push(a, l, n), n + 1, Drop(q, m, 1), m - 1, X)
  BY <1>0, Enqueued
<1> DEFINE new == [Unused EXCEPT !.d = d, !.timer = MaxAge]
<1>2. T = U /\ e = a
  OBVIOUS
<1> HIDE DEF U, a
<1>3. T.data[e] = new /\ (\A x \in Struct : x # e => T.data[x] = S.data[x])
  <2>1. U.data = [S.data EXCEPT ![a] = new] BY <1>1
  <2> HIDE DEF new
  <2> QED BY <1>1, <1>2, <2>1 DEF Book
<1> QED BY <1>1, <1>2, <1>3 DEF TakenIn

----------------------------------------------------------------------------
(* What a wrong predecessor does: two pointers lead to one structure. *)

Twice(S, X) ==
    \E t \in Struct :
        \/ S.head = t /\ S.pool = t
        \/ \E x \in Struct \ X : S.next[x] = t /\ (S.head = t \/ S.pool = t)
        \/ \E x, y \in Struct \ X : x # y /\ S.next[x] = t /\ S.next[y] = t

\* No pointer leads into X.
Shut(S, X) == S.head \notin X /\ S.pool \notin X /\ \A x \in Struct \ X : S.next[x] \notin X

\* The first of the pool is still pointed to from elsewhere.
Doubled(S, X) ==
    /\ Shut(S, X)
    /\ S.pool \in Struct /\ S.data[S.pool] = Unused
    /\ \E x \in Struct \ X : x # S.pool /\ S.next[x] = S.pool

LEMMA Pointed ==
    ASSUME NEW S, NEW X, X \subseteq Struct, NEW l, NEW n, NEW q, NEW m, Lists(S, l, n, q, m, X),
           NEW x \in Struct \ X, S.next[x] \in Struct
    PROVE  \/ \E i \in 1 .. n : i # n /\ i + 1 \in 1 .. n /\ l[i] = x /\ l[i + 1] = S.next[x]
           \/ \E j \in 1 .. m : j # m /\ j + 1 \in 1 .. m /\ q[j] = x /\ q[j + 1] = S.next[x]
<1>1. /\ n \in Nat /\ \A i \in 1 .. n : S.next[l[i]] = IF i = n THEN Null ELSE l[i + 1]
      /\ m \in Nat /\ \A i \in 1 .. m : S.next[q[i]] = IF i = m THEN Null ELSE q[i + 1]
      /\ \A e \in Struct : e \in X <=> (\A i \in 1 .. n : l[i] # e) /\ (\A j \in 1 .. m : q[j] # e)
  BY DEF Lists, Row
<1>2. Null \notin Struct BY SizeAssumption
<1>3. (\E i \in 1 .. n : l[i] = x) \/ (\E j \in 1 .. m : q[j] = x)
  BY <1>1
<1>4. ASSUME NEW i \in 1 .. n, l[i] = x
      PROVE  i # n /\ i + 1 \in 1 .. n /\ l[i + 1] = S.next[x]
  BY <1>1, <1>2, <1>4
<1>5. ASSUME NEW j \in 1 .. m, q[j] = x
      PROVE  j # m /\ j + 1 \in 1 .. m /\ q[j + 1] = S.next[x]
  BY <1>1, <1>2, <1>5
<1> QED BY <1>3, <1>4, <1>5

LEMMA NotTwice ==
    ASSUME NEW S, NEW X, X \subseteq Struct, NEW l, NEW n, NEW q, NEW m, Lists(S, l, n, q, m, X)
    PROVE  ~Twice(S, X)
<1>1. /\ n \in Nat /\ \A i, j \in 1 .. n : l[i] = l[j] => i = j
      /\ S.head = IF n = 0 THEN Null ELSE l[1]
      /\ m \in Nat /\ \A i, j \in 1 .. m : q[i] = q[j] => i = j
      /\ S.pool = IF m = 0 THEN Null ELSE q[1]
      /\ \A i \in 1 .. n, j \in 1 .. m : l[i] # q[j]
  BY DEF Lists, Row
<1>2. Null \notin Struct BY SizeAssumption
<1> DEFINE AtL(x, i) == i \in 1 .. n /\ i # n /\ i + 1 \in 1 .. n /\ l[i] = x /\ l[i + 1] = S.next[x]
           AtQ(x, j) == j \in 1 .. m /\ j # m /\ j + 1 \in 1 .. m /\ q[j] = x /\ q[j + 1] = S.next[x]
<1>3. \A x \in Struct \ X : S.next[x] \in Struct => (\E i : AtL(x, i)) \/ (\E j : AtQ(x, j))
  BY Pointed
<1> SUFFICES ASSUME NEW t \in Struct,
                    \/ S.head = t /\ S.pool = t
                    \/ \E x \in Struct \ X : S.next[x] = t /\ (S.head = t \/ S.pool = t)
                    \/ \E x, y \in Struct \ X : x # y /\ S.next[x] = t /\ S.next[y] = t
             PROVE  FALSE
  BY DEF Twice
<1>4. S.head = t => n # 0 /\ 1 \in 1 .. n /\ l[1] = t
  BY <1>1, <1>2
<1>5. S.pool = t => m # 0 /\ 1 \in 1 .. m /\ q[1] = t
  BY <1>1, <1>2
<1>6. CASE S.head = t /\ S.pool = t
  BY <1>1, <1>4, <1>5, <1>6
<1>7. ASSUME NEW x \in Struct \ X, S.next[x] = t, S.head = t \/ S.pool = t
      PROVE  FALSE
  <2>1. ASSUME NEW i, AtL(x, i) PROVE FALSE
    <3>1. i + 1 # 1 BY <2>1
    <3>2. CASE S.head = t BY <1>1, <1>4, <1>7, <2>1, <3>1, <3>2
    <3>3. CASE S.pool = t BY <1>1, <1>5, <1>7, <2>1, <3>3
    <3> QED BY <1>7, <3>2, <3>3
  <2>2. ASSUME NEW j, AtQ(x, j) PROVE FALSE
    <3>1. j + 1 # 1 BY <2>2
    <3>2. CASE S.pool = t BY <1>1, <1>5, <1>7, <2>2, <3>1, <3>2
    <3>3. CASE S.head = t BY <1>1, <1>4, <1>7, <2>2, <3>3
    <3> QED BY <1>7, <3>2, <3>3
  <2> HIDE DEF AtL, AtQ
  <2> QED BY <1>3, <1>7, <2>1, <2>2
<1>8. ASSUME NEW x \in Struct \ X, NEW y \in Struct \ X, x # y, S.next[x] = t, S.next[y] = t
      PROVE  FALSE
  <2>1. ASSUME NEW i, NEW j, AtL(x, i), AtL(y, j) PROVE FALSE
    <3>1. i + 1 = j + 1 BY <1>1, <1>8, <2>1
    <3> QED BY <1>1, <1>8, <2>1, <3>1
  <2>2. ASSUME NEW i, NEW j, AtQ(x, i), AtQ(y, j) PROVE FALSE
    <3>1. i + 1 = j + 1 BY <1>1, <1>8, <2>2
    <3> QED BY <1>1, <1>8, <2>2, <3>1
  <2>3. ASSUME NEW i, NEW j, AtL(x, i), AtQ(y, j) PROVE FALSE
    BY <1>1, <1>8, <2>3
  <2>4. ASSUME NEW i, NEW j, AtQ(x, i), AtL(y, j) PROVE FALSE
    BY <1>1, <1>8, <2>4
  <2> HIDE DEF AtL, AtQ
  <2> QED BY <1>3, <1>8, <2>1, <2>2, <2>3, <2>4
<1> QED BY <1>6, <1>7, <1>8

LEMMA ListsShut ==
    ASSUME NEW S, NEW X, X \subseteq Struct, NEW l, NEW n, NEW q, NEW m, Lists(S, l, n, q, m, X)
    PROVE  Shut(S, X)
<1>1. /\ n \in Nat /\ S.head = (IF n = 0 THEN Null ELSE l[1]) /\ m \in Nat /\ S.pool = (IF m = 0 THEN Null ELSE q[1])
      /\ \A i \in 1 .. n : S.next[l[i]] = IF i = n THEN Null ELSE l[i + 1]
      /\ \A i \in 1 .. m : S.next[q[i]] = IF i = m THEN Null ELSE q[i + 1]
      /\ \A e \in Struct : e \in X <=> (\A i \in 1 .. n : l[i] # e) /\ (\A j \in 1 .. m : q[j] # e)
  BY DEF Lists, Row
<1>2. Null \notin X BY SizeAssumption
<1>3. (\A i \in 1 .. n : l[i] \notin X) /\ (\A j \in 1 .. m : q[j] \notin X)
  BY <1>1
<1>4. S.head \notin X /\ S.pool \notin X
  <2>1. n # 0 => 1 \in 1 .. n BY <1>1
  <2>2. m # 0 => 1 \in 1 .. m BY <1>1
  <2> QED BY <1>1, <1>2, <1>3, <2>1, <2>2
<1>5. ASSUME NEW x \in Struct \ X PROVE S.next[x] \notin X
  <2>1. \A i \in 1 .. n : i # n => i + 1 \in 1 .. n BY <1>1
  <2>2. \A i \in 1 .. m : i # m => i + 1 \in 1 .. m BY <1>1
  <2>3. ASSUME NEW i \in 1 .. n, l[i] = x PROVE S.next[x] \notin X BY <1>1, <1>2, <1>3, <2>1, <2>3
  <2>4. ASSUME NEW i \in 1 .. m, q[i] = x PROVE S.next[x] \notin X BY <1>1, <1>2, <1>3, <2>2, <2>4
  <2> QED BY <1>1, <2>3, <2>4
<1> QED BY <1>4, <1>5 DEF Shut

\* A list that is not damaged has no two pointers to one structure.
LEMMA TwiceUnsound ==
    ASSUME NEW S \in Book, NEW X, X \subseteq Struct, Twice(S, X)
    PROVE  ~SoundBut(S, X)
<1> SUFFICES ASSUME SoundBut(S, X) PROVE FALSE
  OBVIOUS
<1>1. PICK n, m \in 0 .. N : Lists(S, List(S), n, Pool(S), m, X)
  BY SoundLists
<1> QED BY <1>1, NotTwice

\* The removal of a structure with the predecessor of the last one.
LEMMA WrongRemoval ==
    ASSUME NEW S \in Book, NEW X, X \subseteq Struct, NEW l, NEW n, NEW q, NEW m, Lists(S, l, n, q, m, X),
           NEW k \in 1 .. n, k # 1, k # n
    PROVE  LET T == FreeComplete(S, l[k], l[n - 1])
           IN  /\ T \in Book /\ l[k] \in Struct \ X /\ T.pool = l[k]
               /\ T.head = S.head /\ T.next = [[S.next EXCEPT ![l[n - 1]] = l[k + 1]] EXCEPT ![l[k]] = S.pool]
               /\ T.count = S.count - Len(S.data[l[k]].p) /\ T.data = [S.data EXCEPT ![l[k]] = Unused]
               /\ Doubled(T, X)
<1> DEFINE e == l[k]
           T == FreeComplete(S, e, l[n - 1])
<1>1. /\ n \in Nat /\ l \in [1 .. n -> Struct] /\ \A i, j \in 1 .. n : l[i] = l[j] => i = j
      /\ S.head = (IF n = 0 THEN Null ELSE l[1])
      /\ \A i \in 1 .. n : S.next[l[i]] = IF i = n THEN Null ELSE l[i + 1]
      /\ \A x \in Struct : x \in X => (\A i \in 1 .. n : l[i] # x)
  BY DEF Lists, Row
<1>2. /\ k \in Nat /\ k - 1 \in 1 .. n /\ k + 1 \in 1 .. n /\ n - 1 \in 1 .. n /\ 1 \in 1 .. n
      /\ k - 1 # n - 1 /\ k - 1 # k /\ k - 1 # n /\ k - 1 + 1 = k /\ n # 0
  BY <1>1
<1>3. /\ e \in Struct \ X /\ S.head # e /\ S.next[e] = l[k + 1] /\ S.next[l[k - 1]] = e /\ l[n - 1] \in Struct
      /\ l[k - 1] \in Struct \ X /\ l[k - 1] # l[n - 1] /\ l[k - 1] # e /\ l[k + 1] \in Struct
  BY <1>1, <1>2
<1>4. Len(S.data[e].p) \in Nat /\ S.count \in Int /\ Unused \in Datum /\ S.next \in Links /\ S.pool \in Ptr
  <2>1. S.data[e] \in Datum /\ S.count \in Int /\ S.next \in Links /\ S.pool \in Ptr BY <1>3 DEF Book
  <2>2. S.data[e].p \in Seq(Frags) BY <2>1 DEF Datum
  <2>3. Unused \in Datum BY SizeAssumption DEF Unused, Datum
  <2> QED BY <2>1, <2>2, <2>3
<1> HIDE DEF e
<1> DEFINE U == [S EXCEPT !.next[l[n - 1]] = S.next[e]]
<1>5. Unlink(S, e, l[n - 1]) = U
  BY <1>3 DEF Unlink
<1>6. /\ U \in Book /\ U.head = S.head /\ U.pool = S.pool /\ U.count = S.count /\ U.data = S.data
      /\ U.next = [S.next EXCEPT ![l[n - 1]] = l[k + 1]] /\ U.next \in Links
  BY <1>3, <1>4 DEF Book, Links, Ptr
<1> HIDE DEF U
<1> DEFINE V == Release(U, e)
<1>7. /\ V \in Book /\ V.head = S.head /\ V.pool = e /\ V.count = S.count /\ V.data = [S.data EXCEPT ![e] = Unused]
      /\ V.next = [U.next EXCEPT ![e] = S.pool]
  BY <1>3, <1>4, <1>6 DEF Book, Release, Links, Ptr
<1>8. T = [V EXCEPT !.count = @ - Len(S.data[e].p)]
  BY <1>5 DEF FreeComplete
<1> HIDE DEF V, T
<1>9. /\ T \in Book /\ T.head = S.head /\ T.pool = e /\ T.count = S.count - Len(S.data[e].p)
      /\ T.data = [S.data EXCEPT ![e] = Unused] /\ T.next = V.next
  BY <1>4, <1>7, <1>8 DEF Book
<1>10. Shut(S, X)
  BY ListsShut
<1>11. Doubled(T, X)
  <2>1. T.next[l[k - 1]] = e BY <1>3, <1>4, <1>6, <1>7, <1>9 DEF Links
  <2>2. T.next[e] = S.pool /\ \A x \in Struct : x # e => T.next[x] = S.next[x] \/ T.next[x] = l[k + 1]
    BY <1>3, <1>4, <1>6, <1>7, <1>9 DEF Links
  <2>3. l[k + 1] \notin X BY <1>1, <1>2
  <2>4. Shut(T, X) BY <1>3, <1>9, <1>10, <2>2, <2>3 DEF Shut
  <2>5. T.data[e] = Unused BY <1>3, <1>9 DEF Book
  <2> QED BY <1>3, <1>9, <2>1, <2>4, <2>5 DEF Doubled
<1> QED BY <1>3, <1>6, <1>7, <1>9, <1>11 DEF T, e
----------------------------------------------------------------------------
(* What the search for a datagram and for the oldest one find. *)

LEMMA ListIs ==
    ASSUME NEW S \in Book
    PROVE  \E n \in 0 .. N + 1 :
             /\ List(S) \in [1 .. n -> Struct] /\ List(S) \in Seq(Struct) /\ Len(List(S)) = n
             /\ S.head = IF n = 0 THEN Null ELSE List(S)[1]
             /\ \A i \in 1 .. n : i # n => S.next[List(S)[i]] = List(S)[i + 1]
<1>1. S.next \in Links /\ S.head \in Ptr
  BY DEF Book
<1> DEFINE l == Chain(S.next, S.head)
<1>2. PICK n \in 0 .. N + 1 :
        /\ l \in [1 .. n -> Struct]
        /\ S.head = IF n = 0 THEN Null ELSE l[1]
        /\ \A i \in 1 .. n : i # n => S.next[l[i]] = l[i + 1]
  BY <1>1, ChainSteps
<1>3. l = List(S)
  BY DEF List
<1> HIDE DEF l
<1>4. n \in Nat BY SizeOfStruct
<1>5. l \in Seq(Struct) /\ Len(l) = n
  BY <1>2, <1>4
<1> QED BY <1>2, <1>3, <1>5

LEMMA LeastPlace ==
    ASSUME NEW A, A \subseteq Nat, A # {}
    PROVE  LET i == CHOOSE i \in A : \A j \in A : i <= j
           IN  i \in A /\ \A j \in A : i <= j
BY LeastNumber

LEMMA LastPlace ==
    ASSUME NEW n \in Nat, NEW A, A \subseteq 1 .. n, A # {}
    PROVE  LET i == CHOOSE i \in A : \A j \in A : j <= i
           IN  i \in A /\ \A j \in A : j <= i
<1> DEFINE B == {n - i : i \in A}
<1>1. B \subseteq Nat /\ B # {}
  <2>1. PICK a \in A : TRUE OBVIOUS
  <2>2. n - a \in B BY <2>1
  <2>3. \A i \in A : n - i \in Nat OBVIOUS
  <2> QED BY <2>2, <2>3
<1>2. PICK b \in B : \A c \in B : b <= c
  BY ONLY <1>1, LeastNumber
<1>3. PICK i \in A : b = n - i
  BY <1>2
<1>4. \A j \in A : j <= i
  <2> TAKE j \in A
  <2>1. n - j \in B OBVIOUS
  <2>2. n - i <= n - j BY <1>2, <1>3, <2>1
  <2>3. i \in Nat /\ j \in Nat BY <1>3
  <2> QED BY <2>2, <2>3
<1> QED BY <1>3, <1>4

LEMMA PlaceIs ==
    ASSUME NEW S \in Book, NEW d, NEW n \in Nat, Len(List(S)) = n
    PROVE  /\ Place(S, d) \in 0 .. n
           /\ Place(S, d) = 0 => \A i \in 1 .. n : S.data[List(S)[i]].d # d
           /\ Place(S, d) # 0 => /\ S.data[List(S)[Place(S, d)]].d = d
                                 /\ \A i \in 1 .. n : i < Place(S, d) => S.data[List(S)[i]].d # d
<1> DEFINE A == {i \in 1 .. n : S.data[List(S)[i]].d = d}
<1>1. Place(S, d) = IF A = {} THEN 0 ELSE CHOOSE i \in A : \A j \in A : i <= j
  BY DEF Place
<1>2. A # {} => Place(S, d) \in A /\ \A j \in A : Place(S, d) <= j
  <2>1. A \subseteq Nat OBVIOUS
  <2> HIDE DEF A
  <2> QED BY <1>1, <2>1, LeastPlace
<1>3. CASE A = {}
  BY <1>1, <1>3
<1>4. CASE A # {}
  <2>1. Place(S, d) \in A /\ \A j \in A : Place(S, d) <= j BY <1>2, <1>4
  <2>2. PICK k \in A : k = Place(S, d) BY <2>1
  <2>3. \A i \in 1 .. n : i < k => i \notin A BY <2>1, <2>2
  <2>4. k \in 1 .. n /\ S.data[List(S)[k]].d = d BY <2>2
  <2> QED BY <2>2, <2>3, <2>4
<1> QED BY <1>3, <1>4

\* Of those that are not d's, the one removed is the last of the oldest.
LEMMA OldestIs ==
    ASSUME NEW S \in Book, NEW d, NEW n \in Nat, Len(List(S)) = n, List(S) \in [1 .. n -> Struct]
    PROVE  \/ Oldest(S, d) = Null /\ \A i \in 1 .. n : S.data[List(S)[i]].d = d
           \/ \E k \in 1 .. n :
                /\ Oldest(S, d) = List(S)[k] /\ S.data[List(S)[k]].d # d
                /\ \A j \in 1 .. n : S.data[List(S)[j]].d # d =>
                     /\ S.data[List(S)[k]].timer <= S.data[List(S)[j]].timer
                     /\ S.data[List(S)[j]].timer <= S.data[List(S)[k]].timer => j <= k
<1> DEFINE others == {i \in 1 .. n : S.data[List(S)[i]].d # d}
           oldest == {i \in others : \A j \in others : S.data[List(S)[i]].timer <= S.data[List(S)[j]].timer}
           k == CHOOSE i \in oldest : \A j \in oldest : j <= i
<1>1. Oldest(S, d) = IF others = {} THEN Null ELSE List(S)[k]
  BY DEF Oldest
<1>2. CASE others = {}
  BY <1>1, <1>2
<1>3. CASE others # {}
  <2>1. \A i \in 1 .. n : S.data[List(S)[i]].timer \in Nat
    <3> TAKE i \in 1 .. n
    <3>1. S.data[List(S)[i]] \in Datum BY DEF Book
    <3>2. S.data[List(S)[i]].timer \in 0 .. MaxAge BY <3>1 DEF Datum
    <3> QED BY <3>2
  <2> DEFINE T == {S.data[List(S)[i]].timer : i \in others}
  <2>2. T \subseteq Nat /\ T # {} BY <1>3, <2>1
  <2>3. PICK t \in T : \A u \in T : t <= u
    <3> HIDE DEF T
    <3> QED BY <2>2, LeastNumber
  <2>4. oldest # {} /\ oldest \subseteq 1 .. n
    <3>1. PICK i \in others : t = S.data[List(S)[i]].timer BY <2>3
    <3>2. \A j \in others : t <= S.data[List(S)[j]].timer BY <2>3
    <3>3. i \in oldest BY <3>1, <3>2
    <3> QED BY <3>3
  <2>5. k \in oldest /\ \A j \in oldest : j <= k
    <3> HIDE DEF oldest
    <3> QED BY <2>4, LastPlace
  <2> HIDE DEF k
  <2>6. /\ k \in 1 .. n /\ k \in others /\ S.data[List(S)[k]].d # d
        /\ \A j \in others : S.data[List(S)[k]].timer <= S.data[List(S)[j]].timer
    BY <2>5
  <2>7. ASSUME NEW j \in others, S.data[List(S)[j]].timer <= S.data[List(S)[k]].timer PROVE j <= k
    <3>1. \A i \in others : S.data[List(S)[j]].timer <= S.data[List(S)[i]].timer
      <4> TAKE i \in others
      <4>1. S.data[List(S)[k]].timer <= S.data[List(S)[i]].timer BY <2>6
      <4>2. \A a, b, c \in Nat : a <= b /\ b <= c => a <= c OBVIOUS
      <4>3. i \in 1 .. n /\ j \in 1 .. n OBVIOUS
      <4> HIDE DEF others
      <4> QED BY <2>1, <2>6, <2>7, <4>1, <4>2, <4>3
    <3>2. j \in oldest BY <3>1
    <3> QED BY <2>5, <3>2
  <2>8. Oldest(S, d) = List(S)[k] BY <1>1, <1>3
  <2> QED BY <2>6, <2>7, <2>8
<1> QED BY <1>2, <1>3

----------------------------------------------------------------------------
(* The fragments of a datagram. *)

LEMMA FragIs == \A f \in Frags : f.from \in Nat /\ f.to \in Nat /\ f.from < f.to
BY FragAssumption, SizeAssumption

LEMMA MetIs ==
    ASSUME NEW p \in Seq(Frags), NEW f \in Frags
    PROVE  /\ Met(p, f) \in 0 .. Len(p)
           /\ Met(p, f) = Len(p) \/ p[Met(p, f) + 1].from > f.from
           /\ \A i \in 1 .. Met(p, f) : p[i].from <= f.from
<1> DEFINE n == Len(p)
           Behind(k) == k = n \/ p[k + 1].from > f.from
           K == {k \in 0 .. n : Behind(k)}
<1>1. n \in Nat /\ n \in K /\ K \subseteq Nat
  OBVIOUS
<1>2. PICK k \in K : \A j \in K : k <= j
  <2> HIDE DEF K
  <2> QED BY <1>1, LeastNumber
<1>3. \A i \in 1 .. k : p[i].from <= f.from
  <2> SUFFICES ASSUME NEW i \in 1 .. k PROVE p[i].from <= f.from
    OBVIOUS
  <2>1. i - 1 \in 0 .. n /\ i - 1 # n /\ i - 1 + 1 = i /\ ~(k <= i - 1) /\ i \in 1 .. n BY <1>1, <1>2
  <2>2. i - 1 \notin K BY <1>2, <2>1
  <2>3. ~(p[i].from > f.from) BY <2>1, <2>2
  <2>4. p[i] \in Frags BY <2>1
  <2>5. p[i].from \in Nat /\ f.from \in Nat BY <2>4, FragIs
  <2> QED BY <2>3, <2>5
<1>4. k \in 0 .. n /\ Behind(k)
  BY <1>2
<1> QED BY <1>3, <1>4 DEF Met

\* The new fragment is the one behind those met; the others keep their order.
LEMMA ChainedIs ==
    ASSUME NEW p \in Seq(Frags), NEW f \in Frags, NEW k \in 0 .. Len(p), k = Met(p, f)
    PROVE  /\ Chained(p, f) \in Seq(Frags) /\ Len(Chained(p, f)) = Len(p) + 1
           /\ k + 1 \in 1 .. Len(p) + 1 /\ Chained(p, f)[k + 1] = f
           /\ \A i \in 1 .. k : Chained(p, f)[i] = p[i]
           /\ \A i \in 1 .. Len(p) : i > k => Chained(p, f)[i + 1] = p[i]
<1> DEFINE n == Len(p)
           a == SubSeq(p, 1, k)
           b == SubSeq(p, k + 1, n)
           q == Chained(p, f)
<1>1. n \in Nat /\ k \in Nat /\ k <= n
  OBVIOUS
<1>2. q = a \o <<f>> \o b
  BY DEF Chained
<1>3. a \in Seq(Frags) /\ Len(a) = k /\ \A i \in 1 .. k : a[i] = p[i]
  BY <1>1
<1>4. b \in Seq(Frags) /\ Len(b) = n - k /\ \A i \in 1 .. n - k : b[i] = p[k + i]
  BY <1>1
<1>0. PICK w \in Nat : w = n - k
  BY <1>1
<1> HIDE DEF a, b, q, n
<1>5. a \o <<f>> \in Seq(Frags) /\ Len(a \o <<f>>) = k + 1 /\ (a \o <<f>>)[k + 1] = f /\ \A i \in 1 .. k : (a \o <<f>>)[i] = p[i]
  BY <1>1, <1>3
<1> DEFINE c == a \o <<f>>
<1>6. c \in Seq(Frags) /\ Len(c) = k + 1 /\ c[k + 1] = f /\ \A i \in 1 .. k : c[i] = p[i]
  BY <1>5
<1>7. q = c \o b
  BY <1>2
<1> HIDE DEF c
<1>8. q \in Seq(Frags) /\ Len(q) = n + 1
  <2>1. b \in Seq(Frags) /\ Len(b) = w BY ONLY <1>0, <1>4
  <2>2. c \o b \in Seq(Frags) /\ Len(c \o b) = (k + 1) + w BY ONLY <1>1, <1>6, <2>1
  <2>3. (k + 1) + w = n + 1 BY ONLY <1>0, <1>1
  <2> QED BY ONLY <1>7, <2>2, <2>3
<1>9. \A i \in 1 .. k + 1 : q[i] = c[i]
  BY <1>1, <1>4, <1>6, <1>7
<1>10. \A i \in 1 .. n - k : q[k + 1 + i] = b[i]
  <2>1. b \in Seq(Frags) /\ Len(b) = w BY ONLY <1>0, <1>4
  <2>2. \A i \in 1 .. w : (c \o b)[k + 1 + i] = b[i] BY ONLY <1>0, <1>1, <1>6, <2>1
  <2> QED BY ONLY <1>0, <1>7, <2>2
<1>11. \A i \in 1 .. n : i > k => q[i + 1] = p[i]
  <2> SUFFICES ASSUME NEW i \in 1 .. n, i > k PROVE q[i + 1] = p[i]
    OBVIOUS
  <2>1. i - k \in 1 .. n - k /\ k + 1 + (i - k) = i + 1 /\ k + (i - k) = i BY <1>1
  <2>2. q[k + 1 + (i - k)] = b[i - k] /\ b[i - k] = p[k + (i - k)] BY <1>4, <1>10, <2>1
  <2> QED BY <2>1, <2>2
<1>12. k + 1 \in 1 .. n + 1 /\ k + 1 \in 1 .. k + 1 /\ \A i \in 1 .. k : i \in 1 .. k + 1
  BY <1>1
<1> QED BY <1>6, <1>8, <1>9, <1>11, <1>12 DEF q, n
----------------------------------------------------------------------------
(* The pbufs that are kept. *)

Held(S) == Cardinality(Pbufs(S, Struct))

LEMMA DatumIs ==
    ASSUME NEW S, S.data \in [Struct -> Datum], NEW e \in Struct
    PROVE  /\ S.data[e] \in Datum /\ S.data[e].p \in Seq(Frags) /\ Len(S.data[e].p) \in Nat
           /\ S.data[e].last \in BOOLEAN /\ S.data[e].timer \in 0 .. MaxAge /\ S.data[e].timer \in Nat
           /\ S.data[e].d \in Datagrams \cup {NoDatagram}
<1>1. S.data[e] \in Datum
  OBVIOUS
<1>2. S.data[e].p \in Seq(Frags) /\ S.data[e].timer \in 0 .. MaxAge
  BY <1>1 DEF Datum
<1> QED BY <1>1, <1>2 DEF Datum

LEMMA PbufsFinite ==
    ASSUME NEW S, S.data \in [Struct -> Datum], NEW A, A \subseteq Struct
    PROVE  IsFiniteSet(Pbufs(S, A))
<1> DEFINE Of(e) == {e} \X (1 .. Len(S.data[e].p))
           all == {Of(e) : e \in A}
<1>1. IsFiniteSet(A)
  BY SizeAssumption, FS_Subset
<1>2. IsFiniteSet(all)
  <2> DEFINE g == [e \in A |-> Of(e)]
  <2>1. g \in Surjection(A, all) BY DEF Surjection
  <2> HIDE DEF g, all
  <2> QED BY <1>1, <2>1, FS_Surjection
<1>3. \A T \in all : IsFiniteSet(T)
  <2> SUFFICES ASSUME NEW e \in A PROVE IsFiniteSet({e} \X (1 .. Len(S.data[e].p)))
    OBVIOUS
  <2>1. PICK n \in Nat : n = Len(S.data[e].p) BY DatumIs
  <2>2. IsFiniteSet(1 .. n) BY FS_Interval
  <2>3. IsFiniteSet({e}) BY FS_Singleton
  <2> QED BY <2>1, <2>2, <2>3, FS_Product
<1>4. Pbufs(S, A) = UNION all
  BY DEF Pbufs
<1> HIDE DEF all
<1> QED BY <1>2, <1>3, <1>4, FS_UNION

\* One structure has as many as its list is long.
LEMMA PbufsSplit ==
    ASSUME NEW S, S.data \in [Struct -> Datum], NEW A, A \subseteq Struct, NEW e \in A
    PROVE  /\ Cardinality(Pbufs(S, A)) \in Nat /\ Cardinality(Pbufs(S, A \ {e})) \in Nat
           /\ Cardinality(Pbufs(S, A)) = Cardinality(Pbufs(S, A \ {e})) + Len(S.data[e].p)
<1> DEFINE n == Len(S.data[e].p)
           B == {e} \X (1 .. n)
           C == Pbufs(S, A \ {e})
<1>1. n \in Nat
  BY DatumIs
<1> HIDE DEF n
<1>2. IsFiniteSet(1 .. n) /\ Cardinality(1 .. n) = n
  BY <1>1, FS_Interval
<1>3. IsFiniteSet(B) /\ Cardinality(B) = n
  <2> DEFINE g == [i \in 1 .. n |-> <<e, i>>]
  <2>1. g \in Bijection(1 .. n, B)
    <3>1. g \in [1 .. n -> B] /\ DOMAIN g = 1 .. n OBVIOUS
    <3>2. \A i \in 1 .. n : g[i] = <<e, i>> OBVIOUS
    <3>3. \A y \in B : \E i \in 1 .. n : y = <<e, i>> OBVIOUS
    <3> HIDE DEF g, B
    <3>4. IsInjective(g) BY <3>1, <3>2 DEF IsInjective
    <3>5. \A y \in B : \E i \in 1 .. n : g[i] = y BY <3>2, <3>3
    <3> QED BY <3>1, <3>4, <3>5 DEF Bijection, Injection, Surjection
  <2>2. ExistsBijection(1 .. n, B) BY <2>1 DEF ExistsBijection
  <2> HIDE DEF g, B
  <2> QED BY <1>2, <2>2, FS_Bijection
<1>4. Pbufs(S, A) = B \cup C
  BY DEF Pbufs, n
<1>5. B \cap C = {}
  BY DEF Pbufs
<1>6. IsFiniteSet(C) /\ IsFiniteSet(Pbufs(S, A))
  BY PbufsFinite
<1>7. Cardinality(C) \in Nat /\ Cardinality(Pbufs(S, A)) \in Nat
  BY <1>6, FS_CardinalityType
<1> HIDE DEF B, C
<1>8. Cardinality(Pbufs(S, A)) = n + Cardinality(C)
  <2>1. Cardinality({}) = 0 BY FS_EmptySet
  <2>2. Cardinality(B \cup C) = Cardinality(B) + Cardinality(C) - Cardinality(B \cap C) BY <1>3, <1>6, FS_Union
  <2>3. PICK c \in Nat : c = Cardinality(C) BY <1>7
  <2>4. Cardinality(B \cup C) = n + c - 0 BY <1>3, <1>5, <2>1, <2>2, <2>3
  <2> QED BY <1>1, <1>4, <2>3, <2>4
<1> QED BY <1>1, <1>7, <1>8 DEF n, C

LEMMA HeldIs ==
    ASSUME NEW S, S.data \in [Struct -> Datum], NEW e \in Struct
    PROVE  Held(S) \in Nat /\ Len(S.data[e].p) \in Nat /\ Len(S.data[e].p) <= Held(S)
<1>1. Len(S.data[e].p) \in Nat
  BY DatumIs
<1>2. /\ Held(S) \in Nat /\ Cardinality(Pbufs(S, Struct \ {e})) \in Nat
      /\ Held(S) = Cardinality(Pbufs(S, Struct \ {e})) + Len(S.data[e].p)
  BY PbufsSplit DEF Held
<1> QED BY ONLY <1>1, <1>2

LEMMA HeldChanges ==
    ASSUME NEW S, S.data \in [Struct -> Datum], NEW T, T.data \in [Struct -> Datum], NEW e \in Struct,
           \A x \in Struct : x # e => T.data[x].p = S.data[x].p
    PROVE  Held(T) = Held(S) - Len(S.data[e].p) + Len(T.data[e].p)
<1>1. Pbufs(T, Struct \ {e}) = Pbufs(S, Struct \ {e})
  BY DEF Pbufs
<1>2. Len(S.data[e].p) \in Nat /\ Len(T.data[e].p) \in Nat
  BY DatumIs
<1>3. /\ Held(S) \in Nat /\ Cardinality(Pbufs(S, Struct \ {e})) \in Nat
      /\ Held(S) = Cardinality(Pbufs(S, Struct \ {e})) + Len(S.data[e].p)
  BY PbufsSplit DEF Held
<1>4. Held(T) = Cardinality(Pbufs(T, Struct \ {e})) + Len(T.data[e].p)
  BY PbufsSplit DEF Held
<1> QED BY <1>1, <1>2, <1>3, <1>4

LEMMA HeldSame ==
    ASSUME NEW S, NEW T, \A x \in Struct : T.data[x].p = S.data[x].p
    PROVE  Held(T) = Held(S)
<1>1. Pbufs(T, Struct) = Pbufs(S, Struct)
  BY DEF Pbufs
<1> QED BY <1>1 DEF Held

----------------------------------------------------------------------------
(* What a fragment makes of the books, whatever the pointers are. *)

\* The count less what it counts stays.
SameDue(S, T) == T.count - Held(T) = S.count - Held(S)

\* T is S after ip_reass_free_complete_datagram of e.
Frees(S, e, before, T) ==
    /\ T \in Book /\ T.pool = e /\ T.head = IF S.head = e THEN S.next[e] ELSE S.head
    /\ T.data[e] = Unused /\ \A x \in Struct : x # e => T.data[x] = S.data[x]
    /\ T.next[e] = S.pool /\ (S.head # e /\ before # e => T.next[before] = S.next[e])
    /\ \A x \in Struct : x # e /\ (S.head = e \/ x # before) => T.next[x] = S.next[x]
    /\ T.count = S.count - Len(S.data[e].p) /\ T.count <= S.count
    /\ SameDue(S, T)

LEMMA FreedBook ==
    ASSUME NEW S \in Book, NEW e \in Struct, NEW before, S.head # e => before \in Struct,
           NEW T, T = FreeComplete(S, e, before)
    PROVE  Frees(S, e, before, T)
<1> DEFINE U == Unlink(S, e, before)
           V == Release(U, e)
<1>1. /\ S.data \in [Struct -> Datum] /\ S.count \in Int /\ S.next \in Links /\ S.pool \in Ptr /\ S.head \in Ptr
      /\ S.next[e] \in Ptr
  BY DEF Book, Links
<1>2. Len(S.data[e].p) \in Nat
  BY <1>1, DatumIs
<1>3. /\ U \in Book /\ U.pool = S.pool /\ U.count = S.count /\ U.data = S.data
      /\ S.head = e => U.head = S.next[e] /\ U.next = S.next
      /\ S.head # e => U.head = S.head /\ U.next = [S.next EXCEPT ![before] = S.next[e]]
  BY <1>1 DEF Unlink, Book, Links
<1> HIDE DEF U
<1>4. /\ V \in Book
      /\ V.head = U.head /\ V.pool = e /\ V.count = U.count /\ V.data = [U.data EXCEPT ![e] = Unused]
      /\ V.next = [U.next EXCEPT ![e] = U.pool]
  <2>1. Unused \in Datum BY SizeAssumption DEF Unused, Datum
  <2>2. U.pool \in Ptr /\ U.next \in Links BY <1>3 DEF Book
  <2> QED BY <1>3, <2>1, <2>2 DEF Book, Release, Ptr, Links
<1>5. T = [V EXCEPT !.count = @ - Len(S.data[e].p)]
  BY DEF FreeComplete, U
<1> HIDE DEF V
<1>6. /\ T \in Book
      /\ T.head = V.head /\ T.pool = V.pool /\ T.count = V.count - Len(S.data[e].p) /\ T.data = V.data /\ T.next = V.next
  BY <1>1, <1>2, <1>3, <1>4, <1>5 DEF Book
<1>7. T.data = [S.data EXCEPT ![e] = Unused] /\ T.data[e] = Unused /\ T.data \in [Struct -> Datum]
  BY <1>1, <1>3, <1>4, <1>6 DEF Book
<1>8. SameDue(S, T) /\ T.count <= S.count
  <2>1. Len(T.data[e].p) = 0 BY <1>7 DEF Unused
  <2>2. \A x \in Struct : x # e => T.data[x].p = S.data[x].p BY <1>1, <1>7
  <2>3. Held(T) = Held(S) - Len(S.data[e].p) + Len(T.data[e].p) BY <1>1, <1>7, <2>2, HeldChanges
  <2>4. Held(S) \in Nat BY <1>1, HeldIs
  <2>5. T.count = S.count - Len(S.data[e].p) BY <1>3, <1>4, <1>6
  <2>6. PICK h \in Nat : h = Held(S) BY <2>4
  <2>7. PICK c \in Nat : c = Len(S.data[e].p) BY <1>2
  <2>8. Held(T) = h - c BY <2>1, <2>3, <2>6, <2>7
  <2>9. T.count = S.count - c BY <2>5, <2>7
  <2> QED BY ONLY <1>1, <2>6, <2>8, <2>9 DEF SameDue
<1>9. /\ T.next[e] = S.pool /\ (S.head # e /\ before # e => T.next[before] = S.next[e])
      /\ \A x \in Struct : x # e /\ (S.head = e \/ x # before) => T.next[x] = S.next[x]
  <2>1. \A x \in Struct : U.next[x] = IF S.head # e /\ x = before THEN S.next[e] ELSE S.next[x] BY <1>1, <1>3 DEF Links
  <2>2. \A x \in Struct : V.next[x] = IF x = e THEN U.pool ELSE U.next[x] BY <1>3, <1>4 DEF Book, Links
  <2> QED BY <1>3, <1>6, <2>1, <2>2
<1>10. \A x \in Struct : x # e => T.data[x] = S.data[x]
  BY <1>1, <1>7
<1> QED BY <1>3, <1>4, <1>6, <1>7, <1>8, <1>9, <1>10 DEF Frees

\* The oldest has a structure before it, if it is not the first.
LEMMA RemovedBook ==
    ASSUME NEW S \in Book, NEW d, Oldest(S, d) # Null
    PROVE  Oldest(S, d) \in Struct /\ (S.head # Oldest(S, d) => BeforeLast(S) \in Struct)
<1>1. PICK n \in 0 .. N + 1 :
        /\ List(S) \in [1 .. n -> Struct] /\ Len(List(S)) = n
        /\ S.head = IF n = 0 THEN Null ELSE List(S)[1]
  BY ListIs
<1>2. n \in Nat BY SizeOfStruct
<1>3. PICK k \in 1 .. n : Oldest(S, d) = List(S)[k]
  <2>1. /\ n \in Nat /\ Len(List(S)) = n /\ List(S) \in [1 .. n -> Struct] BY <1>1, <1>2
  <2>2. Oldest(S, d) = Null \/ \E k \in 1 .. n : Oldest(S, d) = List(S)[k] BY ONLY <2>1, S \in Book, OldestIs
  <2> QED BY <2>2
<1>4. ASSUME S.head # Oldest(S, d) PROVE BeforeLast(S) \in Struct
  <2>1. k # 1 /\ n >= 2 /\ ~(n < 2) /\ n - 1 \in 1 .. n BY <1>1, <1>2, <1>3, <1>4
  <2> QED BY <1>1, <2>1 DEF BeforeLast
<1> QED BY <1>1, <1>3, <1>4

LEMMA EnqueuedBook ==
    ASSUME NEW S \in Book, S.pool \in Struct, S.data[S.pool] = Unused, NEW d \in Datagrams
    PROVE  LET T == Enqueue(S, d)
               e == S.pool
           IN  /\ T \in Book /\ T.head = e /\ T.pool = S.next[e] /\ T.count = S.count
               /\ T.data = [S.data EXCEPT ![e] = [Unused EXCEPT !.d = d, !.timer = MaxAge]]
               /\ T.data[e].d = d /\ T.data[e].p = <<>> /\ T.data[e].last = FALSE /\ T.data[e].timer = MaxAge
               /\ T.next = [S.next EXCEPT ![e] = S.head]
               /\ SameDue(S, T)
<1> DEFINE T == Enqueue(S, d)
           e == S.pool
           new == [Unused EXCEPT !.d = d, !.timer = MaxAge]
<1>1. /\ S.data \in [Struct -> Datum] /\ S.count \in Int /\ S.next \in Links /\ S.head \in Ptr /\ S.next[e] \in Ptr
  BY DEF Book, Links
<1>2. new \in Datum /\ new.d = d /\ new.p = <<>> /\ new.last = FALSE /\ new.timer = MaxAge
  <2>1. Unused \in Datum /\ Unused.p = <<>> /\ Unused.last = FALSE BY SizeAssumption DEF Unused, Datum
  <2>2. MaxAge \in 0 .. MaxAge BY SizeAssumption
  <2>3. \A u \in Datum, a \in 0 .. MaxAge :
          LET v == [u EXCEPT !.d = d, !.timer = a]
          IN  v \in Datum /\ v.d = d /\ v.p = u.p /\ v.last = u.last /\ v.timer = a
    BY DEF Datum
  <2> QED BY <2>1, <2>2, <2>3
<1> HIDE DEF new
<1>3. /\ T \in Book /\ T.head = e /\ T.pool = S.next[e] /\ T.count = S.count
      /\ T.data = [S.data EXCEPT ![e] = new]
      /\ T.next = [S.next EXCEPT ![e] = S.head]
  BY <1>1, <1>2 DEF Book, Enqueue, Ptr, Links, new
<1> HIDE DEF T
<1>4. T.data[e] = new /\ T.data \in [Struct -> Datum]
  BY <1>1, <1>3 DEF Book
<1>5. SameDue(S, T)
  <2>1. \A x \in Struct : x # e => T.data[x] = S.data[x] BY <1>1, <1>3
  <2>2. S.data[e].p = <<>> BY DEF Unused
  <2>3. \A x \in Struct : T.data[x].p = S.data[x].p BY <1>2, <1>4, <2>1, <2>2
  <2>4. Held(T) = Held(S) BY <2>3, HeldSame
  <2> QED BY <1>3, <2>4 DEF SameDue
<1> QED BY <1>2, <1>3, <1>4, <1>5 DEF T, new
\* Fragment f of datagram d in the structure e = List(S)[k]: what Add does.
Before(S, k) == IF k = 1 THEN Null ELSE List(S)[k - 1]

Refuses(S, e, f) ==
    /\ Refused(S.data[e].p, f)
    /\ reass' = [S EXCEPT !.data[e].last = S.data[e].last \/ f.to = Length]
    /\ out' = NoOut

Completes(S, k, d, f) ==
    LET e == List(S)[k]
        q == Chained(S.data[e].p, f)
    IN  /\ ~Refused(S.data[e].p, f)
        /\ Valid(q, Met(S.data[e].p, f) + 1, S.data[e].last \/ f.to = Length)
        /\ reass' = FreeComplete(S, e, Before(S, k))
        /\ out' = [d |-> d, p |-> q, by |-> f]

Keeps(S, e, f) ==
    /\ ~Refused(S.data[e].p, f)
    /\ reass' = [S EXCEPT !.data[e].p = Chained(S.data[e].p, f),
                          !.data[e].last = S.data[e].last \/ f.to = Length, !.count = @ + 1]
    /\ out' = NoOut

LEMMA AddIs ==
    ASSUME NEW S \in Book, NEW d, Place(S, d) # 0, NEW f \in Frags, Add(S, d, f)
    PROVE  \E n \in 0 .. N + 1 : \E k \in 1 .. n : \E e \in Struct :
             /\ n \in Nat /\ List(S) \in [1 .. n -> Struct] /\ Len(List(S)) = n
             /\ S.head = List(S)[1]
             /\ \A i \in 1 .. n : i # n => S.next[List(S)[i]] = List(S)[i + 1]
             /\ e = List(S)[k] /\ S.data[e].d = d
             /\ \A i \in 1 .. n : i < k => S.data[List(S)[i]].d # d
             /\ Refuses(S, e, f) \/ Completes(S, k, d, f) \/ Keeps(S, e, f)
<1> DEFINE k == Place(S, d)
           e == List(S)[k]
<1>1. PICK n \in 0 .. N + 1 :
        /\ List(S) \in [1 .. n -> Struct] /\ Len(List(S)) = n
        /\ S.head = IF n = 0 THEN Null ELSE List(S)[1]
        /\ \A i \in 1 .. n : i # n => S.next[List(S)[i]] = List(S)[i + 1]
  BY ListIs
<1>2. n \in Nat BY SizeOfStruct
<1>3. /\ k \in 0 .. n
      /\ k # 0 => S.data[List(S)[k]].d = d /\ \A i \in 1 .. n : i < k => S.data[List(S)[i]].d # d
  BY <1>1, <1>2, PlaceIs
<1>4. Refuses(S, e, f) \/ Completes(S, k, d, f) \/ Keeps(S, e, f)
  BY DEF Add, Refuses, Completes, Keeps, Before
<1> HIDE DEF k
<1>5. k # 0
  BY DEF k
<1>6. k \in 1 .. n /\ n # 0
  BY <1>2, <1>3, <1>5
<1>7. e \in Struct
  BY <1>1, <1>6
<1> QED BY <1>1, <1>2, <1>3, <1>4, <1>5, <1>6, <1>7

LEMMA RefusesBook ==
    ASSUME NEW S \in Book, NEW e \in Struct, NEW f \in Frags, Refuses(S, e, f)
    PROVE  LET last == S.data[e].last \/ f.to = Length
           IN  /\ reass' \in Book
               /\ reass'.head = S.head /\ reass'.pool = S.pool /\ reass'.next = S.next /\ reass'.count = S.count
               /\ reass'.data = [S.data EXCEPT ![e].last = last]
               /\ \A x \in Struct : x # e => reass'.data[x] = S.data[x]
               /\ reass'.data[e].last = last /\ reass'.data[e].p = S.data[e].p
               /\ reass'.data[e].d = S.data[e].d /\ reass'.data[e].timer = S.data[e].timer
               /\ SameDue(S, reass')
<1> DEFINE last == S.data[e].last \/ f.to = Length
           x == [S.data[e] EXCEPT !.last = last]
<1>1. S.data[e] \in Datum /\ S.data \in [Struct -> Datum] BY DEF Book
<1>2. last \in BOOLEAN BY <1>1 DEF Datum
<1>3. x \in Datum /\ x.last = last /\ x.p = S.data[e].p /\ x.d = S.data[e].d /\ x.timer = S.data[e].timer
  BY <1>1, <1>2 DEF Datum
<1>4. reass' = [S EXCEPT !.data = [S.data EXCEPT ![e] = x]] /\ [S.data EXCEPT ![e].last = last] = [S.data EXCEPT ![e] = x]
  BY DEF Refuses
<1> HIDE DEF x, last
<1>5. /\ reass' \in Book
      /\ reass'.head = S.head /\ reass'.pool = S.pool /\ reass'.next = S.next /\ reass'.count = S.count
      /\ reass'.data = [S.data EXCEPT ![e] = x]
  BY <1>1, <1>3, <1>4 DEF Book
<1>6. reass'.data[e] = x /\ \A y \in Struct : y # e => reass'.data[y] = S.data[y]
  BY <1>1, <1>5
<1>7. SameDue(S, reass')
  <2>1. \A y \in Struct : reass'.data[y].p = S.data[y].p BY <1>3, <1>6
  <2>2. Held(reass') = Held(S) BY <2>1, HeldSame
  <2> QED BY <1>5, <2>2 DEF SameDue
<1> QED BY <1>3, <1>4, <1>5, <1>6, <1>7 DEF last

LEMMA KeepsBook ==
    ASSUME NEW S \in Book, NEW e \in Struct, NEW f \in Frags, Keeps(S, e, f)
    PROVE  LET last == S.data[e].last \/ f.to = Length
           IN  /\ reass' \in Book
               /\ reass'.head = S.head /\ reass'.pool = S.pool /\ reass'.next = S.next /\ reass'.count = S.count + 1
               /\ \A x \in Struct : x # e => reass'.data[x] = S.data[x]
               /\ reass'.data[e].last = last /\ reass'.data[e].p = Chained(S.data[e].p, f)
               /\ reass'.data[e].d = S.data[e].d /\ reass'.data[e].timer = S.data[e].timer
               /\ SameDue(S, reass')
<1> DEFINE last == S.data[e].last \/ f.to = Length
           p == S.data[e].p
           q == Chained(p, f)
           x == [S.data[e] EXCEPT !.p = q, !.last = last]
<1>1. /\ S.data[e] \in Datum /\ S.data \in [Struct -> Datum] /\ S.count \in Int
      /\ p \in Seq(Frags) /\ Len(p) \in Nat
  <2>1. S.data \in [Struct -> Datum] /\ S.count \in Int BY DEF Book
  <2> QED BY <2>1, DatumIs
<1>2. last \in BOOLEAN BY <1>1 DEF Datum
<1>3. q \in Seq(Frags) /\ Len(q) = Len(p) + 1
  <2> HIDE DEF p
  <2>1. Met(p, f) \in 0 .. Len(p) BY <1>1, MetIs
  <2> QED BY <1>1, <2>1, ChainedIs
<1>4. reass' = [S EXCEPT !.data[e].p = q, !.data[e].last = last, !.count = @ + 1]
  BY DEF Keeps
<1> HIDE DEF q, last, p
<1>5. x \in Datum /\ x.last = last /\ x.p = q /\ x.d = S.data[e].d /\ x.timer = S.data[e].timer
  BY <1>1, <1>2, <1>3 DEF Datum
<1>6. reass' = [S EXCEPT !.data = [S.data EXCEPT ![e] = x], !.count = S.count + 1]
  <2>1. [[S.data EXCEPT ![e].p = q] EXCEPT ![e].last = last] = [S.data EXCEPT ![e] = x] BY <1>1
  <2>2. [S EXCEPT !.data[e].p = q, !.data[e].last = last, !.count = @ + 1]
          = [S EXCEPT !.data = [[S.data EXCEPT ![e].p = q] EXCEPT ![e].last = last], !.count = S.count + 1]
    BY DEF Book
  <2> HIDE DEF x
  <2> QED BY <1>4, <2>1, <2>2
<1> HIDE DEF x
<1>7. /\ reass' \in Book
      /\ reass'.head = S.head /\ reass'.pool = S.pool /\ reass'.next = S.next /\ reass'.count = S.count + 1
      /\ reass'.data = [S.data EXCEPT ![e] = x]
  <2> DEFINE D == [S.data EXCEPT ![e] = x]
  <2>1. D \in [Struct -> Datum] BY <1>1, <1>5
  <2>2. S.count + 1 \in Int BY <1>1
  <2>3. reass' = [S EXCEPT !.data = D, !.count = S.count + 1] BY <1>6
  <2> HIDE DEF D
  <2>4. /\ reass' \in Book
        /\ reass'.head = S.head /\ reass'.pool = S.pool /\ reass'.next = S.next /\ reass'.count = S.count + 1
        /\ reass'.data = D
    BY <2>1, <2>2, <2>3 DEF Book
  <2> QED BY <2>4 DEF D
<1>8. reass'.data[e] = x /\ (\A y \in Struct : y # e => reass'.data[y] = S.data[y]) /\ reass'.data \in [Struct -> Datum]
  BY <1>1, <1>7 DEF Book
<1>9. SameDue(S, reass')
  <2>1. \A y \in Struct : y # e => reass'.data[y].p = S.data[y].p BY <1>8
  <2>2. Held(reass') = Held(S) - Len(S.data[e].p) + Len(reass'.data[e].p) BY <1>1, <1>8, <2>1, HeldChanges
  <2>3. Len(S.data[e].p) = Len(p) /\ Len(reass'.data[e].p) = Len(p) + 1 BY <1>3, <1>5, <1>8 DEF p
  <2>4. Held(S) \in Nat BY <1>1, HeldIs
  <2>5. PICK h \in Nat : h = Held(S) BY <2>4
  <2>6. PICK c \in Nat : c = Len(p) BY <1>1
  <2>7. Held(reass') = h - c + (c + 1) BY <2>2, <2>3, <2>5, <2>6
  <2> QED BY ONLY <1>1, <1>7, <2>5, <2>7 DEF SameDue
<1> QED BY <1>5, <1>7, <1>8, <1>9 DEF last, p, q
LEMMA CompletesBook ==
    ASSUME NEW S \in Book, NEW n \in Nat, NEW k \in 1 .. n, List(S) \in [1 .. n -> Struct], S.head = List(S)[1],
           NEW e, e = List(S)[k], NEW d, NEW f, Completes(S, k, d, f)
    PROVE  /\ e \in Struct /\ (S.head # e => Before(S, k) \in Struct /\ k # 1 /\ k - 1 \in 1 .. n /\ Before(S, k) = List(S)[k - 1])
           /\ Frees(S, e, Before(S, k), reass')
<1> DEFINE b == Before(S, k)
<1>1. e \in Struct /\ reass' = FreeComplete(S, e, b)
  BY DEF Completes
<1>2. S.head # e => b \in Struct /\ k # 1 /\ k - 1 \in 1 .. n /\ b = List(S)[k - 1]
  <2>1. k # 1 => k - 1 \in 1 .. n OBVIOUS
  <2> QED BY <2>1 DEF Before
<1> HIDE DEF b
<1>3. S.head # e => b \in Struct
  BY <1>2
<1>4. PICK T : T = reass'
  OBVIOUS
<1>5. e \in Struct /\ T = FreeComplete(S, e, b)
  BY <1>1, <1>4
<1>6. Frees(S, e, b, T)
  BY ONLY S \in Book, <1>3, <1>5, FreedBook
<1> QED BY <1>1, <1>2, <1>4, <1>6 DEF b

\* Add keeps the books whatever the pointers are.
LEMMA AddBook ==
    ASSUME NEW S \in Book, NEW d, Place(S, d) # 0, NEW f \in Frags, Add(S, d, f)
    PROVE  reass' \in Book /\ SameDue(S, reass') /\ reass'.count <= S.count + 1
<1>0. PICK n \in 0 .. N + 1 : \E k \in 1 .. n : \E e \in Struct :
        /\ n \in Nat /\ List(S) \in [1 .. n -> Struct] /\ S.head = List(S)[1] /\ e = List(S)[k]
        /\ Refuses(S, e, f) \/ Completes(S, k, d, f) \/ Keeps(S, e, f)
  BY AddIs
<1>1. PICK k \in 1 .. n, e \in Struct :
        /\ n \in Nat /\ List(S) \in [1 .. n -> Struct] /\ S.head = List(S)[1] /\ e = List(S)[k]
        /\ Refuses(S, e, f) \/ Completes(S, k, d, f) \/ Keeps(S, e, f)
  BY <1>0
<1>2. S.count \in Int BY DEF Book
<1>3. CASE Refuses(S, e, f)
  <2>1. reass' \in Book /\ SameDue(S, reass') /\ reass'.count = S.count BY <1>3, RefusesBook
  <2> QED BY <1>2, <2>1
<1>4. CASE Completes(S, k, d, f)
  <2>1. reass' \in Book /\ SameDue(S, reass') /\ reass'.count <= S.count
    <3>1. Frees(S, e, Before(S, k), reass') BY <1>1, <1>4, CompletesBook
    <3> QED BY <3>1 DEF Frees
  <2>2. reass'.count \in Int BY <2>1 DEF Book
  <2> QED BY <1>2, <2>1, <2>2
<1>5. CASE Keeps(S, e, f)
  <2>1. reass' \in Book /\ SameDue(S, reass') /\ reass'.count = S.count + 1 BY <1>5, KeepsBook
  <2> QED BY <1>2, <2>1
<1> QED BY <1>1, <1>3, <1>4, <1>5

LEMMA DoubledTwice ==
    ASSUME NEW S, NEW X, Doubled(S, X)
    PROVE  Twice(S, X)
BY DEF Doubled, Twice

\* Where two pointers lead to one structure, whatever a fragment does leaves
\* two that do.
LEMMA DoubledAdd ==
    ASSUME NEW S \in Book, NEW X, X \subseteq Struct, Doubled(S, X),
           NEW d \in Datagrams, Place(S, d) # 0, NEW f \in Frags, Add(S, d, f)
    PROVE  Twice(reass', X)
<1> DEFINE t == S.pool
<1>1. /\ Shut(S, X) /\ t \in Struct /\ S.data[t] = Unused
      /\ S.next \in Links /\ S.data \in [Struct -> Datum]
  BY DEF Doubled, Book
<1>2. PICK x \in Struct \ X : x # t /\ S.next[x] = t
  BY DEF Doubled
<1>0. PICK n \in 0 .. N + 1 : \E k \in 1 .. n : \E e \in Struct :
        /\ n \in Nat /\ List(S) \in [1 .. n -> Struct] /\ S.head = List(S)[1]
        /\ \A i \in 1 .. n : i # n => S.next[List(S)[i]] = List(S)[i + 1]
        /\ e = List(S)[k] /\ S.data[e].d = d
        /\ \A i \in 1 .. n : i < k => S.data[List(S)[i]].d # d
        /\ Refuses(S, e, f) \/ Completes(S, k, d, f) \/ Keeps(S, e, f)
  BY AddIs
<1>3. PICK k \in 1 .. n, e \in Struct :
        /\ n \in Nat /\ List(S) \in [1 .. n -> Struct] /\ S.head = List(S)[1]
        /\ \A i \in 1 .. n : i # n => S.next[List(S)[i]] = List(S)[i + 1]
        /\ e = List(S)[k] /\ S.data[e].d = d
        /\ \A i \in 1 .. n : i < k => S.data[List(S)[i]].d # d
        /\ Refuses(S, e, f) \/ Completes(S, k, d, f) \/ Keeps(S, e, f)
  BY <1>0
<1>4. e # t
  BY <1>1, <1>3, DatagramAssumption DEF Unused
<1>5. CASE Refuses(S, e, f) \/ Keeps(S, e, f)
  <2>1. reass'.head = S.head /\ reass'.pool = S.pool /\ reass'.next = S.next
    BY <1>5, RefusesBook, KeepsBook
  <2> QED BY <1>1, <1>2, <2>1 DEF Twice
<1>6. CASE Completes(S, k, d, f)
  <2>1. /\ (S.head # e => Before(S, k) \in Struct /\ k # 1 /\ k - 1 \in 1 .. n /\ Before(S, k) = List(S)[k - 1])
        /\ reass'.pool = e
        /\ reass'.head = (IF S.head = e THEN S.next[e] ELSE S.head)
        /\ reass'.next[e] = t /\ (S.head # e /\ Before(S, k) # e => reass'.next[Before(S, k)] = S.next[e])
        /\ \A y \in Struct : y # e /\ (S.head = e \/ y # Before(S, k)) => reass'.next[y] = S.next[y]
    <3>1. n \in Nat /\ List(S) \in [1 .. n -> Struct] /\ S.head = List(S)[1] /\ e = List(S)[k] BY <1>3
    <3> HIDE DEF t
    <3>2. /\ (S.head # e => Before(S, k) \in Struct /\ k # 1 /\ k - 1 \in 1 .. n /\ Before(S, k) = List(S)[k - 1])
          /\ Frees(S, e, Before(S, k), reass')
      BY ONLY S \in Book, k \in 1 .. n, <3>1, <1>6, CompletesBook
    <3> QED BY <3>2 DEF t, Frees
  <2>2. e \notin X
    <3>1. ToSet(List(S)) \subseteq Struct \ X
      <4>1. S.head \in (Struct \ X) \cup {Null} /\ \A y \in Struct \ X : S.next[y] \in (Struct \ X) \cup {Null}
        BY <1>1 DEF Shut, Book, Links, Ptr
      <4> QED BY <1>1, <4>1, ChainStays DEF List
    <3>2. DOMAIN List(S) = 1 .. n BY <1>3
    <3>3. List(S)[k] \in ToSet(List(S)) BY <3>2 DEF ToSet
    <3> QED BY <1>3, <3>1, <3>3
  <2>3. CASE S.head = e
    <3>1. reass'.next[e] = t /\ (\A y \in Struct : y # e => reass'.next[y] = S.next[y]) BY <1>1, <1>3, <2>1, <2>3
    <3>2. CASE x = e
      <4>1. reass'.head = t BY <1>2, <2>1, <2>3, <3>2
      <4> QED BY <1>1, <2>2, <3>1, <4>1 DEF Twice
    <3>3. CASE x # e
      <4>1. reass'.next[x] = t BY <1>2, <3>1, <3>3
      <4> QED BY <1>1, <1>2, <2>2, <3>1, <3>3, <4>1 DEF Twice
    <3> QED BY <3>2, <3>3
  <2>4. CASE S.head # e
    <3> DEFINE b == Before(S, k)
    <3>1. b \in Struct /\ S.next[b] = e /\ b # e /\ b \notin X
      <4>1. k - 1 \in 1 .. n /\ k - 1 < k /\ k - 1 # n /\ k - 1 + 1 = k /\ k - 1 \in Nat BY <1>3, <2>1, <2>4
      <4>2. S.next[List(S)[k - 1]] = List(S)[k] /\ S.data[List(S)[k - 1]].d # d BY <1>3, <4>1
      <4>3. DOMAIN List(S) = 1 .. n BY <1>3
      <4>4. List(S)[k - 1] \in ToSet(List(S)) BY <4>1, <4>3 DEF ToSet
      <4>5. ToSet(List(S)) \subseteq Struct \ X
        <5>1. S.head \in (Struct \ X) \cup {Null} /\ \A y \in Struct \ X : S.next[y] \in (Struct \ X) \cup {Null}
          BY <1>1 DEF Shut, Book, Links, Ptr
        <5> QED BY <1>1, <5>1, ChainStays DEF List
      <4> QED BY <1>3, <2>1, <2>4, <4>2, <4>4, <4>5
    <3> HIDE DEF b
    <3>2. /\ reass'.next[e] = t /\ reass'.next[b] = S.next[e]
          /\ \A y \in Struct : y # e /\ y # b => reass'.next[y] = S.next[y]
      <4>1. /\ reass'.next[e] = t /\ (b # e => reass'.next[b] = S.next[e])
            /\ \A y \in Struct : y # e /\ y # b => reass'.next[y] = S.next[y] BY <2>1, <2>4 DEF b
      <4> QED BY <1>3, <3>1, <4>1
    <3>3. CASE x = e
      <4>1. reass'.next[b] = t BY <1>2, <3>2, <3>3
      <4> QED BY <1>1, <2>2, <3>1, <3>2, <4>1 DEF Twice
    <3>4. CASE x # e
      <4>1. x # b BY <1>2, <1>4, <3>1
      <4>2. reass'.next[x] = t BY <1>2, <3>2, <3>4, <4>1
      <4> QED BY <1>1, <1>2, <2>2, <3>2, <3>4, <4>2 DEF Twice
    <3> QED BY <3>3, <3>4
  <2> QED BY <2>3, <2>4
<1> QED BY <1>3, <1>5, <1>6

LEMMA DoubledEnqueue ==
    ASSUME NEW S \in Book, NEW X, X \subseteq Struct, Doubled(S, X), NEW d \in Datagrams
    PROVE  Twice(Enqueue(S, d), X)
<1> DEFINE T == Enqueue(S, d)
           t == S.pool
<1>1. t \in Struct /\ S.data[t] = Unused /\ S.next \in Links
  BY DEF Doubled, Book
<1>2. PICK x \in Struct \ X : x # t /\ S.next[x] = t
  BY DEF Doubled
<1>3. T.head = t /\ T.next = [S.next EXCEPT ![t] = S.head]
  BY <1>1, EnqueuedBook
<1> HIDE DEF T
<1>4. T.next[x] = t BY <1>1, <1>2, <1>3 DEF Links
<1> QED BY <1>1, <1>2, <1>3, <1>4 DEF Twice, T

LEMMA DoubledEnqueueAdd ==
    ASSUME NEW S \in Book, NEW X, X \subseteq Struct, Doubled(S, X), NEW d \in Datagrams,
           NEW T, T = Enqueue(S, d), Place(T, d) # 0, NEW f \in Frags, Add(T, d, f)
    PROVE  Twice(reass', X)
<1> DEFINE t == S.pool
<1>1. t \in Struct /\ S.data[t] = Unused /\ S.next \in Links
  BY DEF Doubled, Book
<1>2. PICK x \in Struct \ X : x # t /\ S.next[x] = t
  BY DEF Doubled
<1>3. T \in Book /\ T.head = t /\ T.pool = S.next[t] /\ T.data[t].d = d /\ T.next = [S.next EXCEPT ![t] = S.head]
  BY <1>1, EnqueuedBook
<1>4. T.next[x] = t /\ T.next \in Links BY <1>1, <1>2, <1>3 DEF Links, Book
<1>0. PICK n \in 0 .. N + 1 : \E k \in 1 .. n : \E e \in Struct :
        /\ n \in Nat /\ List(T) \in [1 .. n -> Struct] /\ T.head = List(T)[1]
        /\ e = List(T)[k]
        /\ \A i \in 1 .. n : i < k => T.data[List(T)[i]].d # d
        /\ Refuses(T, e, f) \/ Completes(T, k, d, f) \/ Keeps(T, e, f)
  BY <1>3, AddIs
<1>5. PICK k \in 1 .. n, e \in Struct :
        /\ n \in Nat /\ List(T) \in [1 .. n -> Struct] /\ T.head = List(T)[1]
        /\ e = List(T)[k]
        /\ \A i \in 1 .. n : i < k => T.data[List(T)[i]].d # d
        /\ Refuses(T, e, f) \/ Completes(T, k, d, f) \/ Keeps(T, e, f)
  BY <1>0
<1>6. e = t
  <2>1. 1 \in 1 .. n /\ ~(1 < k) BY <1>3, <1>5
  <2>2. k = 1 BY <1>5, <2>1
  <2> QED BY <1>3, <1>5, <2>2
<1>7. CASE Refuses(T, e, f) \/ Keeps(T, e, f)
  <2>1. reass'.head = T.head /\ reass'.pool = T.pool /\ reass'.next = T.next
    BY <1>3, <1>7, RefusesBook, KeepsBook
  <2> QED BY <1>1, <1>2, <1>3, <1>4, <2>1 DEF Twice
<1>8. CASE Completes(T, k, d, f)
  <2>1. reass'.pool = t /\ \A y \in Struct : y # t => reass'.next[y] = T.next[y]
    <3>1. n \in Nat /\ List(T) \in [1 .. n -> Struct] /\ T.head = List(T)[1] /\ e = List(T)[k] /\ T.head = e BY <1>3, <1>5, <1>6
    <3> HIDE DEF t
    <3>2. Frees(T, e, Before(T, k), reass')
      BY ONLY <1>3, k \in 1 .. n, <3>1, <1>8, CompletesBook
    <3> QED BY <1>6, <3>1, <3>2 DEF Frees
  <2>2. reass'.next[x] = t BY <1>2, <1>4, <2>1
  <2> QED BY <1>1, <1>2, <2>1, <2>2 DEF Twice
<1> QED BY <1>5, <1>7, <1>8
----------------------------------------------------------------------------
(* The order of the timers in the list. *)

\* None behind has more time left, but for one more behind y, where the main
\* loop has not been yet.
Sorted(time, l, n, y) ==
    \A i, j \in 1 .. n : i < j =>
        \/ time[l[j]] <= time[l[i]]
        \/ time[l[j]] <= time[l[i]] + 1 /\ \E c \in i + 1 .. j : l[c] = y

LEMMA SortedNone ==
    ASSUME NEW time, NEW n \in Nat, NEW l \in [1 .. n -> Struct], Sorted(time, l, n, Null), NEW y
    PROVE  Sorted(time, l, n, y)
<1> SUFFICES ASSUME NEW i \in 1 .. n, NEW j \in 1 .. n, i < j
             PROVE  time[l[j]] <= time[l[i]]
  BY DEF Sorted
<1>1. \A c \in i + 1 .. j : l[c] # Null
  BY SizeAssumption
<1> QED BY <1>1 DEF Sorted

LEMMA SortedSame ==
    ASSUME NEW time, NEW time2, NEW n \in Nat, NEW l, NEW y, Sorted(time, l, n, y),
           \A i \in 1 .. n : time2[l[i]] = time[l[i]]
    PROVE  Sorted(time2, l, n, y)
BY DEF Sorted

LEMMA SortedDrop ==
    ASSUME NEW time \in [Struct -> Nat], NEW n \in Nat, NEW l \in [1 .. n -> Struct], NEW y, Sorted(time, l, n, y),
           NEW k \in 1 .. n, l[k] # y \/ k = 1 \/ k = n
    PROVE  Sorted(time, Drop(l, n, k), n - 1, y)
<1> DEFINE t == Drop(l, n, k)
<1>1. \A i \in 1 .. n - 1 : t[i] = l[IF i < k THEN i ELSE i + 1]
  BY DEF Drop
<1> HIDE DEF t
<1> SUFFICES ASSUME NEW i \in 1 .. n - 1, NEW j \in 1 .. n - 1, i < j
             PROVE  \/ time[t[j]] <= time[t[i]]
                    \/ time[t[j]] <= time[t[i]] + 1 /\ \E c \in i + 1 .. j : t[c] = y
  BY DEF Sorted, t
<1>2. PICK u \in 1 .. n : u = (IF i < k THEN i ELSE i + 1) /\ t[i] = l[u]
  <2>1. (IF i < k THEN i ELSE i + 1) \in 1 .. n OBVIOUS
  <2> QED BY <1>1, <2>1
<1>3. PICK v \in 1 .. n : v = (IF j < k THEN j ELSE j + 1) /\ t[j] = l[v]
  <2>1. (IF j < k THEN j ELSE j + 1) \in 1 .. n OBVIOUS
  <2> QED BY <1>1, <2>1
<1>4. u < v
  BY <1>2, <1>3
<1>5. CASE time[l[v]] <= time[l[u]]
  BY <1>2, <1>3, <1>5
<1>6. CASE time[l[v]] <= time[l[u]] + 1 /\ \E c \in u + 1 .. v : l[c] = y
  <2>1. PICK c \in u + 1 .. v : l[c] = y
    BY <1>6
  <2>2. c \in 1 .. n /\ c # k
    <3>1. CASE l[k] # y BY <2>1, <3>1
    <3>2. CASE k = 1 BY <1>2, <3>2
    <3>3. CASE k = n BY <1>3, <3>3
    <3> QED BY <3>1, <3>2, <3>3
  <2>3. PICK b \in i + 1 .. j : b = (IF c < k THEN c ELSE c - 1) /\ c = (IF b < k THEN b ELSE b + 1)
    <3>1. (IF c < k THEN c ELSE c - 1) \in i + 1 .. j BY <1>2, <1>3, <2>2
    <3> QED BY <2>2, <3>1
  <2>4. t[b] = y
    <3>1. b \in 1 .. n - 1 OBVIOUS
    <3> QED BY <1>1, <2>1, <2>3, <3>1
  <2> QED BY <1>2, <1>3, <1>6, <2>4
<1> QED BY <1>4, <1>5, <1>6 DEF Sorted

LEMMA SortedPush ==
    ASSUME NEW time \in [Struct -> Nat], NEW n \in Nat, NEW l \in [1 .. n -> Struct], NEW y, Sorted(time, l, n, y),
           NEW e \in Struct, \A i \in 1 .. n : time[l[i]] <= time[e]
    PROVE  Sorted(time, Push(e, l, n), n + 1, y)
<1> DEFINE t == Push(e, l, n)
<1>1. /\ t[1] = e
      /\ \A i \in 1 .. n : t[i + 1] = l[i]
      /\ \A i \in 1 .. n + 1 : i # 1 => i - 1 \in 1 .. n /\ t[i] = l[i - 1]
  BY Pushed
<1> HIDE DEF t
<1> SUFFICES ASSUME NEW i \in 1 .. n + 1, NEW j \in 1 .. n + 1, i < j
             PROVE  \/ time[t[j]] <= time[t[i]]
                    \/ time[t[j]] <= time[t[i]] + 1 /\ \E c \in i + 1 .. j : t[c] = y
  BY DEF Sorted, t
<1>2. CASE i = 1
  <2>1. j # 1 BY <1>2
  <2> QED BY <1>1, <1>2, <2>1
<1>3. CASE i # 1
  <2>1. /\ i - 1 \in 1 .. n /\ j - 1 \in 1 .. n /\ i - 1 < j - 1 /\ t[i] = l[i - 1] /\ t[j] = l[j - 1]
    BY <1>1, <1>3
  <2>2. CASE time[l[j - 1]] <= time[l[i - 1]]
    BY <2>1, <2>2
  <2>3. CASE time[l[j - 1]] <= time[l[i - 1]] + 1 /\ \E c \in (i - 1) + 1 .. j - 1 : l[c] = y
    <3>1. PICK c \in (i - 1) + 1 .. j - 1 : l[c] = y BY <2>3
    <3>2. c \in 1 .. n /\ c + 1 \in i + 1 .. j OBVIOUS
    <3>3. t[c + 1] = y BY <1>1, <3>1, <3>2
    <3> QED BY <2>1, <2>3, <3>2, <3>3
  <2> QED BY <2>1, <2>2, <2>3 DEF Sorted
<1> QED BY <1>2, <1>3

\* r->timer-- and r = r->next
LEMMA SortedAged ==
    ASSUME NEW time \in [Struct -> Nat], NEW n \in Nat, NEW l \in [1 .. n -> Struct],
           \A i, j \in 1 .. n : l[i] = l[j] => i = j,
           NEW c \in 1 .. n, Sorted(time, l, n, l[c]), time[l[c]] > 0,
           NEW time2, time2 = [time EXCEPT ![l[c]] = @ - 1],
           NEW z, c # n => z = l[c + 1]
    PROVE  Sorted(time2, l, n, z)
<1>1. /\ time2[l[c]] = time[l[c]] - 1
      /\ \A i \in 1 .. n : i # c => time2[l[i]] = time[l[i]]
  OBVIOUS
<1>2. \A i \in 1 .. n : time[l[i]] \in Nat
  OBVIOUS
<1> SUFFICES ASSUME NEW i \in 1 .. n, NEW j \in 1 .. n, i < j
             PROVE  \/ time2[l[j]] <= time2[l[i]]
                    \/ time2[l[j]] <= time2[l[i]] + 1 /\ \E b \in i + 1 .. j : l[b] = z
  BY DEF Sorted
<1>3. PICK ti, tj \in Nat : ti = time[l[i]] /\ tj = time[l[j]]
  BY <1>2
<1>4. tj <= ti \/ (tj <= ti + 1 /\ i < c /\ c <= j)
  <2>1. CASE tj <= ti BY <2>1
  <2>2. CASE ~(tj <= ti)
    <3>1. tj <= ti + 1 /\ \E b \in i + 1 .. j : l[b] = l[c] BY <1>3, <2>2 DEF Sorted
    <3>2. PICK b \in i + 1 .. j : l[b] = l[c] BY <3>1
    <3>3. b \in 1 .. n OBVIOUS
    <3>4. b = c BY <3>2, <3>3
    <3> QED BY <3>1, <3>4
  <2> QED BY <2>1, <2>2
<1>5. CASE i = c
  <2>1. c + 1 \in i + 1 .. j /\ l[c + 1] = z BY <1>5
  <2>2. time2[l[i]] = ti - 1 /\ time2[l[j]] = tj BY <1>1, <1>3, <1>5
  <2>3. tj <= ti - 1 + 1 BY <1>3, <1>4, <1>5
  <2> QED BY <2>1, <2>2, <2>3
<1>6. CASE j = c
  <2>1. time2[l[i]] = ti /\ time2[l[j]] = tj - 1 BY <1>1, <1>3, <1>6
  <2>2. tj - 1 <= ti BY <1>3, <1>4, <1>6
  <2> QED BY <2>1, <2>2
<1>7. CASE i < c /\ c < j
  <2>1. c + 1 \in i + 1 .. j /\ l[c + 1] = z BY <1>7
  <2>2. time2[l[i]] = ti /\ time2[l[j]] = tj BY <1>1, <1>3, <1>7
  <2>3. tj <= ti + 1 BY <1>3, <1>4
  <2> QED BY <2>1, <2>2, <2>3
<1>8. CASE c < i \/ j < c
  <2>1. time2[l[i]] = ti /\ time2[l[j]] = tj BY <1>1, <1>3, <1>8
  <2>2. tj <= ti BY <1>3, <1>4, <1>8
  <2> QED BY <2>1, <2>2
<1> QED BY <1>5, <1>6, <1>7, <1>8

\* r = r->next, when r has no time left
LEMMA SortedPassed ==
    ASSUME NEW time \in [Struct -> Nat], NEW n \in Nat, NEW l \in [1 .. n -> Struct],
           \A i, j \in 1 .. n : l[i] = l[j] => i = j,
           NEW c \in 1 .. n, Sorted(time, l, n, l[c]), time[l[c]] = 0,
           NEW z, c # n => z = l[c + 1]
    PROVE  Sorted(time, l, n, z)
<1>2. \A i \in 1 .. n : time[l[i]] \in Nat
  OBVIOUS
<1> SUFFICES ASSUME NEW i \in 1 .. n, NEW j \in 1 .. n, i < j, ~(time[l[j]] <= time[l[i]])
             PROVE  time[l[j]] <= time[l[i]] + 1 /\ \E b \in i + 1 .. j : l[b] = z
  BY DEF Sorted
<1>3. time[l[j]] <= time[l[i]] + 1 /\ \E b \in i + 1 .. j : l[b] = l[c]
  BY DEF Sorted
<1>4. PICK b \in i + 1 .. j : l[b] = l[c]
  BY <1>3
<1>5. b = c
  <2>1. b \in 1 .. n OBVIOUS
  <2> QED BY <1>4, <2>1
<1>6. j # c
  BY <1>2
<1>7. c + 1 \in i + 1 .. j /\ l[c + 1] = z
  BY <1>5, <1>6
<1> QED BY <1>3, <1>7
----------------------------------------------------------------------------
(* What holds of the structures as long as nothing is damaged. *)

Times(S) == [x \in Struct |-> S.data[x].timer]

Ascends(p) == \A i \in 1 .. Len(p) - 1 : p[i].from < p[i + 1].from

\* Where the last fragment begins has been passed.
Reached(p) == \E g \in Frags : g.to = Length /\ \E i \in 1 .. Len(p) : g.from < p[i].to

\* X is the structure that is being given back, Z the one whose fragments are
\* being freed, y the one where the main loop is.
Fine(S, X, Z, y) ==
    /\ S \in Book /\ X \subseteq Struct /\ SoundBut(S, X)
    /\ Sorted(Times(S), List(S), Len(List(S)), y)
    /\ \A e \in Struct : e \notin Listed(S) /\ e \notin X => S.data[e] = Unused
    /\ \A e \in Listed(S) : S.data[e].d \in Datagrams
    /\ \A e, g \in Listed(S) : S.data[e].d = S.data[g].d => e = g
    /\ \A e \in Struct : Ascends(S.data[e].p)
    /\ \A e \in Struct \ Z : S.data[e].last => Reached(S.data[e].p)

\* From S, with the structures A in its list, to T, with B: only those in C
\* are taken out or in, and of the others only fragments of d change.
Touches(S, A, T, B, d, C) ==
    /\ C \subseteq Struct
    /\ \A x \in B : x \in A \/ x \in C
    /\ \A x \in C : x \in B => T.data[x].timer = MaxAge
    /\ \A x \in Struct : x \notin C =>
         /\ T.data[x].timer = S.data[x].timer /\ T.data[x].d = S.data[x].d
         /\ T.data[x].p = S.data[x].p \/ (S.data[x].d = d /\ x \in A)
         /\ T.next[x] = S.next[x] \/ S.next[x] \in C

LEMMA TouchesThen ==
    ASSUME NEW S, NEW A, NEW T, NEW B, NEW U, NEW D, NEW d, NEW C, NEW E,
           Touches(S, A, T, B, d, C), Touches(T, B, U, D, d, E)
    PROVE  Touches(S, A, U, D, d, C \cup E)
<1>1. C \cup E \subseteq Struct /\ \A x \in D : x \in A \/ x \in C \cup E
  BY DEF Touches
<1>2. ASSUME NEW x \in C \cup E, x \in D PROVE U.data[x].timer = MaxAge
  BY <1>2 DEF Touches
<1>3. ASSUME NEW x \in Struct, x \notin C \cup E
      PROVE  /\ U.data[x].timer = S.data[x].timer /\ U.data[x].d = S.data[x].d
             /\ U.data[x].p = S.data[x].p \/ (S.data[x].d = d /\ x \in A)
             /\ U.next[x] = S.next[x] \/ S.next[x] \in C \cup E
  BY <1>3 DEF Touches
<1> QED BY <1>1, <1>2, <1>3 DEF Touches

LEMMA TouchesNone ==
    ASSUME NEW S, NEW A, NEW d
    PROVE  Touches(S, A, S, A, d, {})
BY DEF Touches

LEMMA TimesIs ==
    ASSUME NEW S \in Book
    PROVE  Times(S) \in [Struct -> Nat] /\ \A x \in Struct : Times(S)[x] = S.data[x].timer /\ S.data[x].timer <= MaxAge
<1>1. S.data \in [Struct -> Datum] BY DEF Book
<1>2. \A x \in Struct : S.data[x].timer \in Nat /\ S.data[x].timer \in 0 .. MaxAge
  BY <1>1, DatumIs
<1>3. \A x \in Struct : S.data[x].timer <= MaxAge
  BY <1>2, SizeAssumption
<1> QED BY <1>2, <1>3 DEF Times

LEMMA FineLists ==
    ASSUME NEW S, NEW X, NEW Z, NEW y, Fine(S, X, Z, y)
    PROVE  \E n, m \in Nat :
             /\ Lists(S, List(S), n, Pool(S), m, X)
             /\ Len(List(S)) = n /\ List(S) \in [1 .. n -> Struct]
             /\ Listed(S) = {List(S)[i] : i \in 1 .. n}
             /\ \A i, j \in 1 .. n : List(S)[i] = List(S)[j] => i = j
             /\ S.head = IF n = 0 THEN Null ELSE List(S)[1]
             /\ \A i \in 1 .. n : S.next[List(S)[i]] = IF i = n THEN Null ELSE List(S)[i + 1]
             /\ \A x \in Listed(S) : x \in Struct /\ x \notin X
<1>1. S \in Book /\ X \subseteq Struct /\ SoundBut(S, X)
  BY DEF Fine
<1>2. PICK n, m \in 0 .. N :
        /\ Lists(S, List(S), n, Pool(S), m, X)
        /\ Len(List(S)) = n
  BY ONLY <1>1, SoundLists
<1>3. n \in Nat /\ m \in Nat
  BY SizeOfStruct
<1>4. Listed(S) = {List(S)[i] : i \in 1 .. n}
  BY <1>1, <1>2, ListsSound
<1>5. /\ List(S) \in [1 .. n -> Struct]
      /\ \A i, j \in 1 .. n : List(S)[i] = List(S)[j] => i = j
      /\ S.head = IF n = 0 THEN Null ELSE List(S)[1]
      /\ \A i \in 1 .. n : S.next[List(S)[i]] = IF i = n THEN Null ELSE List(S)[i + 1]
      /\ \A e \in Struct : e \in X => \A i \in 1 .. n : List(S)[i] # e
  BY <1>2 DEF Lists, Row
<1>6. \A x \in Listed(S) : x \in Struct /\ x \notin X
  BY <1>4, <1>5
<1> QED BY <1>2, <1>3, <1>4, <1>5, <1>6

\* T is S without the structure e, and as good unless e, in the middle, is y.
FreesFine(S, X, Z, y, n, k, e, T) ==
    /\ e \in Struct /\ e \notin X /\ e \in Listed(S)
    /\ \A x : x \in Listed(T) <=> x \in Listed(S) /\ x # e
    /\ \A d : Touches(S, Listed(S), T, Listed(T), d, {e})
    /\ e # y \/ k = 1 \/ k = n => Fine(T, X, Z, y)
    /\ T.pool = e

\* A structure is freed with the right predecessor.
LEMMA FreedFine ==
    ASSUME NEW S, NEW X, NEW Z, NEW y, Fine(S, X, Z, y),
           NEW n \in Nat, Len(List(S)) = n, NEW k \in 1 .. n, NEW e, e = List(S)[k],
           NEW before, k # 1 => before = List(S)[k - 1],
           NEW T, T = FreeComplete(S, e, before)
    PROVE  FreesFine(S, X, Z, y, n, k, e, T)
<1>0. PICK l, q : l = List(S) /\ q = Pool(S)
  OBVIOUS
<1>1. PICK n1, m \in Nat :
        /\ Lists(S, l, n1, q, m, X)
        /\ Len(l) = n1 /\ l \in [1 .. n1 -> Struct]
        /\ Listed(S) = {l[i] : i \in 1 .. n1}
        /\ \A i, j \in 1 .. n1 : l[i] = l[j] => i = j
  BY <1>0, FineLists
<1>2. /\ S \in Book /\ X \subseteq Struct
      /\ Sorted(Times(S), l, n, y)
      /\ \A x \in Struct : x \notin Listed(S) /\ x \notin X => S.data[x] = Unused
      /\ \A x \in Listed(S) : S.data[x].d \in Datagrams
      /\ \A x, g \in Listed(S) : S.data[x].d = S.data[g].d => x = g
      /\ \A x \in Struct : Ascends(S.data[x].p)
      /\ \A x \in Struct \ Z : S.data[x].last => Reached(S.data[x].p)
  BY <1>0 DEF Fine
<1>3. n1 = n /\ e = l[k]
  BY <1>0, <1>1
<1>4. /\ Lists(S, l, n, q, m, X) /\ l \in [1 .. n -> Struct] /\ Listed(S) = {l[i] : i \in 1 .. n}
      /\ \A i, j \in 1 .. n : l[i] = l[j] => i = j
      /\ Len(List(S)) = n /\ (k # 1 => before = l[k - 1]) /\ T = FreeComplete(S, l[k], before)
  BY <1>0, <1>1, <1>3
<1>5. /\ T \in Book /\ e \in Struct /\ e \notin X
      /\ T.pool = e /\ T.data[e] = Unused /\ (\A x \in Struct : x # e => T.data[x] = S.data[x])
      /\ \A x \in Struct : T.next[x] = S.next[x] \/ S.next[x] = e \/ x = e
      /\ Lists(T, Drop(l, n, k), n - 1, Push(e, q, m), m + 1, X)
  <2>1. S \in Book /\ X \subseteq Struct /\ Lists(S, l, n, q, m, X) BY <1>2, <1>4
  <2>2. k # 1 => before = l[k - 1] BY <1>4
  <2>3. e = l[k] /\ T = FreeComplete(S, e, before) BY <1>3
  <2>4. TakenOut(S, X, l, n, q, m, k, e, T) BY ONLY <2>1, <2>2, <2>3, FreedIs
  <2> QED BY <2>4 DEF TakenOut
<1>6. /\ SoundBut(T, X) /\ List(T) = Drop(l, n, k) /\ Len(List(T)) = n - 1
      /\ Listed(T) = {Drop(l, n, k)[i] : i \in 1 .. n - 1}
  <2>1. T \in Book /\ X \subseteq Struct BY <1>2, <1>5
  <2>2. PICK t, u, c, b : t = Drop(l, n, k) /\ u = Push(e, q, m) /\ c = n - 1 /\ b = m + 1
    OBVIOUS
  <2>3. Lists(T, t, c, u, b, X) BY <1>5, <2>2
  <2>4. /\ SoundBut(T, X) /\ List(T) = t /\ Len(List(T)) = c
        /\ Listed(T) = {t[i] : i \in 1 .. c}
    BY ONLY <2>1, <2>3, ListsSound
  <2> QED BY <2>2, <2>4
<1>7. /\ \A i \in 1 .. n - 1 : /\ Drop(l, n, k)[i] # l[k]
                               /\ \E j \in 1 .. n : l[j] = Drop(l, n, k)[i]
      /\ \A j \in 1 .. n : j # k => \E i \in 1 .. n - 1 : Drop(l, n, k)[i] = l[j]
  <2>1. \A i, j \in 1 .. n : l[i] = l[j] => i = j BY <1>4
  <2>2. ButFor(Drop(l, n, k), l, n, k) BY ONLY n \in Nat, k \in 1 .. n, <2>1, Dropped
  <2> QED BY ONLY <2>2 DEF ButFor
<1>8. \A x : x \in Listed(T) <=> x \in Listed(S) /\ x # e
  BY <1>3, <1>4, <1>6, <1>7
<1>9. e \in Listed(S)
  BY <1>3, <1>4
<1>10. T.data[e] = Unused /\ \A x \in Struct : x # e => T.data[x] = S.data[x]
  BY <1>5
<1>11. \A d : Touches(S, Listed(S), T, Listed(T), d, {e})
  BY <1>5, <1>8, <1>10 DEF Touches
<1>12. ASSUME e # y \/ k = 1 \/ k = n PROVE Fine(T, X, Z, y)
  <2>1. Sorted(Times(T), List(T), Len(List(T)), y)
    <3>1. Times(S) \in [Struct -> Nat] BY <1>2, TimesIs
    <3>2. l[k] # y \/ k = 1 \/ k = n BY <1>3, <1>12
    <3>3. Sorted(Times(S), Drop(l, n, k), n - 1, y)
      <4>1. Sorted(Times(S), l, n, y) /\ l \in [1 .. n -> Struct] BY <1>2, <1>4
      <4> QED BY ONLY n \in Nat, k \in 1 .. n, <4>1, <3>1, <3>2, SortedDrop
    <3>4. \A i \in 1 .. n - 1 : Drop(l, n, k)[i] \in Struct /\ Drop(l, n, k)[i] # e
      BY <1>3, <1>4, <1>7
    <3>5. \A i \in 1 .. n - 1 : Times(T)[Drop(l, n, k)[i]] = Times(S)[Drop(l, n, k)[i]]
      BY <1>10, <3>4 DEF Times
    <3>6. n - 1 \in Nat OBVIOUS
    <3>7. Sorted(Times(T), Drop(l, n, k), n - 1, y)
      BY ONLY <3>3, <3>5, <3>6, SortedSame
    <3> QED BY <1>6, <3>7
  <2>2. Ascends(Unused.p) /\ ~Unused.last
    BY DEF Ascends, Unused
  <2>3. \A x \in Struct : x \notin Listed(T) /\ x \notin X => T.data[x] = Unused
    BY <1>2, <1>8, <1>10
  <2>4. \A x \in Struct : Ascends(T.data[x].p)
    BY <1>2, <1>10, <2>2
  <2>5. \A x \in Struct \ Z : T.data[x].last => Reached(T.data[x].p)
    BY <1>2, <1>10, <2>2
  <2>6. Listed(S) \subseteq Struct BY <1>4
  <2>7. /\ \A x \in Listed(T) : T.data[x].d \in Datagrams
        /\ \A x, g \in Listed(T) : T.data[x].d = T.data[g].d => x = g
    BY <1>2, <1>8, <1>10, <2>6
  <2> QED BY <1>2, <1>5, <1>6, <2>1, <2>3, <2>4, <2>5, <2>7 DEF Fine
<1> QED BY <1>5, <1>8, <1>9, <1>11, <1>12 DEF FreesFine

TakesFine(S, X, Z, y, d, e, T) ==
    /\ Fine(T, X, Z, y)
    /\ e \in Struct /\ e \notin X /\ e \notin Listed(S)
    /\ Touches(S, Listed(S), T, Listed(T), d, {e})
    /\ \A x : x \in Listed(T) <=> x \in Listed(S) \/ x = e

\* A structure of the pool is taken for a datagram that is not in the list.
LEMMA EnqueuedFine ==
    ASSUME NEW S, NEW X, NEW Z, NEW y, Fine(S, X, Z, y), S.pool # Null,
           NEW d \in Datagrams, \A x \in Listed(S) : S.data[x].d # d,
           NEW T, T = Enqueue(S, d)
    PROVE  TakesFine(S, X, Z, y, d, S.pool, T)
<1>0. PICK l, q, e : l = List(S) /\ q = Pool(S) /\ e = S.pool
  OBVIOUS
<1>1. PICK n, m \in Nat :
        /\ Lists(S, l, n, q, m, X)
        /\ Len(l) = n /\ l \in [1 .. n -> Struct]
        /\ Listed(S) = {l[i] : i \in 1 .. n}
        /\ \A x \in Listed(S) : x \in Struct
  BY <1>0, FineLists
<1>2. /\ S \in Book /\ X \subseteq Struct
      /\ Sorted(Times(S), l, n, y)
      /\ \A x \in Struct : x \notin Listed(S) /\ x \notin X => S.data[x] = Unused
      /\ \A x \in Listed(S) : S.data[x].d \in Datagrams
      /\ \A x, g \in Listed(S) : S.data[x].d = S.data[g].d => x = g
      /\ \A x \in Struct : Ascends(S.data[x].p)
      /\ \A x \in Struct \ Z : S.data[x].last => Reached(S.data[x].p)
  BY <1>0, <1>1 DEF Fine
<1> DEFINE new == [Unused EXCEPT !.d = d, !.timer = MaxAge]
<1>3. new.d = d /\ new.p = <<>> /\ new.last = FALSE /\ new.timer = MaxAge
  BY DEF Unused
<1> HIDE DEF new
<1>4. /\ T \in Book /\ e \in Struct /\ e \notin X
      /\ T.data[e] = new /\ (\A x \in Struct : x # e => T.data[x] = S.data[x])
      /\ \A x \in Struct : x # e => T.next[x] = S.next[x]
      /\ Lists(T, Push(e, l, n), n + 1, Drop(q, m, 1), m - 1, X)
      /\ m # 0 /\ e = q[1]
  <2>1. S \in Book /\ X \subseteq Struct /\ Lists(S, l, n, q, m, X) BY <1>1, <1>2
  <2>2. e = S.pool /\ e # Null /\ T = Enqueue(S, d) BY <1>0
  <2>3. TakenIn(S, X, l, n, q, m, e, d, T) BY ONLY <2>1, <2>2, EnqueuedIs
  <2> QED BY <2>3 DEF new, TakenIn
<1>5. e \notin Listed(S)
  <2>1. 1 \in 1 .. m BY <1>4
  <2>2. \A i \in 1 .. n, j \in 1 .. m : l[i] # q[j] BY <1>1 DEF Lists
  <2> QED BY <1>1, <1>4, <2>1, <2>2
<1>6. /\ SoundBut(T, X) /\ List(T) = Push(e, l, n) /\ Len(List(T)) = n + 1
      /\ Listed(T) = {Push(e, l, n)[i] : i \in 1 .. n + 1}
  <2>1. T \in Book /\ X \subseteq Struct BY <1>2, <1>4
  <2>2. Lists(T, Push(e, l, n), n + 1, Drop(q, m, 1), m - 1, X) BY <1>4
  <2> QED BY ONLY <2>1, <2>2, ListsSound
<1>7. /\ Push(e, l, n)[1] = e /\ 1 \in 1 .. n + 1
      /\ \A i \in 1 .. n : i + 1 \in 1 .. n + 1 /\ Push(e, l, n)[i + 1] = l[i]
      /\ \A i \in 1 .. n + 1 : i # 1 => i - 1 \in 1 .. n /\ Push(e, l, n)[i] = l[i - 1]
  BY ONLY <1>1, Pushed
<1>8. \A x : x \in Listed(T) <=> x \in Listed(S) \/ x = e
  <2> TAKE x
  <2>1. (\E i \in 1 .. n + 1 : Push(e, l, n)[i] = x) <=> (\E i \in 1 .. n : l[i] = x) \/ x = e
    BY <1>7
  <2> QED BY <1>1, <1>6, <2>1
<1>9. T.data[e] = new /\ \A x \in Struct : x # e => T.data[x] = S.data[x]
  BY <1>4
<1>10. Touches(S, Listed(S), T, Listed(T), d, {e})
  BY <1>3, <1>4, <1>8, <1>9 DEF Touches
<1>11. Sorted(Times(T), List(T), Len(List(T)), y)
  <2>1. Times(T) \in [Struct -> Nat] /\ \A x \in Struct : Times(T)[x] = T.data[x].timer /\ T.data[x].timer <= MaxAge
    BY <1>4, TimesIs
  <2>2. \A i \in 1 .. n : l[i] \in Struct /\ l[i] # e BY <1>1, <1>5
  <2>3. \A i \in 1 .. n : Times(T)[l[i]] = Times(S)[l[i]] BY <1>9, <2>2 DEF Times
  <2>4. Sorted(Times(T), l, n, y)
    BY ONLY <1>1, <1>2, <2>3, SortedSame
  <2>5. Times(T)[e] = MaxAge BY <1>3, <1>4, <1>9, <2>1
  <2>6. \A i \in 1 .. n : Times(T)[l[i]] <= Times(T)[e] BY <2>1, <2>2, <2>5
  <2>7. Sorted(Times(T), Push(e, l, n), n + 1, y)
    BY ONLY <1>1, <1>4, <2>1, <2>4, <2>6, SortedPush
  <2> QED BY <1>6, <2>7
<1>12. Ascends(new.p) /\ ~new.last
  BY <1>3 DEF Ascends
<1>13. /\ \A x \in Struct : x \notin Listed(T) /\ x \notin X => T.data[x] = Unused
       /\ \A x \in Struct : Ascends(T.data[x].p)
       /\ \A x \in Struct \ Z : T.data[x].last => Reached(T.data[x].p)
  BY <1>2, <1>8, <1>9, <1>12
<1>14. /\ \A x \in Listed(T) : T.data[x].d \in Datagrams
       /\ \A x, g \in Listed(T) : T.data[x].d = T.data[g].d => x = g
  BY <1>1, <1>2, <1>3, <1>8, <1>9
<1>15. Fine(T, X, Z, y)
  BY <1>2, <1>4, <1>6, <1>11, <1>13, <1>14 DEF Fine
<1> QED BY <1>0, <1>4, <1>5, <1>8, <1>10, <1>15 DEF TakesFine
----------------------------------------------------------------------------
(* A fragment more in a structure of the list. *)

LEMMA SamePointers ==
    ASSUME NEW S, NEW T, T.head = S.head, T.pool = S.pool, T.next = S.next
    PROVE  /\ List(T) = List(S) /\ Listed(T) = Listed(S)
           /\ \A X : SoundBut(S, X) => SoundBut(T, X)
BY DEF List, Pool, Listed, SoundBut

\* Only the fragments of e and its flag last change.
LEMMA Refilled ==
    ASSUME NEW S, NEW X, NEW Z, NEW y, Fine(S, X, Z, y),
           NEW T, T \in Book, T.head = S.head, T.pool = S.pool, T.next = S.next,
           NEW e, e \in Listed(S), \A x \in Struct : x # e => T.data[x] = S.data[x],
           T.data[e].d = S.data[e].d, T.data[e].timer = S.data[e].timer,
           Ascends(T.data[e].p), e \in Z \/ (T.data[e].last => Reached(T.data[e].p))
    PROVE  /\ Fine(T, X, Z, y) /\ Listed(T) = Listed(S)
           /\ Touches(S, Listed(S), T, Listed(T), S.data[e].d, {})
<1>1. /\ S \in Book /\ X \subseteq Struct /\ SoundBut(S, X)
      /\ Sorted(Times(S), List(S), Len(List(S)), y)
      /\ \A x \in Struct : x \notin Listed(S) /\ x \notin X => S.data[x] = Unused
      /\ \A x \in Listed(S) : S.data[x].d \in Datagrams
      /\ \A x, g \in Listed(S) : S.data[x].d = S.data[g].d => x = g
      /\ \A x \in Struct : Ascends(S.data[x].p)
      /\ \A x \in Struct \ Z : S.data[x].last => Reached(S.data[x].p)
  BY DEF Fine
<1>2. /\ List(T) = List(S) /\ Listed(T) = Listed(S) /\ SoundBut(T, X)
  BY <1>1, SamePointers
<1>3. \A x \in Listed(S) : x \in Struct
  BY FineLists
<1>4. \A x \in Struct : T.data[x].d = S.data[x].d /\ T.data[x].timer = S.data[x].timer
  OBVIOUS
<1>5. Times(T) = Times(S)
  BY <1>4 DEF Times
<1>6. /\ \A x \in Listed(S) : T.data[x].d \in Datagrams
      /\ \A x, g \in Listed(S) : T.data[x].d = T.data[g].d => x = g
  BY <1>1, <1>3, <1>4
<1>7. /\ \A x \in Struct : x \notin Listed(S) /\ x \notin X => T.data[x] = Unused
      /\ \A x \in Struct : Ascends(T.data[x].p)
      /\ \A x \in Struct \ Z : T.data[x].last => Reached(T.data[x].p)
  BY <1>1
<1>8. Fine(T, X, Z, y)
  BY <1>1, <1>2, <1>5, <1>6, <1>7 DEF Fine
<1>9. Touches(S, Listed(S), T, Listed(T), S.data[e].d, {})
  BY <1>2, <1>4 DEF Touches
<1> QED BY <1>2, <1>8, <1>9

\* The last fragment is refused only when another one reaches into it.
LEMMA RefusedReached ==
    ASSUME NEW p \in Seq(Frags), NEW f \in Frags, Refused(p, f), f.to = Length
    PROVE  Reached(p)
<1>1. PICK k \in 0 .. Len(p) : k = Met(p, f)
  BY MetIs
<1>2. \A i \in 1 .. Len(p) : p[i] \in Frags
  OBVIOUS
<1>3. k \in Nat /\ Len(p) \in Nat /\ f.from \in Nat /\ f.to \in Nat /\ f.from < f.to
  BY FragIs
<1>4. CASE \E i \in 1 .. k : p[i].from = f.from \/ f.from < p[i].to
  <2>1. PICK i \in 1 .. k : p[i].from = f.from \/ f.from < p[i].to BY <1>4
  <2>2. i \in 1 .. Len(p) BY <1>3
  <2>3. p[i].from \in Nat /\ p[i].to \in Nat /\ p[i].from < p[i].to BY <1>2, <2>2, FragIs
  <2>4. f.from < p[i].to BY <1>3, <2>1, <2>3
  <2> QED BY <2>2, <2>4 DEF Reached
<1>5. CASE 0 < k /\ k < Len(p) /\ f.to > p[k + 1].from
  <2>1. k + 1 \in 1 .. Len(p) BY <1>3, <1>5
  <2>2. p[k + 1].from \in Nat /\ p[k + 1].to \in Nat /\ p[k + 1].from < p[k + 1].to BY <1>2, <2>1, FragIs
  <2>3. k = Len(p) \/ p[k + 1].from > f.from BY <1>1, MetIs
  <2>4. f.from < p[k + 1].to BY <1>3, <1>5, <2>2, <2>3
  <2> QED BY <2>1, <2>4 DEF Reached
<1> QED BY <1>1, <1>4, <1>5 DEF Refused

LEMMA ChainedReached ==
    ASSUME NEW p \in Seq(Frags), NEW f \in Frags, Reached(p) \/ f.to = Length
    PROVE  Reached(Chained(p, f))
<1>1. PICK k \in 0 .. Len(p) : k = Met(p, f)
  BY MetIs
<1>2. PICK q, n : q = Chained(p, f) /\ n = Len(p)
  OBVIOUS
<1>3. n \in Nat /\ k \in 0 .. n
  BY <1>2
<1>4. /\ Len(q) = n + 1 /\ k + 1 \in 1 .. n + 1 /\ q[k + 1] = f
      /\ \A i \in 1 .. k : q[i] = p[i]
      /\ \A i \in 1 .. n : i > k => q[i + 1] = p[i]
  BY <1>1, <1>2, ChainedIs
<1>5. CASE f.to = Length
  <2>1. f.from < q[k + 1].to BY <1>4, FragIs
  <2> QED BY <1>2, <1>4, <1>5, <2>1 DEF Reached
<1>6. CASE Reached(p)
  <2>1. PICK g \in Frags, i \in 1 .. n : g.to = Length /\ g.from < p[i].to BY <1>2, <1>6 DEF Reached
  <2>2. CASE i <= k
    <3>1. i \in 1 .. k /\ i \in 1 .. n + 1 BY <1>3, <2>2
    <3>2. q[i] = p[i] BY <1>4, <3>1
    <3> QED BY <1>2, <1>4, <2>1, <3>1, <3>2 DEF Reached
  <2>3. CASE i > k
    <3>1. i + 1 \in 1 .. n + 1 BY <1>3
    <3>2. q[i + 1] = p[i] BY <1>4, <2>3
    <3> QED BY <1>2, <1>4, <2>1, <3>1, <3>2 DEF Reached
  <2> QED BY <1>3, <2>2, <2>3
<1> QED BY <1>5, <1>6

LEMMA ChainedAscends ==
    ASSUME NEW p \in Seq(Frags), NEW f \in Frags, ~Refused(p, f), Ascends(p)
    PROVE  Ascends(Chained(p, f))
<1>1. PICK k \in 0 .. Len(p) : k = Met(p, f)
  BY MetIs
<1>2. PICK q, n : q = Chained(p, f) /\ n = Len(p)
  OBVIOUS
<1>3. n \in Nat /\ k \in 0 .. n /\ \A i \in 1 .. n : p[i] \in Frags
  BY <1>2
<1>4. /\ Len(q) = n + 1 /\ k + 1 \in 1 .. n + 1 /\ q[k + 1] = f
      /\ \A i \in 1 .. k : q[i] = p[i]
      /\ \A i \in 1 .. n : i > k => q[i + 1] = p[i]
  BY <1>1, <1>2, ChainedIs
<1>5. /\ k = n \/ p[k + 1].from > f.from
      /\ \A i \in 1 .. k : p[i].from <= f.from /\ p[i].from # f.from
      /\ \A i \in 1 .. n - 1 : p[i].from < p[i + 1].from
  BY <1>1, <1>2, MetIs DEF Refused, Ascends
<1>6. \A i \in 1 .. n : p[i].from \in Nat
  BY <1>3, FragIs
<1>7. f.from \in Nat
  BY FragIs
<1>8. ASSUME NEW i \in 1 .. n PROVE q[i].from < q[i + 1].from
  <2>1. CASE i < k
    <3>1. i \in 1 .. k /\ i + 1 \in 1 .. k /\ i \in 1 .. n - 1 BY <1>3, <2>1
    <3> QED BY <1>4, <1>5, <3>1
  <2>2. CASE i = k
    <3>1. i \in 1 .. k BY <1>3, <2>2
    <3>2. q[i] = p[i] /\ q[i + 1] = f BY <1>4, <2>2, <3>1
    <3>3. p[i].from \in Nat BY <1>6
    <3> QED BY <1>5, <1>7, <3>1, <3>2, <3>3
  <2>3. CASE i = k + 1
    <3>1. k # n BY <1>3, <2>3
    <3>2. q[i] = f /\ q[i + 1] = p[k + 1] BY <1>3, <1>4, <2>3
    <3> QED BY <1>5, <3>1, <3>2
  <2>4. CASE i > k + 1
    <3>1. i - 1 \in 1 .. n - 1 /\ i - 1 \in 1 .. n /\ i - 1 > k /\ i - 1 + 1 = i BY <1>3, <2>4
    <3>2. q[i] = p[i - 1] /\ q[i + 1] = p[i] BY <1>3, <1>4, <2>4, <3>1
    <3> QED BY <1>5, <3>1, <3>2
  <2> QED BY <1>3, <2>1, <2>2, <2>3, <2>4
<1> QED BY <1>2, <1>3, <1>4, <1>8 DEF Ascends
\* What OutOrdered says of what ip_reass returns.
InOrder(o) ==
    o.p # <<>> =>
        /\ Head(o.p).from = 0
        /\ \A i \in 1 .. Len(o.p) - 1 :
             \/ o.p[i].to = o.p[i + 1].from
             \/ o.p[i + 1] = o.by /\ o.p[i].to < o.by.from
        /\ \/ Last(o.p).to = Length
           \/ \E f \in Frags : /\ f.to = Length
                               /\ \E i \in 1 .. Len(o.p) : f.from < o.p[i].to

LEMMA ValidInOrder ==
    ASSUME NEW p \in Seq(Frags), NEW f \in Frags, NEW d, NEW last,
           ~Refused(p, f), Valid(Chained(p, f), Met(p, f) + 1, last), last => Reached(p) \/ f.to = Length,
           NEW o, o = [d |-> d, p |-> Chained(p, f), by |-> f]
    PROVE  InOrder(o)
<1>1. PICK k \in 0 .. Len(p) : k = Met(p, f)
  BY MetIs
<1>2. PICK q, n : q = Chained(p, f) /\ n = Len(p)
  OBVIOUS
<1>3. n \in Nat /\ k \in 0 .. n /\ \A i \in 1 .. n : p[i] \in Frags
  BY <1>2
<1>4. /\ q \in Seq(Frags) /\ Len(q) = n + 1 /\ k + 1 \in 1 .. n + 1 /\ q[k + 1] = f
      /\ \A i \in 1 .. k : q[i] = p[i]
  BY <1>1, <1>2, ChainedIs
<1>5. o.p = q /\ o.by = f
  BY <1>2
<1>6. last /\ q[1].from = 0 /\ \A i \in 1 .. n : i # k \/ k = n => q[i].to = q[i + 1].from
  <2>1. /\ last /\ q[1].from = 0
        /\ \A i \in 1 .. Len(q) - 1 : i # (k + 1) - 1 \/ k + 1 = Len(q) => q[i].to = q[i + 1].from
    BY <1>1, <1>2 DEF Valid
  <2>2. Len(q) - 1 = n /\ (k + 1) - 1 = k /\ (k = n => k + 1 = Len(q)) BY <1>3, <1>4
  <2> QED BY <2>1, <2>2
<1>7. Head(o.p).from = 0
  BY <1>3, <1>4, <1>5, <1>6
<1>8. \A i \in 1 .. Len(o.p) - 1 : o.p[i].to = o.p[i + 1].from \/ (o.p[i + 1] = o.by /\ o.p[i].to < o.by.from)
  <2>0. ASSUME NEW i \in 1 .. n PROVE q[i].to = q[i + 1].from \/ (q[i + 1] = f /\ q[i].to < f.from)
    <3>1. CASE i # k BY <1>6, <3>1
    <3>2. CASE i = k
      <4>1. k \in 1 .. k /\ k \in 1 .. n BY <1>3, <3>2
      <4>2. ~(f.from < p[k].to) BY <1>1, <4>1 DEF Refused
      <4>3. p[k].to \in Nat /\ f.from \in Nat BY <1>3, <4>1, FragIs
      <4>4. p[k].to = f.from \/ p[k].to < f.from BY <4>2, <4>3
      <4>5. q[i] = p[k] /\ q[i + 1] = f BY <1>4, <3>2, <4>1
      <4> QED BY <4>4, <4>5
    <3> QED BY <3>1, <3>2
  <2>1. Len(o.p) - 1 = n BY <1>3, <1>4, <1>5
  <2> QED BY ONLY <2>0, <2>1, <1>5
<1>9. Reached(q)
  BY <1>2, <1>6, ChainedReached
<1>10. \E g \in Frags : g.to = Length /\ \E i \in 1 .. Len(o.p) : g.from < o.p[i].to
  BY <1>5, <1>9 DEF Reached
<1> QED BY <1>7, <1>8, <1>10 DEF InOrder

\* What Add does of a datagram in the structure e of the list.
Added(S, X, Z, y, d, e) ==
    /\ e \in Listed(S) /\ S.data[e].d = d
    /\ \/ /\ Fine(reass', X, Z, y) /\ Listed(reass') = Listed(S)
          /\ Touches(S, Listed(S), reass', Listed(reass'), d, {})
          /\ out' = NoOut
       \/ /\ e \notin X /\ (\A x : x \in Listed(reass') <=> x \in Listed(S) /\ x # e)
          /\ Touches(S, Listed(S), reass', Listed(reass'), d, {e})
          /\ e # y => Fine(reass', X, Z, y)
          /\ e \notin Z => InOrder(out')

LEMMA AddFine ==
    ASSUME NEW S, NEW X, NEW Z, NEW y, Fine(S, X, Z, y),
           NEW d, Place(S, d) # 0, NEW f \in Frags, Add(S, d, f)
    PROVE  \E e : Added(S, X, Z, y, d, e)
<1>1. S \in Book /\ S.data \in [Struct -> Datum]
  BY DEF Fine, Book
<1>2. PICK n \in 0 .. N + 1 : \E k \in 1 .. n : \E e \in Struct :
        /\ n \in Nat /\ List(S) \in [1 .. n -> Struct] /\ Len(List(S)) = n
        /\ e = List(S)[k] /\ S.data[e].d = d
        /\ Refuses(S, e, f) \/ Completes(S, k, d, f) \/ Keeps(S, e, f)
  BY <1>1, AddIs
<1>3. PICK k \in 1 .. n, e \in Struct :
        /\ n \in Nat /\ List(S) \in [1 .. n -> Struct] /\ Len(List(S)) = n
        /\ e = List(S)[k] /\ S.data[e].d = d
        /\ Refuses(S, e, f) \/ Completes(S, k, d, f) \/ Keeps(S, e, f)
  BY <1>2
<1>4. PICK p, last : p = S.data[e].p /\ last = (S.data[e].last \/ f.to = Length)
  OBVIOUS
<1>5. p \in Seq(Frags) /\ Ascends(p) /\ e \in Listed(S) /\ (e \notin Z => (S.data[e].last => Reached(p)))
  <2>1. p \in Seq(Frags) BY <1>1, <1>4, DatumIs
  <2>2. Ascends(p) /\ (e \notin Z => (S.data[e].last => Reached(p))) BY <1>4 DEF Fine
  <2>3. e \in Listed(S) BY <1>3, FineLists
  <2> QED BY <2>1, <2>2, <2>3
<1>6. CASE Refuses(S, e, f)
  <2>1. /\ reass' \in Book
        /\ reass'.head = S.head /\ reass'.pool = S.pool /\ reass'.next = S.next
        /\ \A x \in Struct : x # e => reass'.data[x] = S.data[x]
        /\ reass'.data[e].last = last /\ reass'.data[e].p = S.data[e].p
        /\ reass'.data[e].d = S.data[e].d /\ reass'.data[e].timer = S.data[e].timer
    BY <1>1, <1>4, <1>6, RefusesBook
  <2>2. Refused(p, f) /\ out' = NoOut BY <1>4, <1>6 DEF Refuses
  <2>3. e \in Z \/ (reass'.data[e].last => Reached(reass'.data[e].p))
    BY <1>4, <1>5, <2>1, <2>2, RefusedReached
  <2>4. Ascends(reass'.data[e].p) BY <1>4, <1>5, <2>1
  <2>5. /\ Fine(reass', X, Z, y) /\ Listed(reass') = Listed(S)
        /\ Touches(S, Listed(S), reass', Listed(reass'), S.data[e].d, {})
    BY <1>5, <2>1, <2>3, <2>4, Refilled
  <2> QED BY <1>3, <1>5, <2>2, <2>5 DEF Added
<1>7. CASE Keeps(S, e, f)
  <2>1. /\ reass' \in Book
        /\ reass'.head = S.head /\ reass'.pool = S.pool /\ reass'.next = S.next
        /\ \A x \in Struct : x # e => reass'.data[x] = S.data[x]
        /\ reass'.data[e].last = last /\ reass'.data[e].p = Chained(p, f)
        /\ reass'.data[e].d = S.data[e].d /\ reass'.data[e].timer = S.data[e].timer
    BY <1>1, <1>4, <1>7, KeepsBook
  <2>2. ~Refused(p, f) /\ out' = NoOut BY <1>4, <1>7 DEF Keeps
  <2>3. e \in Z \/ (reass'.data[e].last => Reached(reass'.data[e].p))
    BY <1>4, <1>5, <2>1, ChainedReached
  <2>4. Ascends(reass'.data[e].p) BY <1>5, <2>1, <2>2, ChainedAscends
  <2>5. /\ Fine(reass', X, Z, y) /\ Listed(reass') = Listed(S)
        /\ Touches(S, Listed(S), reass', Listed(reass'), S.data[e].d, {})
    BY <1>5, <2>1, <2>3, <2>4, Refilled
  <2> QED BY <1>3, <1>5, <2>2, <2>5 DEF Added
<1>8. CASE Completes(S, k, d, f)
  <2>1. PICK T : T = reass'
    OBVIOUS
  <2>2. k # 1 => Before(S, k) = List(S)[k - 1] BY DEF Before
  <2>3. T = FreeComplete(S, e, Before(S, k)) BY <1>3, <1>8, <2>1 DEF Completes
  <2>4. /\ e \notin X
        /\ \A x : x \in Listed(T) <=> x \in Listed(S) /\ x # e
        /\ \A c : Touches(S, Listed(S), T, Listed(T), c, {e})
        /\ e # y => Fine(T, X, Z, y)
    <3>1. FreesFine(S, X, Z, y, n, k, e, T) BY <1>3, <2>2, <2>3, FreedFine
    <3> QED BY <3>1 DEF FreesFine
  <2>5. ASSUME e \notin Z PROVE InOrder(out')
    <3>1. /\ ~Refused(p, f) /\ Valid(Chained(p, f), Met(p, f) + 1, last)
          /\ out' = [d |-> d, p |-> Chained(p, f), by |-> f]
      BY <1>3, <1>4, <1>8 DEF Completes
    <3>2. last => Reached(p) \/ f.to = Length BY <1>4, <1>5, <2>5
    <3>3. PICK o : o = out' OBVIOUS
    <3>4. o = [d |-> d, p |-> Chained(p, f), by |-> f] BY <3>1, <3>3
    <3>5. InOrder(o) BY <1>5, <3>1, <3>2, <3>4, ValidInOrder
    <3> QED BY <3>3, <3>5
  <2> QED BY <1>3, <1>5, <2>1, <2>4, <2>5 DEF Added
<1> QED BY <1>3, <1>6, <1>7, <1>8
----------------------------------------------------------------------------
(* A fragment. *)

Removal(S, d, T) == Oldest(S, d) # Null /\ T = FreeComplete(S, Oldest(S, d), BeforeLast(S))

\* What a fragment f of d does: a structure may be removed, which makes S; one
\* may be taken for d, which makes T; and f may be added.
Stages(d, f, S, T) ==
    /\ S = reass \/ (Removal(reass, d, S) /\ (reass.count + 1 > MaxPbufs \/ Place(reass, d) = 0))
    /\ T = S \/ (T = Enqueue(S, d) /\ S.pool # Null /\ (Place(S, d) = 0 \/ Place(reass, d) = 0))
    /\ \/ reass' = T /\ out' = NoOut
       \/ /\ Place(T, d) # 0 /\ Add(T, d, f)
          /\ ~(S.count + 1 > MaxPbufs) \/ ~(reass.count + 1 > MaxPbufs)

LEMMA RemovalBook ==
    ASSUME NEW S \in Book, NEW d, NEW T, Removal(S, d, T)
    PROVE  Oldest(S, d) \in Struct /\ Frees(S, Oldest(S, d), BeforeLast(S), T)
<1>1. Oldest(S, d) # Null /\ T = FreeComplete(S, Oldest(S, d), BeforeLast(S))
  BY DEF Removal
<1>2. Oldest(S, d) \in Struct /\ (S.head # Oldest(S, d) => BeforeLast(S) \in Struct)
  BY <1>1, RemovedBook
<1> QED BY <1>1, <1>2, FreedBook

LEMMA FragmentStages ==
    ASSUME reass \in Book, NEW d, NEW f, Fragment(d, f)
    PROVE  \E S, T : Stages(d, f, S, T)
<1>1. PICK S : S = Room(reass, d)
  OBVIOUS
<1>2. PICK T : T = IF S.count + 1 > MaxPbufs THEN S ELSE WithStruct(S, d)
  OBVIOUS
<1>3. IF S.count + 1 > MaxPbufs \/ Place(T, d) = 0
      THEN reass' = T /\ out' = NoOut ELSE Add(T, d, f)
  BY <1>1, <1>2 DEF Fragment
<1>4. S = reass \/ (Removal(reass, d, S) /\ S.pool # Null /\ reass.count + 1 > MaxPbufs)
  <2>1. CASE reass.count + 1 > MaxPbufs /\ Oldest(reass, d) # Null
    <3>1. Removal(reass, d, S) BY <1>1, <2>1 DEF Room, RemoveOldest, Removal
    <3>2. S.pool \in Struct BY <3>1, RemovalBook DEF Frees
    <3> QED BY <2>1, <3>1, <3>2, SizeAssumption
  <2>2. CASE ~(reass.count + 1 > MaxPbufs /\ Oldest(reass, d) # Null)
    BY <1>1, <2>2 DEF Room, RemoveOldest
  <2> QED BY <2>1, <2>2
<1>5. CASE S.count + 1 > MaxPbufs
  <2>1. Stages(d, f, S, S) BY <1>2, <1>3, <1>4, <1>5 DEF Stages
  <2> QED BY <2>1
<1>6. CASE ~(S.count + 1 > MaxPbufs)
  <2>0. /\ T = WithStruct(S, d)
        /\ \/ reass' = T /\ out' = NoOut
           \/ Place(T, d) # 0 /\ Add(T, d, f)
    BY <1>2, <1>3, <1>6
  <2>1. CASE T = S
    <3>1. Stages(d, f, S, T) BY <1>4, <1>6, <2>0, <2>1 DEF Stages
    <3> QED BY <3>1
  <2>2. CASE T # S /\ S.pool # Null
    <3>1. T = Enqueue(S, d) /\ Place(S, d) = 0 BY <2>0, <2>2 DEF WithStruct
    <3>2. Stages(d, f, S, T) BY <1>4, <1>6, <2>0, <2>2, <3>1 DEF Stages
    <3> QED BY <3>2
  <2>3. CASE T # S /\ S.pool = Null
    <3>1. S = reass BY <1>4, <2>3
    <3>2. PICK U : U = RemoveOldest(reass, d) OBVIOUS
    <3>3. Place(reass, d) = 0 /\ T = IF U.pool = Null THEN U ELSE Enqueue(U, d)
      BY <2>0, <2>3, <3>1, <3>2 DEF WithStruct
    <3>4. U = reass \/ Removal(reass, d, U) BY <3>2 DEF RemoveOldest, Removal
    <3>5. T = U \/ (T = Enqueue(U, d) /\ U.pool # Null) BY <3>3
    <3>6. Stages(d, f, U, T) BY <1>6, <2>0, <3>1, <3>3, <3>4, <3>5 DEF Stages
    <3> QED BY <3>6
  <2> QED BY <2>1, <2>2, <2>3
<1> QED BY <1>5, <1>6

\* A fragment keeps the books, even where it damages the lists.
LEMMA FragmentBook ==
    ASSUME reass \in Book, reass.pool # Null => reass.data[reass.pool] = Unused, reass.count <= MaxPbufs,
           NEW d \in Datagrams, NEW f \in Frags, Fragment(d, f)
    PROVE  reass' \in Book /\ SameDue(reass, reass') /\ reass'.count <= MaxPbufs
<1>1. PICK S, T : Stages(d, f, S, T)
  BY FragmentStages
<1>2. /\ S \in Book /\ SameDue(reass, S) /\ S.count <= reass.count
      /\ S.pool # Null => S.data[S.pool] = Unused
  <2>1. CASE S = reass BY <2>1 DEF SameDue, Book
  <2>2. CASE Removal(reass, d, S) BY <2>2, RemovalBook DEF Frees
  <2> QED BY <1>1, <2>1, <2>2 DEF Stages
<1>3. T \in Book /\ SameDue(S, T) /\ T.count = S.count
  <2>1. CASE T = S BY <1>2, <2>1 DEF SameDue
  <2>2. CASE T = Enqueue(S, d) /\ S.pool # Null
    <3>1. S.pool \in Struct /\ S.data[S.pool] = Unused BY <1>2, <2>2 DEF Book, Ptr
    <3> QED BY <1>2, <2>2, <3>1, EnqueuedBook
  <2> QED BY <1>1, <2>1, <2>2 DEF Stages
<1>4. S.count \in Int /\ T.count \in Int /\ reass.count \in Int /\ MaxPbufs \in Nat
  BY <1>2, <1>3, SizeAssumption DEF Book
<1>5. CASE reass' = T
  <2>1. SameDue(reass, reass') BY <1>2, <1>3, <1>5 DEF SameDue
  <2> QED BY <1>2, <1>3, <1>4, <1>5, <2>1
<1>6. CASE Place(T, d) # 0 /\ Add(T, d, f) /\ (~(S.count + 1 > MaxPbufs) \/ ~(reass.count + 1 > MaxPbufs))
  <2>1. reass' \in Book /\ SameDue(T, reass') /\ reass'.count <= T.count + 1
    BY <1>3, <1>6, AddBook
  <2>2. SameDue(reass, reass') BY <1>2, <1>3, <2>1 DEF SameDue
  <2>3. reass'.count \in Int BY <2>1 DEF Book
  <2>4. T.count + 1 <= MaxPbufs BY <1>2, <1>3, <1>4, <1>6
  <2> QED BY <1>4, <2>1, <2>2, <2>3, <2>4
<1> QED BY <1>1, <1>5, <1>6 DEF Stages

\* The structure e of another datagram than d has gone, with nothing damaged.
RemovesFine(S, X, Z, y, d, e, T) ==
    /\ e \in Struct /\ e \notin X /\ S.data[e].d # d
    /\ \A x : x \in Listed(T) <=> x \in Listed(S) /\ x # e
    /\ Touches(S, Listed(S), T, Listed(T), d, {e})
    /\ Fine(T, X, Z, y)

\* The structure removed is the k-th of n, neither the first nor the last.
Strays(S, d, n, k, T) ==
    /\ n \in Nat /\ Len(List(S)) = n /\ k \in 1 .. n /\ k # 1 /\ k # n
    /\ T = FreeComplete(S, List(S)[k], List(S)[n - 1])
    /\ S.data[List(S)[n]].d = d \/ ~(S.data[List(S)[n]].timer <= S.data[List(S)[k]].timer)

\* Only the first or the last of the list is removed as it should be.
LEMMA RemovalFine ==
    ASSUME NEW S, NEW X, NEW Z, NEW y, Fine(S, X, Z, y), NEW d, NEW T, Removal(S, d, T)
    PROVE  (\E n, k : Strays(S, d, n, k, T)) \/ \E e : RemovesFine(S, X, Z, y, d, e, T)
<1>1. S \in Book /\ X \subseteq Struct
  BY DEF Fine
<1>2. PICK l : l = List(S)
  OBVIOUS
<1>3. PICK n \in Nat : Len(l) = n /\ l \in [1 .. n -> Struct]
  BY <1>2, FineLists
<1>4. Oldest(S, d) # Null /\ T = FreeComplete(S, Oldest(S, d), BeforeLast(S))
  BY DEF Removal
<1>5. PICK k \in 1 .. n :
        /\ Oldest(S, d) = l[k] /\ S.data[l[k]].d # d
        /\ \A j \in 1 .. n : S.data[l[j]].d # d /\ S.data[l[j]].timer <= S.data[l[k]].timer => j <= k
  BY <1>1, <1>2, <1>3, <1>4, OldestIs
<1>6. BeforeLast(S) = IF n < 2 THEN Null ELSE l[n - 1]
  BY <1>2, <1>3 DEF BeforeLast
<1>7. PICK e, before : e = l[k] /\ before = BeforeLast(S)
  OBVIOUS
<1>8. CASE k # 1 /\ k # n
  <2>1. before = l[n - 1] BY <1>3, <1>5, <1>6, <1>7, <1>8
  <2>2. T = FreeComplete(S, l[k], l[n - 1]) BY <1>4, <1>5, <1>7, <2>1
  <2>3. n \in 1 .. n /\ ~(n <= k) BY <1>8
  <2>4. S.data[l[n]].d = d \/ ~(S.data[l[n]].timer <= S.data[l[k]].timer) BY <1>5, <2>3
  <2>5. Strays(S, d, n, k, T) BY <1>2, <1>3, <1>8, <2>2, <2>4 DEF Strays
  <2> QED BY <2>5
<1>9. CASE k = 1 \/ k = n
  <2>1. k # 1 => before = List(S)[k - 1] BY <1>2, <1>3, <1>5, <1>6, <1>7, <1>9
  <2>2. T = FreeComplete(S, e, before) BY <1>4, <1>5, <1>7
  <2>3. e = List(S)[k] /\ Len(List(S)) = n BY <1>2, <1>3, <1>7
  <2>4. FreesFine(S, X, Z, y, n, k, e, T) BY <2>1, <2>2, <2>3, FreedFine
  <2>5. S.data[e].d # d BY <1>5, <1>7
  <2>6. RemovesFine(S, X, Z, y, d, e, T) BY <1>9, <2>4, <2>5 DEF FreesFine, RemovesFine
  <2> QED BY <2>6
<1> QED BY <1>8, <1>9

LEMMA StraysDoubled ==
    ASSUME NEW S, NEW X, NEW Z, NEW y, Fine(S, X, Z, y), NEW d, NEW T, NEW n, NEW k, Strays(S, d, n, k, T)
    PROVE  T \in Book /\ Doubled(T, X)
<1>1. S \in Book /\ X \subseteq Struct
  BY DEF Fine
<1>2. PICK l, q : l = List(S) /\ q = Pool(S)
  OBVIOUS
<1>3. PICK n1, m \in Nat : Lists(S, l, n1, q, m, X) /\ Len(l) = n1
  BY <1>2, FineLists
<1>4. /\ n1 = n /\ n \in Nat /\ k \in 1 .. n /\ k # 1 /\ k # n
      /\ T = FreeComplete(S, l[k], l[n - 1])
  BY <1>2, <1>3 DEF Strays
<1>5. Lists(S, l, n, q, m, X) /\ k \in 1 .. n /\ k # 1 /\ k # n
  BY <1>3, <1>4
<1> DEFINE U == FreeComplete(S, l[k], l[n - 1])
<1>6. U \in Book /\ Doubled(U, X)
  BY ONLY <1>1, <1>5, WrongRemoval
<1> QED BY <1>4, <1>6

LEMMA PlaceNone ==
    ASSUME NEW S, NEW X, NEW Z, NEW y, Fine(S, X, Z, y), NEW d, Place(S, d) = 0
    PROVE  \A x \in Listed(S) : S.data[x].d # d
<1>1. S \in Book
  BY DEF Fine
<1>2. PICK n \in Nat : Len(List(S)) = n /\ Listed(S) = {List(S)[i] : i \in 1 .. n}
  BY FineLists
<1>3. \A i \in 1 .. n : S.data[List(S)[i]].d # d
  BY <1>1, <1>2, PlaceIs
<1> QED BY <1>2, <1>3

\* What a fragment that damages nothing does: it takes structures in C in or
\* out, and what it returns is in order.
Fragmented(X, Z, y, d, C) ==
    /\ Fine(reass', X, Z, y)
    /\ Touches(reass, Listed(reass), reass', Listed(reass'), d, C)
    /\ C \cap X = {}
    /\ InOrder(out')

LEMMA StagesFine ==
    ASSUME NEW X, NEW Z, NEW y, Fine(reass, X, Z, y),
           NEW d \in Datagrams, NEW f \in Frags, NEW S, NEW T, Stages(d, f, S, T),
           S = reass \/ ~ \E n, k : Strays(reass, d, n, k, S),
           y # Null => y \in Listed(reass'), Z \subseteq X \cup Listed(reass')
    PROVE  \E C : Fragmented(X, Z, y, d, C)
<1>5. PICK C1 :
        /\ Fine(S, X, Z, y) /\ Touches(reass, Listed(reass), S, Listed(S), d, C1) /\ C1 \cap X = {}
        /\ Place(reass, d) = 0 => \A x \in Listed(S) : S.data[x].d # d
  <2>1. CASE S = reass
    <3>1. Touches(reass, Listed(reass), S, Listed(S), d, {}) BY <2>1, TouchesNone
    <3>2. Place(reass, d) = 0 => \A x \in Listed(S) : S.data[x].d # d BY <2>1, PlaceNone
    <3>3. {} \cap X = {} OBVIOUS
    <3> QED BY <2>1, <3>1, <3>2, <3>3
  <2>2. CASE Removal(reass, d, S) /\ ~ \E n, k : Strays(reass, d, n, k, S)
    <3>1. PICK e : RemovesFine(reass, X, Z, y, d, e, S) BY <2>2, RemovalFine
    <3>2. /\ Fine(S, X, Z, y) /\ Touches(reass, Listed(reass), S, Listed(S), d, {e}) /\ e \notin X
          /\ \A x : x \in Listed(S) <=> x \in Listed(reass) /\ x # e
      BY <3>1 DEF RemovesFine
    <3>3. ASSUME Place(reass, d) = 0 PROVE \A x \in Listed(S) : S.data[x].d # d
      <4>1. \A x \in Listed(reass) : reass.data[x].d # d BY <3>3, PlaceNone
      <4>2. \A x \in Struct : x # e => S.data[x].d = reass.data[x].d BY <3>2 DEF Touches
      <4>3. \A x \in Listed(reass) : x \in Struct BY FineLists
      <4> QED BY <3>2, <4>1, <4>2, <4>3
    <3> QED BY <3>2, <3>3
  <2> QED BY <2>1, <2>2 DEF Stages
<1>6. PICK C2 : Fine(T, X, Z, y) /\ Touches(S, Listed(S), T, Listed(T), d, C2) /\ C2 \cap X = {}
  <2>1. CASE T = S
    <3>1. Touches(S, Listed(S), T, Listed(T), d, {}) /\ {} \cap X = {} BY <2>1, TouchesNone
    <3> QED BY <1>5, <2>1, <3>1
  <2>2. CASE T = Enqueue(S, d) /\ S.pool # Null /\ (Place(S, d) = 0 \/ Place(reass, d) = 0)
    <3>1. \A x \in Listed(S) : S.data[x].d # d BY <1>5, <2>2, PlaceNone
    <3>2. TakesFine(S, X, Z, y, d, S.pool, T) BY <1>5, <2>2, <3>1, EnqueuedFine
    <3>3. {S.pool} \cap X = {} BY <3>2 DEF TakesFine
    <3> QED BY <3>2, <3>3 DEF TakesFine
  <2> QED BY <2>1, <2>2 DEF Stages
<1>7. PICK C3 : Fine(reass', X, Z, y) /\ Touches(T, Listed(T), reass', Listed(reass'), d, C3) /\ C3 \cap X = {}
                /\ InOrder(out')
  <2>1. InOrder(NoOut) BY DEF InOrder, NoOut
  <2>2. CASE reass' = T /\ out' = NoOut
    <3>1. Touches(T, Listed(T), T, Listed(T), d, {}) /\ {} \cap X = {} BY TouchesNone
    <3>2. PICK U : U = reass' OBVIOUS
    <3>3. Fine(U, X, Z, y) /\ Touches(T, Listed(T), U, Listed(U), d, {}) BY <1>6, <2>2, <3>1, <3>2
    <3> QED BY <2>1, <2>2, <3>1, <3>2, <3>3
  <2>3. CASE Place(T, d) # 0 /\ Add(T, d, f)
    <3>1. PICK e : Added(T, X, Z, y, d, e) BY <1>6, <2>3, AddFine
    <3>2. CASE /\ Fine(reass', X, Z, y) /\ Touches(T, Listed(T), reass', Listed(reass'), d, {})
               /\ out' = NoOut
      <4>1. {} \cap X = {} OBVIOUS
      <4>2. InOrder(out') BY <2>1, <3>2
      <4> QED BY <3>2, <4>1, <4>2
    <3>3. CASE /\ e \notin X /\ (\A x : x \in Listed(reass') <=> x \in Listed(T) /\ x # e)
               /\ Touches(T, Listed(T), reass', Listed(reass'), d, {e})
               /\ e # y => Fine(reass', X, Z, y)
               /\ e \notin Z => InOrder(out')
      <4>1. e \in Listed(T) BY <3>1 DEF Added
      <4>2. e # Null
        <5>1. \A x \in Listed(T) : x \in Struct BY <1>6, FineLists
        <5> QED BY <4>1, <5>1, SizeAssumption
      <4>3. e \notin Listed(reass') BY <3>3
      <4>4. e # y /\ e \notin Z BY <3>3, <4>2, <4>3
      <4>5. {e} \cap X = {} BY <3>3
      <4> QED BY <3>3, <4>4, <4>5
    <3> QED BY <3>1, <3>2, <3>3 DEF Added
  <2> QED BY <2>2, <2>3 DEF Stages
<1>8. Touches(reass, Listed(reass), T, Listed(T), d, C1 \cup C2)
  BY <1>5, <1>6, TouchesThen
<1>9. Touches(reass, Listed(reass), reass', Listed(reass'), d, (C1 \cup C2) \cup C3)
  BY <1>7, <1>8, TouchesThen
<1>10. ((C1 \cup C2) \cup C3) \cap X = {}
  BY <1>5, <1>6, <1>7
<1>11. Fragmented(X, Z, y, d, (C1 \cup C2) \cup C3)
  BY <1>7, <1>9, <1>10 DEF Fragmented
<1> QED BY <1>11

LEMMA FragmentFine ==
    ASSUME NEW X, NEW Z, NEW y, Fine(reass, X, Z, y),
           NEW d \in Datagrams, NEW f \in Frags, Fragment(d, f),
           reass' \in Book, SoundBut(reass', X),
           y # Null => y \in Listed(reass'), Z \subseteq X \cup Listed(reass')
    PROVE  \E C : Fragmented(X, Z, y, d, C)
<1>1. reass \in Book /\ X \subseteq Struct
  BY DEF Fine
<1>2. PICK S, T : Stages(d, f, S, T)
  BY <1>1, FragmentStages
<1>3. ~Twice(reass', X)
  BY <1>1, TwiceUnsound
<1>4. ~(S \in Book /\ Doubled(S, X))
  <2> SUFFICES ASSUME S \in Book, Doubled(S, X) PROVE FALSE
    OBVIOUS
  <2>1. CASE T = S /\ reass' = T BY <1>3, <2>1, DoubledTwice
  <2>2. CASE T = S /\ Place(T, d) # 0 /\ Add(T, d, f) BY <1>1, <1>3, <2>2, DoubledAdd
  <2>3. CASE T = Enqueue(S, d) /\ reass' = T BY <1>1, <1>3, <2>3, DoubledEnqueue
  <2>4. CASE T = Enqueue(S, d) /\ Place(T, d) # 0 /\ Add(T, d, f) BY <1>1, <1>3, <2>4, DoubledEnqueueAdd
  <2> QED BY <1>2, <2>1, <2>2, <2>3, <2>4 DEF Stages
<1>5. S = reass \/ ~ \E n, k : Strays(reass, d, n, k, S)
  BY <1>4, StraysDoubled
<1> QED BY <1>2, <1>5, StagesFine

----------------------------------------------------------------------------
(* What the main loop does to structures that are in order. *)

LEMMA FineNone ==
    ASSUME NEW S, NEW X, NEW Z, Fine(S, X, Z, Null), NEW y
    PROVE  Fine(S, X, Z, y)
<1>1. PICK n : n = Len(List(S)) /\ n \in Nat /\ List(S) \in [1 .. n -> Struct]
  BY FineLists
<1>2. Sorted(Times(S), List(S), n, Null)
  BY <1>1 DEF Fine
<1>3. Sorted(Times(S), List(S), n, y)
  BY ONLY <1>1, <1>2, SortedNone
<1> QED BY <1>1, <1>3 DEF Fine

LEMMA FineSpoilt ==
    ASSUME NEW S, NEW X, NEW y, NEW Z, Fine(S, X, Z, y), NEW W, Z \subseteq W
    PROVE  Fine(S, X, W, y)
BY DEF Fine

\* A structure of the list, its place, and what is behind it.
Placed(S, X, y, e, n, m, c) ==
    /\ Lists(S, List(S), n, Pool(S), m, X)
    /\ Len(List(S)) = n /\ List(S) \in [1 .. n -> Struct]
    /\ Listed(S) = {List(S)[i] : i \in 1 .. n}
    /\ \A i, j \in 1 .. n : List(S)[i] = List(S)[j] => i = j
    /\ e = List(S)[c] /\ e \in Struct /\ e \notin X
    /\ S.next[e] = IF c = n THEN Null ELSE List(S)[c + 1]
    /\ S.head = List(S)[1]
    /\ \A i \in 1 .. n : i # n => S.next[List(S)[i]] = List(S)[i + 1]
    /\ Sorted(Times(S), List(S), n, y)

LEMMA FinePlace ==
    ASSUME NEW S, NEW X, NEW Z, NEW y, Fine(S, X, Z, y), NEW e, e \in Listed(S)
    PROVE  \E n, m \in Nat : \E c \in 1 .. n : Placed(S, X, y, e, n, m, c)
<1>1. PICK n, m \in Nat :
        /\ Lists(S, List(S), n, Pool(S), m, X)
        /\ Len(List(S)) = n /\ List(S) \in [1 .. n -> Struct]
        /\ Listed(S) = {List(S)[i] : i \in 1 .. n}
        /\ \A i, j \in 1 .. n : List(S)[i] = List(S)[j] => i = j
        /\ S.head = IF n = 0 THEN Null ELSE List(S)[1]
        /\ \A i \in 1 .. n : S.next[List(S)[i]] = IF i = n THEN Null ELSE List(S)[i + 1]
        /\ \A x \in Listed(S) : x \in Struct /\ x \notin X
  BY FineLists
<1>2. PICK c \in 1 .. n : e = List(S)[c]
  BY <1>1
<1>3. n # 0
  BY <1>2
<1>4. e \in Struct /\ e \notin X
  BY <1>1
<1>5. Sorted(Times(S), List(S), n, y)
  BY <1>1 DEF Fine
<1>6. Placed(S, X, y, e, n, m, c)
  BY <1>1, <1>2, <1>3, <1>4, <1>5 DEF Placed
<1> QED BY <1>6

\* r = r->next, when r has no time left
LEMMA PassedFine ==
    ASSUME NEW S, NEW X, NEW Z, NEW y, Fine(S, X, Z, y), y \in Listed(S), S.data[y].timer = 0
    PROVE  Fine(S, X, Z, S.next[y])
<1>0. PICK n, m \in Nat : \E c \in 1 .. n : Placed(S, X, y, y, n, m, c)
  BY FinePlace
<1>1. PICK c \in 1 .. n :
        /\ Len(List(S)) = n /\ List(S) \in [1 .. n -> Struct]
        /\ \A i, j \in 1 .. n : List(S)[i] = List(S)[j] => i = j
        /\ y = List(S)[c] /\ y \in Struct
        /\ S.next[y] = IF c = n THEN Null ELSE List(S)[c + 1]
        /\ Sorted(Times(S), List(S), n, y)
  BY <1>0 DEF Placed
<1>2. S \in Book
  BY DEF Fine
<1>3. PICK l, z, time : l = List(S) /\ z = S.next[y] /\ time = Times(S)
  OBVIOUS
<1>4. time \in [Struct -> Nat] /\ time[y] = 0
  BY <1>1, <1>2, <1>3, TimesIs
<1>5. l \in [1 .. n -> Struct] /\ (\A i, j \in 1 .. n : l[i] = l[j] => i = j) /\ Sorted(time, l, n, l[c]) /\ time[l[c]] = 0
      /\ (c # n => z = l[c + 1])
  BY <1>1, <1>3, <1>4
<1>6. Sorted(time, l, n, z)
  BY ONLY <1>1, <1>4, <1>5, SortedPassed
<1> QED BY <1>1, <1>3, <1>6 DEF Fine

\* r->timer-- and r = r->next
LEMMA AgedFine ==
    ASSUME NEW S, NEW X, NEW Z, NEW y, Fine(S, X, Z, y), y \in Listed(S), S.data[y].timer > 0,
           NEW T, T = [S EXCEPT !.data[y].timer = @ - 1]
    PROVE  /\ Fine(T, X, Z, S.next[y])
           /\ Held(T) = Held(S) /\ T.count = S.count
<1>0. PICK n, m \in Nat : \E c \in 1 .. n : Placed(S, X, y, y, n, m, c)
  BY FinePlace
<1>1. PICK c \in 1 .. n :
        /\ Len(List(S)) = n /\ List(S) \in [1 .. n -> Struct]
        /\ Listed(S) = {List(S)[i] : i \in 1 .. n}
        /\ \A i, j \in 1 .. n : List(S)[i] = List(S)[j] => i = j
        /\ y = List(S)[c] /\ y \in Struct
        /\ S.next[y] = IF c = n THEN Null ELSE List(S)[c + 1]
        /\ Sorted(Times(S), List(S), n, y)
  BY <1>0 DEF Placed
<1>2. /\ S \in Book /\ X \subseteq Struct /\ SoundBut(S, X)
      /\ \A x \in Struct : x \notin Listed(S) /\ x \notin X => S.data[x] = Unused
      /\ \A x \in Listed(S) : S.data[x].d \in Datagrams
      /\ \A x, g \in Listed(S) : S.data[x].d = S.data[g].d => x = g
      /\ \A x \in Struct : Ascends(S.data[x].p)
      /\ \A x \in Struct \ Z : S.data[x].last => Reached(S.data[x].p)
  BY DEF Fine
<1>3. S.data \in [Struct -> Datum] /\ S.data[y] \in Datum /\ S.data[y].timer \in 0 .. MaxAge /\ MaxAge \in Nat
  BY <1>1, <1>2, DatumIs, SizeAssumption DEF Book
<1>4. PICK datum : datum = [S.data[y] EXCEPT !.timer = @ - 1]
  OBVIOUS
<1>5. /\ datum \in Datum /\ datum.timer = S.data[y].timer - 1
      /\ datum.d = S.data[y].d /\ datum.p = S.data[y].p /\ datum.last = S.data[y].last
  <2>1. S.data[y].timer - 1 \in 0 .. MaxAge BY <1>3
  <2> QED BY <1>3, <1>4, <2>1 DEF Datum
<1>6. T = [S EXCEPT !.data = [S.data EXCEPT ![y] = datum]]
  BY <1>4
<1>7. /\ T \in Book /\ T.head = S.head /\ T.pool = S.pool /\ T.next = S.next /\ T.count = S.count
      /\ T.data = [S.data EXCEPT ![y] = datum]
  BY <1>1, <1>2, <1>3, <1>5, <1>6 DEF Book
<1>8. /\ T.data[y] = datum /\ \A x \in Struct : x # y => T.data[x] = S.data[x]
  BY <1>1, <1>3, <1>7
<1>9. /\ List(T) = List(S) /\ Listed(T) = Listed(S) /\ SoundBut(T, X)
  BY <1>2, <1>7, SamePointers
<1>10. PICK l, z, time, time2 : l = List(S) /\ z = S.next[y] /\ time = Times(S) /\ time2 = Times(T)
  OBVIOUS
<1>18. /\ time \in [Struct -> Nat] /\ time2 \in [Struct -> Nat]
       /\ \A x \in Struct : time[x] = S.data[x].timer /\ time2[x] = T.data[x].timer
  BY <1>2, <1>7, <1>10, TimesIs
<1>11. time \in [Struct -> Nat] /\ time2 \in [Struct -> Nat] /\ time[y] = S.data[y].timer /\ time2[y] = time[y] - 1
       /\ \A x \in Struct : x # y => time2[x] = time[x]
  <2>1. time[y] = S.data[y].timer BY <1>1, <1>18
  <2>2. time2[y] = datum.timer BY <1>1, <1>8, <1>18
  <2>3. time2[y] = time[y] - 1 BY <1>5, <2>1, <2>2
  <2>4. \A x \in Struct : x # y => time2[x] = time[x] BY <1>8, <1>18
  <2> QED BY <1>18, <2>1, <2>3, <2>4
<1>12. time2 = [time EXCEPT ![y] = @ - 1]
  BY <1>1, <1>11
<1>13. l \in [1 .. n -> Struct] /\ (\A i, j \in 1 .. n : l[i] = l[j] => i = j) /\ Sorted(time, l, n, l[c]) /\ time[l[c]] > 0
       /\ time2 = [time EXCEPT ![l[c]] = @ - 1] /\ (c # n => z = l[c + 1]) /\ time \in [Struct -> Nat]
  BY <1>1, <1>10, <1>11, <1>12
<1>14. Sorted(time2, l, n, z)
  BY ONLY <1>1, <1>13, SortedAged
<1>15. /\ \A x \in Struct : x \notin Listed(T) /\ x \notin X => T.data[x] = Unused
       /\ \A x \in Struct : Ascends(T.data[x].p)
       /\ \A x \in Struct \ Z : T.data[x].last => Reached(T.data[x].p)
  BY <1>2, <1>5, <1>8, <1>9
<1>16. /\ \A x \in Struct : T.data[x].d = S.data[x].d /\ T.data[x].p = S.data[x].p
       /\ \A x \in Listed(S) : x \in Struct
  BY <1>1, <1>5, <1>8
<1>17. /\ \A x \in Listed(T) : T.data[x].d \in Datagrams
       /\ \A x, g \in Listed(T) : T.data[x].d = T.data[g].d => x = g
  BY <1>2, <1>9, <1>16
<1>19. Fine(T, X, Z, S.next[y])
  BY <1>1, <1>2, <1>7, <1>9, <1>10, <1>14, <1>15, <1>17 DEF Fine
<1> QED BY <1>7, <1>16, <1>19, HeldSame

ShortenedFine(S, e, y, T) ==
    /\ Fine(T, {}, {e}, y) /\ Listed(T) = Listed(S)
    /\ Held(T) = Held(S) - 1 /\ T.count = S.count /\ T.next = S.next
    /\ \A x \in Struct : T.data[x].timer = S.data[x].timer

\* The first fragment leaves in the ICMP message.
LEMMA IcmpFine ==
    ASSUME NEW S, NEW y, Fine(S, {}, {}, y), NEW e, e \in Listed(S), S.data[e].p # <<>>,
           NEW T, T = [S EXCEPT !.data[e].p = Tail(S.data[e].p)]
    PROVE  ShortenedFine(S, e, y, T)
<1>1. S \in Book /\ S.data \in [Struct -> Datum] /\ e \in Struct /\ Ascends(S.data[e].p)
  <2>1. S \in Book /\ S.data \in [Struct -> Datum] BY DEF Fine, Book
  <2>2. e \in Struct BY FineLists
  <2> QED BY <2>1, <2>2 DEF Fine
<1>2. PICK p, t : p = S.data[e].p /\ t = Tail(p)
  OBVIOUS
<1>3. p \in Seq(Frags) /\ p # <<>> /\ Ascends(p) /\ S.data[e] \in Datum
  BY <1>1, <1>2, DatumIs
<1>4. /\ t \in Seq(Frags) /\ Len(t) = Len(p) - 1 /\ Len(p) \in Nat /\ Len(p) # 0
      /\ \A i \in 1 .. Len(t) : t[i] = p[i + 1]
  BY <1>2, <1>3
<1>5. Ascends(t)
  <2>1. ASSUME NEW i \in 1 .. Len(t) - 1 PROVE t[i].from < t[i + 1].from
    <3>1. i \in 1 .. Len(t) /\ i + 1 \in 1 .. Len(t) /\ i + 1 \in 1 .. Len(p) - 1 BY <1>4
    <3>2. p[i + 1].from < p[i + 1 + 1].from BY <1>3, <3>1 DEF Ascends
    <3> QED BY <1>4, <3>1, <3>2
  <2> QED BY <2>1 DEF Ascends
<1>6. PICK datum : datum = [S.data[e] EXCEPT !.p = t]
  OBVIOUS
<1>7. /\ datum \in Datum /\ datum.p = t /\ datum.timer = S.data[e].timer
      /\ datum.d = S.data[e].d /\ datum.last = S.data[e].last
  BY <1>3, <1>4, <1>6 DEF Datum
<1>8. T = [S EXCEPT !.data = [S.data EXCEPT ![e] = datum]]
  BY <1>2, <1>6
<1>9. /\ T \in Book /\ T.head = S.head /\ T.pool = S.pool /\ T.next = S.next /\ T.count = S.count
      /\ T.data = [S.data EXCEPT ![e] = datum] /\ T.data \in [Struct -> Datum]
  <2>1. [S.data EXCEPT ![e] = datum] \in [Struct -> Datum] BY ONLY <1>1, <1>7
  <2> QED BY ONLY <1>1, <1>8, <2>1 DEF Book
<1>10. /\ T.data[e] = datum /\ \A x \in Struct : x # e => T.data[x] = S.data[x]
  BY <1>1, <1>9
<1>11. Fine(S, {}, {e}, y)
  BY FineSpoilt
<1>12. /\ T.data[e].d = S.data[e].d /\ T.data[e].timer = S.data[e].timer
       /\ Ascends(T.data[e].p) /\ e \in {e}
  BY <1>5, <1>7, <1>10
<1>13. Fine(T, {}, {e}, y) /\ Listed(T) = Listed(S)
  <2>1. e \in Listed(S) /\ T \in Book /\ T.head = S.head /\ T.pool = S.pool /\ T.next = S.next
    BY <1>9
  <2> QED BY ONLY <2>1, <1>10, <1>11, <1>12, Refilled
<1>14. Held(T) = Held(S) - Len(p) + Len(t)
  <2>1. \A x \in Struct : x # e => T.data[x].p = S.data[x].p BY <1>10
  <2>2. Held(T) = Held(S) - Len(S.data[e].p) + Len(T.data[e].p) BY ONLY <1>1, <1>9, <2>1, HeldChanges
  <2> QED BY <1>2, <1>7, <1>10, <2>2
<1>15. Held(S) \in Nat
  BY <1>1, HeldIs
<1>16. Held(T) = Held(S) - 1
  BY <1>4, <1>14, <1>15
<1>17. \A x \in Struct : T.data[x].timer = S.data[x].timer
  BY <1>10, <1>12
<1> QED BY <1>9, <1>13, <1>16, <1>17 DEF ShortenedFine

\* The structures l in use, q in the pool: what makes them fine.
FineData(T, A, X, Z) ==
    /\ \A x \in Struct : x \notin A /\ x \notin X => T.data[x] = Unused
    /\ \A x \in A : T.data[x].d \in Datagrams
    /\ \A x, g \in A : T.data[x].d = T.data[g].d => x = g
    /\ \A x \in Struct : Ascends(T.data[x].p)
    /\ \A x \in Struct \ Z : T.data[x].last => Reached(T.data[x].p)

LEMMA FineFrom ==
    ASSUME NEW T, T \in Book, NEW X, X \subseteq Struct, NEW l, NEW n, NEW q, NEW m, Lists(T, l, n, q, m, X),
           NEW y, Sorted(Times(T), l, n, y), NEW A, A = {l[i] : i \in 1 .. n}, NEW Z, FineData(T, A, X, Z)
    PROVE  Fine(T, X, Z, y) /\ Listed(T) = A
<1>1. T \in Book /\ X \subseteq Struct
  OBVIOUS
<1>2. Lists(T, l, n, q, m, X)
  OBVIOUS
<1>3. SoundBut(T, X) /\ List(T) = l /\ Len(List(T)) = n
  BY ONLY <1>1, <1>2, ListsSound
<1>4. Listed(T) = {l[i] : i \in 1 .. n}
  BY ONLY <1>1, <1>2, ListsSound
<1> QED BY <1>3, <1>4 DEF Fine, FineData

\* e has left the list for X, the rest is as it was.
UnlinksFine(S, e, y, before, T) ==
    /\ Fine(T, {e}, {e}, y) /\ (\A x : x \in Listed(T) <=> x \in Listed(S) /\ x # e)
    /\ T.data = S.data /\ T.count = S.count /\ T.pool = S.pool
    /\ T.head = IF before = Null THEN S.next[e] ELSE S.head
    /\ before # Null => before \in Listed(S) /\ before # e /\ T.next[before] = S.next[e]

\* T is S with e = l[k] taken off the list.
TakenOff(S, X, l, n, q, m, k, e, T) ==
    /\ T \in Book /\ e \in Struct /\ e \notin X
    /\ T.pool = S.pool /\ T.count = S.count /\ T.data = S.data
    /\ Lists(T, Drop(l, n, k), n - 1, q, m, X \cup {e})

LEMMA UnlinkedIs ==
    ASSUME NEW S \in Book, NEW X, X \subseteq Struct, NEW l, NEW n, NEW q, NEW m, Lists(S, l, n, q, m, X),
           NEW k \in 1 .. n, NEW e, e = l[k], NEW before, k # 1 => before = l[k - 1],
           NEW T, T = Unlink(S, e, before)
    PROVE  TakenOff(S, X, l, n, q, m, k, e, T)
<1> DEFINE U == Unlink(S, l[k], before)
<1>1. /\ U \in Book /\ l[k] \in Struct \ X
      /\ U.pool = S.pool /\ U.count = S.count /\ U.data = S.data
      /\ \A x \in Struct : U.next[x] = S.next[x] \/ S.next[x] = l[k]
      /\ Lists(U, Drop(l, n, k), n - 1, q, m, X \cup {l[k]})
  BY Unlinked
<1>2. T = U
  OBVIOUS
<1> HIDE DEF U
<1> QED BY <1>1, <1>2 DEF TakenOff

LEMMA UnlinkedFine ==
    ASSUME NEW S, NEW y, NEW e, Fine(S, {}, {e}, y), e \in Listed(S), e # y,
           NEW before, IF before = Null THEN S.head = e ELSE before \in Listed(S) /\ S.next[before] = e,
           NEW T, T = Unlink(S, e, before)
    PROVE  UnlinksFine(S, e, y, before, T)
<1>0. PICK n, m \in Nat : \E c \in 1 .. n : Placed(S, {}, y, e, n, m, c)
  BY FinePlace
<1>1. PICK c \in 1 .. n : Placed(S, {}, y, e, n, m, c)
  BY <1>0
<1>2. PICK l, q : l = List(S) /\ q = Pool(S)
  OBVIOUS
<1>3. /\ Lists(S, l, n, q, m, {})
      /\ l \in [1 .. n -> Struct] /\ Listed(S) = {l[i] : i \in 1 .. n}
      /\ \A i, j \in 1 .. n : l[i] = l[j] => i = j
      /\ e = l[c] /\ e \in Struct /\ S.head = l[1]
      /\ S.next[e] = IF c = n THEN Null ELSE l[c + 1]
      /\ \A i \in 1 .. n : i # n => S.next[l[i]] = l[i + 1]
      /\ Sorted(Times(S), l, n, y)
  BY <1>1, <1>2 DEF Placed
<1>4. /\ S \in Book
      /\ \A x \in Struct : x \notin Listed(S) => S.data[x] = Unused
      /\ \A x \in Listed(S) : S.data[x].d \in Datagrams
      /\ \A x, g \in Listed(S) : S.data[x].d = S.data[g].d => x = g
      /\ \A x \in Struct : Ascends(S.data[x].p)
      /\ \A x \in Struct \ {e} : S.data[x].last => Reached(S.data[x].p)
  BY DEF Fine
<1>5. n # 0 /\ 1 \in 1 .. n
  OBVIOUS
<1>6. (before = Null <=> c = 1) /\ (c # 1 => before = l[c - 1])
  <2>1. CASE before = Null
    <3>1. c = 1 BY <1>3, <1>5, <2>1
    <3> QED BY <2>1, <3>1
  <2>2. CASE before # Null
    <3>1. PICK i \in 1 .. n : before = l[i] BY <1>3, <2>2
    <3>2. S.next[l[i]] = l[c] BY <1>3, <2>2, <3>1
    <3>3. i # n
      <4>1. Row(S.next, S.head, l, n) BY <1>3 DEF Lists
      <4>2. i = n => S.next[l[i]] = Null BY <4>1 DEF Row
      <4>3. l[c] # Null BY <1>3, SizeAssumption
      <4> QED BY <3>2, <4>2, <4>3
    <3>4. i + 1 \in 1 .. n /\ l[i + 1] = l[c] BY <1>3, <3>2, <3>3
    <3>5. i + 1 = c BY <1>3, <3>4
    <3> QED BY <2>2, <3>1, <3>5
  <2> QED BY <2>1, <2>2
<1>7. /\ T \in Book /\ T.pool = S.pool /\ T.count = S.count /\ T.data = S.data
      /\ Lists(T, Drop(l, n, c), n - 1, q, m, {e})
  <2>1. {} \subseteq Struct OBVIOUS
  <2>2. c # 1 => before = l[c - 1] BY <1>6
  <2>3. PICK X : X = {} OBVIOUS
  <2>4. S \in Book /\ X \subseteq Struct /\ Lists(S, l, n, q, m, X) BY <1>3, <1>4, <2>1, <2>3
  <2>5. e = l[c] /\ T = Unlink(S, e, before) BY <1>3
  <2>6. TakenOff(S, X, l, n, q, m, c, e, T) BY ONLY c \in 1 .. n, <2>2, <2>4, <2>5, UnlinkedIs
  <2>7. X \cup {e} = {e} BY <2>3
  <2> QED BY <2>6, <2>7 DEF TakenOff
<1>8. /\ \A i \in 1 .. n - 1 : /\ Drop(l, n, c)[i] # l[c]
                               /\ \E j \in 1 .. n : l[j] = Drop(l, n, c)[i]
      /\ \A j \in 1 .. n : j # c => \E i \in 1 .. n - 1 : Drop(l, n, c)[i] = l[j]
  <2>1. \A i, j \in 1 .. n : l[i] = l[j] => i = j BY <1>3
  <2>2. ButFor(Drop(l, n, c), l, n, c) BY ONLY n \in Nat, c \in 1 .. n, <2>1, Dropped
  <2> QED BY ONLY <2>2 DEF ButFor
<1>9. PICK A : A = {Drop(l, n, c)[i] : i \in 1 .. n - 1}
  OBVIOUS
<1>10. \A x : x \in A <=> x \in Listed(S) /\ x # e
  <2> TAKE x
  <2>1. ASSUME NEW i \in 1 .. n - 1, Drop(l, n, c)[i] = x PROVE (\E j \in 1 .. n : l[j] = x) /\ x # e
    BY <1>3, <1>8, <2>1
  <2>2. ASSUME NEW j \in 1 .. n, l[j] = x, x # e PROVE \E i \in 1 .. n - 1 : Drop(l, n, c)[i] = x
    BY <1>3, <1>8, <2>2
  <2> QED BY <1>3, <1>9, <2>1, <2>2
<1>11. Sorted(Times(T), Drop(l, n, c), n - 1, y)
  <2>1. Times(T) = Times(S) BY <1>7 DEF Times
  <2>2. Times(S) \in [Struct -> Nat] BY <1>4, TimesIs
  <2>3. l[c] # y BY <1>3
  <2>4. Sorted(Times(S), l, n, y) /\ l \in [1 .. n -> Struct] BY <1>3
  <2>5. Sorted(Times(S), Drop(l, n, c), n - 1, y)
    BY ONLY n \in Nat, c \in 1 .. n, <2>2, <2>3, <2>4, SortedDrop
  <2> QED BY <2>1, <2>5
<1>12. Fine(T, {e}, {e}, y) /\ Listed(T) = A
  <2>1. PICK t, k, X : t = Drop(l, n, c) /\ k = n - 1 /\ X = {e} OBVIOUS
  <2>2. FineData(T, A, X, X) BY <1>4, <1>7, <1>10, <2>1 DEF FineData
  <2>3. T \in Book /\ X \subseteq Struct /\ Lists(T, t, k, q, m, X) BY <1>3, <1>7, <2>1
  <2>4. Sorted(Times(T), t, k, y) /\ A = {t[i] : i \in 1 .. k} BY <1>9, <1>11, <2>1
  <2>5. Fine(T, X, X, y) /\ Listed(T) = A BY ONLY <2>2, <2>3, <2>4, FineFrom
  <2> QED BY <2>1, <2>5
<1>13. /\ T.head = IF before = Null THEN S.next[e] ELSE S.head
       /\ before # Null => T.next[before] = S.next[e]
  <2>1. CASE before = Null
    <3>1. S.head = e BY <2>1
    <3> QED BY <1>4, <2>1, <3>1 DEF Unlink, Book
  <2>2. CASE before # Null
    <3>1. c # 1 /\ c - 1 \in 1 .. n BY <1>6, <2>2
    <3>2. S.head # e BY <1>3, <1>5, <3>1
    <3>3. before \in Struct BY <1>3, <2>2
    <3>4. T = [S EXCEPT !.next[before] = S.next[e]] BY <3>2 DEF Unlink
    <3>5. S.next \in [Struct -> Ptr] BY <1>4 DEF Book, Links
    <3>6. T.head = S.head /\ T.next[before] = S.next[e] BY <1>4, <3>3, <3>4, <3>5 DEF Book
    <3> QED BY <2>2, <3>6
  <2> QED BY <2>1, <2>2
<1>14. before # Null => before \in Listed(S) /\ before # e
  <2> SUFFICES ASSUME before # Null PROVE before # e
    OBVIOUS
  <2>1. c # 1 /\ before = l[c - 1] /\ c - 1 \in 1 .. n BY <1>6
  <2> QED BY <1>3, <2>1
<1> QED BY <1>7, <1>10, <1>12, <1>13, <1>14 DEF UnlinksFine

\* A structure that has left the list: its pointer leads to the pool.
LinksFine(S, e, y, T) ==
    /\ Fine(T, {e}, {e}, y) /\ Listed(T) = Listed(S)
    /\ T.data = S.data /\ T.count = S.count /\ T.head = S.head /\ T.pool = S.pool
    /\ T.next[e] = S.pool /\ \A x \in Struct : x # e => T.next[x] = S.next[x]

LEMMA LinkedFine ==
    ASSUME NEW S, NEW y, NEW e, Fine(S, {e}, {e}, y), NEW T, T = [S EXCEPT !.next[e] = S.pool]
    PROVE  LinksFine(S, e, y, T)
<1>1. PICK l, q : l = List(S) /\ q = Pool(S)
  OBVIOUS
<1>2. PICK n, m \in Nat :
        /\ Lists(S, l, n, q, m, {e}) /\ Len(l) = n /\ l \in [1 .. n -> Struct]
        /\ Listed(S) = {l[i] : i \in 1 .. n}
  BY <1>1, FineLists
<1>3. /\ S \in Book /\ e \in Struct
      /\ Sorted(Times(S), l, n, y)
      /\ FineData(S, Listed(S), {e}, {e})
  BY <1>1, <1>2 DEF Fine, FineData
<1>4. /\ T \in Book /\ T.head = S.head /\ T.pool = S.pool /\ T.count = S.count /\ T.data = S.data
      /\ T.next = [S.next EXCEPT ![e] = S.pool]
  BY <1>3 DEF Book, Links
<1>5. T.next[e] = S.pool /\ \A x \in Struct : x # e => T.next[x] = S.next[x]
  BY <1>3, <1>4 DEF Book, Links
<1>6. Lists(T, l, n, q, m, {e})
  <2>1. /\ Row(S.next, S.head, l, n) /\ Row(S.next, S.pool, q, m)
        /\ q \in [1 .. m -> Struct]
        /\ \A i \in 1 .. n, j \in 1 .. m : l[i] # q[j]
        /\ \A x \in Struct : x \in {e} <=> (\A i \in 1 .. n : l[i] # x) /\ (\A j \in 1 .. m : q[j] # x)
    BY <1>2 DEF Lists, Row
  <2>2. \A i \in 1 .. n : l[i] # e BY <1>3, <2>1
  <2>3. \A j \in 1 .. m : q[j] # e BY <1>3, <2>1
  <2>4. \A i \in 1 .. n : T.next[l[i]] = S.next[l[i]] BY <1>2, <1>5, <2>2
  <2>5. \A j \in 1 .. m : T.next[q[j]] = S.next[q[j]] BY <1>5, <2>1, <2>3
  <2>6. Row(T.next, S.head, l, n) BY ONLY <2>1, <2>4, RowKept
  <2>7. Row(T.next, S.pool, q, m) BY ONLY <2>1, <2>5, RowKept
  <2> QED BY <1>4, <2>1, <2>6, <2>7 DEF Lists
<1>7. Fine(T, {e}, {e}, y) /\ Listed(T) = Listed(S)
  <2>1. PICK A, X : A = Listed(S) /\ X = {e} OBVIOUS
  <2>2. FineData(T, A, X, X) BY <1>3, <1>4, <2>1 DEF FineData
  <2>3. T \in Book /\ X \subseteq Struct /\ Lists(T, l, n, q, m, X) BY <1>3, <1>4, <1>6, <2>1
  <2>4. Sorted(Times(T), l, n, y) /\ A = {l[i] : i \in 1 .. n} BY <1>2, <1>3, <1>4, <2>1 DEF Times
  <2>5. Fine(T, X, X, y) /\ Listed(T) = A BY ONLY <2>2, <2>3, <2>4, FineFrom
  <2> QED BY <2>1, <2>5
<1> QED BY <1>4, <1>5, <1>7 DEF LinksFine

\* T is S with e, which was in no list, in front of the pool.
GivenBack(S, X, l, n, q, m, e, T) ==
    /\ T \in Book /\ T.head = S.head /\ T.pool = e /\ T.count = S.count
    /\ T.data[e] = Unused /\ \A x \in Struct : x # e => T.data[x] = S.data[x] /\ T.next[x] = S.next[x]
    /\ Lists(T, l, n, Push(e, q, m), m + 1, X \ {e})

LEMMA ReleasedIs ==
    ASSUME NEW S \in Book, NEW X, X \subseteq Struct, NEW l, NEW n, NEW q, NEW m, Lists(S, l, n, q, m, X),
           NEW e \in X, NEW T, T = Release(S, e)
    PROVE  GivenBack(S, X, l, n, q, m, e, T)
<1> DEFINE U == Release(S, e)
<1>1. /\ U \in Book
      /\ U.head = S.head /\ U.pool = e /\ U.count = S.count /\ U.data = [S.data EXCEPT ![e] = Unused]
      /\ U.next = [S.next EXCEPT ![e] = S.pool]
      /\ Lists(U, l, n, Push(e, q, m), m + 1, X \ {e})
  BY Released
<1>2. T = U
  OBVIOUS
<1> HIDE DEF U
<1>3. T.data[e] = Unused /\ \A x \in Struct : x # e => T.data[x] = S.data[x] /\ T.next[x] = S.next[x]
  BY <1>1, <1>2 DEF Book, Links
<1> QED BY <1>1, <1>2, <1>3 DEF GivenBack

ReleasesFine(S, e, y, T) ==
    /\ Fine(T, {}, {}, y) /\ Listed(T) = Listed(S)
    /\ T.count = S.count /\ Held(T) = Held(S) - Len(S.data[e].p) /\ T.head = S.head
    /\ \A x \in Struct : x # e => T.data[x] = S.data[x] /\ T.next[x] = S.next[x]

LEMMA ReleasedFine ==
    ASSUME NEW S, NEW y, NEW e, Fine(S, {e}, {e}, y), NEW T, T = Release(S, e)
    PROVE  ReleasesFine(S, e, y, T)
<1>1. PICK l, q : l = List(S) /\ q = Pool(S)
  OBVIOUS
<1>2. PICK n, m \in Nat :
        /\ Lists(S, l, n, q, m, {e}) /\ Len(l) = n /\ l \in [1 .. n -> Struct]
        /\ Listed(S) = {l[i] : i \in 1 .. n}
        /\ \A x \in Listed(S) : x \in Struct /\ x \notin {e}
  BY <1>1, FineLists
<1>3. /\ S \in Book /\ e \in Struct
      /\ Sorted(Times(S), l, n, y)
      /\ FineData(S, Listed(S), {e}, {e})
  BY <1>1, <1>2 DEF Fine, FineData
<1>4. /\ T \in Book /\ T.head = S.head /\ T.count = S.count
      /\ T.data[e] = Unused /\ (\A x \in Struct : x # e => T.data[x] = S.data[x] /\ T.next[x] = S.next[x])
      /\ Lists(T, l, n, Push(e, q, m), m + 1, {})
  <2>1. PICK X : X = {e} OBVIOUS
  <2>2. S \in Book /\ X \subseteq Struct /\ Lists(S, l, n, q, m, X) BY <1>2, <1>3, <2>1
  <2>3. e \in X /\ T = Release(S, e) BY <2>1
  <2>4. GivenBack(S, X, l, n, q, m, e, T) BY ONLY <2>2, <2>3, ReleasedIs
  <2>5. X \ {e} = {} BY <2>1
  <2> QED BY <2>4, <2>5 DEF GivenBack
<1>5. Fine(T, {}, {}, y) /\ Listed(T) = Listed(S)
  <2>1. PICK A, X, u, k : A = Listed(S) /\ X = {} /\ u = Push(e, q, m) /\ k = m + 1 OBVIOUS
  <2>2. Ascends(Unused.p) /\ ~Unused.last BY DEF Ascends, Unused
  <2>3. FineData(T, A, X, X) BY <1>2, <1>3, <1>4, <2>1, <2>2 DEF FineData
  <2>4. T \in Book /\ X \subseteq Struct /\ Lists(T, l, n, u, k, X) BY <1>4, <2>1
  <2>5. Sorted(Times(T), l, n, y) /\ A = {l[i] : i \in 1 .. n}
    <3>1. \A i \in 1 .. n : l[i] \in Struct /\ l[i] # e BY <1>2
    <3>2. \A i \in 1 .. n : Times(T)[l[i]] = Times(S)[l[i]] BY <1>4, <3>1 DEF Times
    <3>3. n \in Nat /\ Sorted(Times(S), l, n, y) BY <1>3
    <3>4. Sorted(Times(T), l, n, y) BY ONLY <3>2, <3>3, SortedSame
    <3> QED BY <1>2, <2>1, <3>4
  <2>6. Fine(T, X, X, y) /\ Listed(T) = A BY ONLY <2>3, <2>4, <2>5, FineFrom
  <2> QED BY <2>1, <2>6
<1>6. Held(T) = Held(S) - Len(S.data[e].p)
  <2>1. S.data \in [Struct -> Datum] /\ T.data \in [Struct -> Datum] /\ e \in Struct BY <1>3, <1>4 DEF Book
  <2>2. \A x \in Struct : x # e => T.data[x].p = S.data[x].p BY <1>4
  <2>3. Held(T) = Held(S) - Len(S.data[e].p) + Len(T.data[e].p) BY ONLY <2>1, <2>2, HeldChanges
  <2>4. Len(T.data[e].p) = 0 BY <1>4 DEF Unused
  <2>5. Held(S) \in Nat /\ Len(S.data[e].p) \in Nat BY ONLY <2>1, HeldIs
  <2> QED BY <2>3, <2>4, <2>5
<1> QED BY <1>4, <1>5, <1>6 DEF ReleasesFine
----------------------------------------------------------------------------
(* The invariant. *)

\* The structure whose fragments are being freed.
Spoilt == IF pc \in {"pbufs", "dequeue", "link", "put"} THEN {tmp} ELSE {}

\* The fragments that are counted in freed and still found in a structure.
Freed == IF pc \in {"dequeue", "link", "put"} THEN Len(reass.data[tmp].p) ELSE 0

Counted == Freed <= freed /\ reass.count = Held(reass) + freed - Freed

\* What the main loop knows of its pointers.
Knows ==
    /\ pc = "idle" => r = Null
    /\ pc \in {"idle", "scan", "icmp"} => freed = 0
    /\ pc \in {"icmp", "pbufs", "dequeue", "link", "put"} => tmp \in Struct /\ r # tmp
    /\ Freeing /\ r # Null /\ reass.data[r].timer = 0 => reass.next[tmp] = r

\* As long as nothing is damaged, the lists are two rows that share nothing,
\* their structures are in order, and the count is exact.
Good == Fine(reass, Gone, Spoilt, r) /\ Counted /\ Knows

Inv == TypeOK /\ OutOrdered /\ (~Damaged => Good)

\* What damage is besides two pointers to one structure.
Intact ==
    /\ ~touched
    /\ Freeing => tmp \in Listed(reass) /\ reass.data[tmp].timer = 0 /\ PrevIs(tmp)
    /\ pc # "idle" /\ r # Null => r \in Listed(reass)
    /\ pc # "idle" /\ ~Freeing /\ r # Null /\ reass.data[r].timer = 0 => PrevIs(r)
    /\ pc = "put" => reass.next[tmp] = reass.pool
    /\ pc = "store" => read = reass.count

LEMMA DamagedIs == ~Damaged <=> SoundBut(reass, Gone) /\ Intact
BY SoundIs DEF Damaged, Intact

LEMMA DamagedWill == (~Damaged)' <=> SoundBut(reass', Gone') /\ Intact'
BY DEF Damaged, Intact, Sound, SoundBut, Gone

\* The types, but for reass.
MainOK ==
    /\ pc \in {"idle", "scan", "icmp", "pbufs", "dequeue", "link", "put", "load", "store"}
    /\ r \in Ptr /\ tmp \in Ptr /\ prev \in Ptr
    /\ freed \in 0 .. MaxPbufs /\ read \in 0 .. MaxPbufs /\ touched \in BOOLEAN

LEMMA TypesAre ==
    /\ TypeOK => MainOK /\ reass.count \in 0 .. MaxPbufs
    /\ reass \in Book /\ reass.count \in 0 .. MaxPbufs /\ MainOK => TypeOK
BY DEF TypeOK, MainOK, Book, Datum, Links

LEMMA TypesWill == reass' \in Book /\ reass'.count \in 0 .. MaxPbufs /\ MainOK' => TypeOK'
BY DEF TypeOK, MainOK, Book, Datum, Links

\* All structures in the order of memp_init.
LEMMA OrderedAll ==
    ASSUME NEW order \in SetToSeqs(Struct)
    PROVE  /\ order \in [1 .. N -> Struct] /\ order \in Seq(Struct) /\ Len(order) = N
           /\ \A i, j \in 1 .. N : order[i] = order[j] => i = j
           /\ \A e \in Struct : \E i \in 1 .. N : order[i] = e
<1>1. order \in [1 .. N -> Struct] /\ \A i, j \in 1 .. N : order[i] = order[j] => i = j
  BY DEF SetToSeqs, N
<1>2. N \in Nat
  BY SizeOfStruct
<1>3. ASSUME NEW e \in Struct, \A i \in 1 .. N : order[i] # e PROVE FALSE
  <2> DEFINE s == [i \in 1 .. N + 1 |-> IF i = N + 1 THEN e ELSE order[i]]
  <2>1. s \in [1 .. N + 1 -> Struct] BY <1>1, <1>2
  <2>2. \A i, j \in 1 .. N + 1 : s[i] = s[j] => i = j BY <1>1, <1>2, <1>3
  <2>3. N + 1 \in Nat BY <1>2
  <2> HIDE DEF s
  <2>4. N + 1 <= N BY <2>1, <2>2, <2>3, Pigeons
  <2> QED BY <1>2, <2>4
<1>4. order \in Seq(Struct) /\ Len(order) = N
  BY <1>1, <1>2
<1> QED BY <1>1, <1>3, <1>4

LEMMA InitInv == Init => Inv
<1> SUFFICES ASSUME Init PROVE Inv
  OBVIOUS
<1>1. PICK order \in SetToSeqs(Struct) :
         reass = [head |-> Null, pool |-> Head(order), count |-> 0,
                  next |-> [e \in Struct |-> IF e = Last(order) THEN Null
                                             ELSE order[1 + CHOOSE i \in 1 .. N : order[i] = e]],
                  data |-> [e \in Struct |-> Unused]]
  BY DEF Init
<1>2. /\ order \in [1 .. N -> Struct] /\ order \in Seq(Struct) /\ Len(order) = N
      /\ \A i, j \in 1 .. N : order[i] = order[j] => i = j
      /\ \A e \in Struct : \E i \in 1 .. N : order[i] = e
  BY OrderedAll
<1>3. N \in Nat /\ N # 0
  BY SizeOfStruct
<1>4. Head(order) = order[1] /\ Last(order) = order[N] /\ 1 \in 1 .. N /\ N \in 1 .. N
  BY <1>2, <1>3 DEF Last
<1> DEFINE f == [e \in Struct |-> IF e = Last(order) THEN Null
                                  ELSE order[1 + CHOOSE i \in 1 .. N : order[i] = e]]
<1>5. ASSUME NEW j \in 1 .. N PROVE f[order[j]] = IF j = N THEN Null ELSE order[j + 1]
  <2>1. order[j] \in Struct BY <1>2
  <2>2. (CHOOSE i \in 1 .. N : order[i] = order[j]) = j BY <1>2
  <2>3. f[order[j]] = IF order[j] = order[N] THEN Null ELSE order[1 + j] BY <1>4, <2>1, <2>2
  <2>4. order[j] = order[N] <=> j = N BY <1>2, <1>4
  <2> QED BY <2>3, <2>4
<1>6. f \in Links
  <2>1. ASSUME NEW e \in Struct PROVE f[e] \in Ptr
    <3>1. PICK j \in 1 .. N : order[j] = e BY <1>2
    <3>2. f[order[j]] = IF j = N THEN Null ELSE order[j + 1] BY <1>5
    <3>3. j # N => j + 1 \in 1 .. N BY <1>3
    <3> HIDE DEF f
    <3> QED BY <1>2, <3>1, <3>2, <3>3 DEF Ptr
  <2>2. f \in [Struct -> Ptr] BY <2>1
  <2> QED BY <2>2 DEF Links
<1> HIDE DEF f
<1>7. /\ reass.head = Null /\ reass.pool = order[1] /\ reass.count = 0 /\ reass.next = f
      /\ reass.data = [e \in Struct |-> Unused]
      /\ reass = [head |-> Null, pool |-> order[1], count |-> 0, next |-> f, data |-> [e \in Struct |-> Unused]]
  BY <1>1, <1>4 DEF f
<1>8. Unused \in Datum /\ Ascends(Unused.p) /\ ~Unused.last /\ Unused.p = <<>>
  BY SizeAssumption DEF Unused, Datum, Ascends
<1>9. reass \in Book
  <2>1. order[1] \in Ptr /\ Null \in Ptr BY <1>2, <1>4 DEF Ptr
  <2>2. [e \in Struct |-> Unused] \in [Struct -> Datum] BY <1>8
  <2> QED BY <1>6, <1>7, <2>1, <2>2 DEF Book
<1>10. Lists(reass, <<>>, 0, order, N, {})
  <2>1. Row(reass.next, reass.head, <<>>, 0)
    <3>1. <<>> \in [1 .. 0 -> Struct] OBVIOUS
    <3> QED BY <1>7, <3>1 DEF Row
  <2>2. Row(reass.next, reass.pool, order, N) BY <1>2, <1>3, <1>5, <1>7 DEF Row
  <2> QED BY <1>2, <2>1, <2>2 DEF Lists
<1>11. Fine(reass, {}, {}, Null)
  <2>1. PICK l, n, A, X, m : l = <<>> /\ n = 0 /\ A = {} /\ X = {} /\ m = N OBVIOUS
  <2>2. FineData(reass, A, X, X) BY <1>7, <1>8, <2>1 DEF FineData
  <2>3. reass \in Book /\ X \subseteq Struct /\ Lists(reass, l, n, order, m, X) BY <1>9, <1>10, <2>1
  <2>4. Sorted(Times(reass), l, n, Null) /\ A = {l[i] : i \in 1 .. n} BY <2>1 DEF Sorted
  <2>5. Fine(reass, X, X, Null) /\ Listed(reass) = A BY ONLY <2>2, <2>3, <2>4, FineFrom
  <2> QED BY <2>1, <2>5
<1>12. Held(reass) = 0
  <2>1. Pbufs(reass, Struct) = {} BY <1>7, <1>8 DEF Pbufs
  <2> QED BY <2>1, FS_EmptySet DEF Held
<1>13. pc = "idle" /\ r = Null /\ freed = 0 /\ out = NoOut
  BY DEF Init
<1>14. Good
  BY <1>7, <1>11, <1>12, <1>13 DEF Good, Counted, Knows, Freed, Gone, Spoilt, Freeing
<1>15. TypeOK
  <2>1. reass.count \in 0 .. MaxPbufs BY <1>7, SizeAssumption
  <2>2. pc = "idle" /\ r = Null /\ tmp = Null /\ prev = Null /\ freed = 0 /\ read = 0 /\ touched = FALSE
    BY DEF Init
  <2>3. touched \in BOOLEAN BY <2>2
  <2>4. 0 \in 0 .. MaxPbufs BY SizeAssumption
  <2>5. MainOK BY <2>2, <2>3, <2>4 DEF MainOK, Ptr
  <2> QED BY <1>9, <2>1, <2>5, TypesAre
<1>16. OutOrdered
  BY <1>13 DEF OutOrdered, NoOut
<1> QED BY <1>14, <1>15, <1>16 DEF Inv
----------------------------------------------------------------------------
(* The steps of ip_reass_tmr: none damages anything. *)

Safe == TypeOK /\ ~Damaged /\ Good

LEMMA SafeFacts ==
    ASSUME Safe
    PROVE  /\ MainOK /\ Intact /\ Counted /\ Knows /\ Fine(reass, Gone, Spoilt, r)
           /\ reass \in Book /\ reass.count \in 0 .. MaxPbufs /\ Held(reass) \in Nat
           /\ MaxPbufs \in Nat \ {0} /\ freed \in Nat /\ reass.count \in Nat
<1>1. MainOK /\ Intact /\ reass.count \in 0 .. MaxPbufs
  BY TypesAre, DamagedIs DEF Safe
<1>2. Counted /\ Knows /\ Fine(reass, Gone, Spoilt, r)
  BY DEF Safe, Good
<1>3. reass \in Book
  BY <1>2 DEF Fine
<1>4. Held(reass) \in Nat
  <2>1. reass.data \in [Struct -> Datum] BY <1>3 DEF Book
  <2>2. PICK e : e \in Struct BY SizeAssumption
  <2> QED BY <2>1, <2>2, HeldIs
<1>5. freed \in Nat /\ reass.count \in Nat
  BY <1>1 DEF MainOK
<1> QED BY <1>1, <1>2, <1>3, <1>4, <1>5, SizeAssumption

LEMMA SafeWill ==
    ASSUME Fine(reass', Gone', Spoilt', r'), Counted', Knows', Intact', MainOK', reass'.count \in 0 .. MaxPbufs
    PROVE  Safe'
<1>1. reass' \in Book /\ SoundBut(reass', Gone')
  BY DEF Fine
<1>2. TypeOK' /\ (~Damaged)'
  BY <1>1, TypesWill, DamagedWill
<1>3. Good'
  BY DEF Good
<1> QED BY <1>2, <1>3 DEF Safe

LEMMA HeadListed ==
    ASSUME NEW S, NEW X, NEW Z, NEW y, Fine(S, X, Z, y)
    PROVE  S.head \in Ptr /\ (S.head # Null => S.head \in Listed(S))
<1>1. PICK n \in Nat :
        /\ Listed(S) = {List(S)[i] : i \in 1 .. n}
        /\ S.head = IF n = 0 THEN Null ELSE List(S)[1]
  BY FineLists
<1>2. S.head \in Ptr
  BY DEF Fine, Book
<1> QED BY <1>1, <1>2

LEMMA NextListed ==
    ASSUME NEW S, NEW X, NEW Z, NEW y, Fine(S, X, Z, y), NEW e, e \in Listed(S)
    PROVE  /\ e \in Struct /\ S.next[e] \in Ptr /\ S.next[e] # e
           /\ S.next[e] # Null => S.next[e] \in Listed(S)
<1>0. PICK n, m \in Nat : \E c \in 1 .. n : Placed(S, X, y, e, n, m, c)
  BY FinePlace
<1>1. PICK c \in 1 .. n : Placed(S, X, y, e, n, m, c)
  BY <1>0
<1>2. PICK l : l = List(S)
  OBVIOUS
<1>3. /\ l \in [1 .. n -> Struct] /\ Listed(S) = {l[i] : i \in 1 .. n}
      /\ \A i, j \in 1 .. n : l[i] = l[j] => i = j
      /\ e = l[c] /\ e \in Struct
      /\ S.next[e] = IF c = n THEN Null ELSE l[c + 1]
  BY <1>1, <1>2 DEF Placed
<1>4. CASE c = n
  BY <1>3, <1>4, SizeAssumption DEF Ptr
<1>5. CASE c # n
  <2>1. c + 1 \in 1 .. n /\ c + 1 # c BY <1>5
  <2> QED BY <1>3, <1>5, <2>1 DEF Ptr
<1> QED BY <1>4, <1>5

LEMMA StartSafe == Safe /\ TmrStart => Safe'
<1> SUFFICES ASSUME Safe, TmrStart PROVE Safe'
  OBVIOUS
<1>1. /\ MainOK /\ Intact /\ Counted /\ Knows /\ Fine(reass, Gone, Spoilt, r)
      /\ reass.count \in 0 .. MaxPbufs
  BY SafeFacts
<1>2. /\ pc = "idle" /\ r' = reass.head /\ prev' = Null /\ pc' = "scan"
      /\ reass' = reass /\ tmp' = tmp /\ freed' = freed /\ read' = read /\ touched' = touched
  BY DEF TmrStart
<1>3. Gone = {} /\ Spoilt = {} /\ Gone' = {} /\ Spoilt' = {} /\ Freed = 0 /\ Freed' = 0
  BY <1>2 DEF Gone, Spoilt, Freed
<1>4. r = Null /\ freed = 0
  BY <1>1, <1>2 DEF Knows
<1>5. Fine(reass, {}, {}, Null) /\ Fine(reass, {}, {}, reass.head)
  BY <1>1, <1>3, <1>4, FineNone
<1>6. reass.head \in Ptr /\ (reass.head # Null => reass.head \in Listed(reass))
  BY <1>5, HeadListed
<1>7. Fine(reass', Gone', Spoilt', r')
  BY <1>2, <1>3, <1>5
<1>8. Counted'
  BY <1>1, <1>2, <1>3 DEF Counted
<1>9. Knows'
  BY <1>2, <1>4 DEF Knows, Freeing
<1>10. Intact'
  BY <1>1, <1>2, <1>6 DEF Intact, Freeing, PrevIs
<1>11. MainOK'
  <2>1. Null \in Ptr BY DEF Ptr
  <2> QED BY <1>1, <1>2, <1>6, <2>1 DEF MainOK
<1> QED BY <1>1, <1>2, <1>7, <1>8, <1>9, <1>10, <1>11, SafeWill

LEMMA AgeSafe == Safe /\ TmrAge => Safe'
<1> SUFFICES ASSUME Safe, TmrAge PROVE Safe'
  OBVIOUS
<1>1. /\ MainOK /\ Intact /\ Counted /\ Knows /\ Fine(reass, Gone, Spoilt, r)
      /\ reass.count \in 0 .. MaxPbufs /\ reass \in Book
  BY SafeFacts
<1>2. /\ pc = "scan" /\ r # Null /\ reass.data[r].timer > 0
      /\ reass' = [reass EXCEPT !.data[r].timer = @ - 1]
      /\ prev' = r /\ r' = reass.next[r]
      /\ pc' = pc /\ tmp' = tmp /\ freed' = freed /\ read' = read /\ touched' = touched
  BY DEF TmrAge
<1>3. Gone = {} /\ Spoilt = {} /\ Gone' = {} /\ Spoilt' = {} /\ Freed = 0 /\ Freed' = 0
  BY <1>2 DEF Gone, Spoilt, Freed
<1>4. freed = 0 /\ r \in Listed(reass)
  BY <1>1, <1>2 DEF Knows, Intact
<1>5. Fine(reass, {}, {}, r)
  BY <1>1, <1>3
<1>6. /\ r \in Struct /\ reass.next[r] \in Ptr
      /\ reass.next[r] # Null => reass.next[r] \in Listed(reass)
  BY <1>4, <1>5, NextListed
<1>7. PICK T : T = reass'
  OBVIOUS
<1>8. Fine(T, {}, {}, reass.next[r]) /\ Held(T) = Held(reass) /\ T.count = reass.count
  BY <1>2, <1>4, <1>5, <1>7, AgedFine
<1>9. T.next = reass.next /\ T.head = reass.head /\ T.pool = reass.pool
  BY <1>1, <1>2, <1>7 DEF Book
<1>10. Listed(T) = Listed(reass)
  BY ONLY <1>9, SamePointers
<1>11. Fine(reass', Gone', Spoilt', r')
  BY <1>2, <1>3, <1>7, <1>8
<1>12. /\ pc' = "scan" /\ pc = "scan" /\ prev' = r /\ r # Null /\ r' = reass.next[r]
       /\ tmp' = tmp /\ freed' = freed /\ read' = read /\ touched' = touched
  BY <1>2
<1>13. Counted'
  BY <1>1, <1>3, <1>7, <1>8, <1>12 DEF Counted
<1>14. Knows'
  BY <1>4, <1>12 DEF Knows, Freeing
<1>15. Intact'
  BY <1>1, <1>4, <1>6, <1>7, <1>9, <1>10, <1>12 DEF Intact, Freeing, PrevIs
<1>16. MainOK'
  <2>1. r \in Ptr BY <1>6 DEF Ptr
  <2> QED BY <1>1, <1>6, <1>12, <2>1 DEF MainOK
<1> QED BY <1>1, <1>7, <1>8, <1>11, <1>13, <1>14, <1>15, <1>16, SafeWill

LEMMA ExpireSafe == Safe /\ TmrExpire => Safe'
<1> SUFFICES ASSUME Safe, TmrExpire PROVE Safe'
  OBVIOUS
<1>1. /\ MainOK /\ Intact /\ Counted /\ Knows /\ Fine(reass, Gone, Spoilt, r)
      /\ reass.count \in 0 .. MaxPbufs
  BY SafeFacts
<1>2. /\ pc = "scan" /\ r # Null /\ reass.data[r].timer = 0
      /\ tmp' = r /\ r' = reass.next[r] /\ pc' = "icmp"
      /\ reass' = reass /\ prev' = prev /\ freed' = freed /\ read' = read /\ touched' = touched
  BY DEF TmrExpire
<1>3. Gone = {} /\ Spoilt = {} /\ Gone' = {} /\ Spoilt' = {} /\ Freed = 0 /\ Freed' = 0
  BY <1>2 DEF Gone, Spoilt, Freed
<1>4. freed = 0 /\ r \in Listed(reass) /\ PrevIs(r)
  BY <1>1, <1>2 DEF Knows, Intact, Freeing
<1>5. Fine(reass, {}, {}, r)
  BY <1>1, <1>3
<1>6. /\ r \in Struct /\ reass.next[r] \in Ptr /\ reass.next[r] # r
      /\ reass.next[r] # Null => reass.next[r] \in Listed(reass)
  BY <1>4, <1>5, NextListed
<1>7. Fine(reass, {}, {}, reass.next[r])
  BY <1>2, <1>4, <1>5, PassedFine
<1>8. Fine(reass', Gone', Spoilt', r')
  BY <1>2, <1>3, <1>7
<1>9. Counted'
  BY <1>1, <1>2, <1>3 DEF Counted
<1>10. Knows'
  BY <1>2, <1>4, <1>6 DEF Knows, Freeing
<1>11. Intact'
  BY <1>1, <1>2, <1>4, <1>6 DEF Intact, Freeing, PrevIs
<1>12. MainOK'
  <2>1. r \in Ptr BY <1>6 DEF Ptr
  <2> QED BY <1>1, <1>2, <1>6, <2>1 DEF MainOK
<1> QED BY <1>1, <1>2, <1>8, <1>9, <1>10, <1>11, <1>12, SafeWill

LEMMA IcmpSafe == Safe /\ TmrIcmp => Safe'
<1> SUFFICES ASSUME Safe, TmrIcmp PROVE Safe'
  OBVIOUS
<1>1. /\ MainOK /\ Intact /\ Counted /\ Knows /\ Fine(reass, Gone, Spoilt, r)
      /\ reass.count \in 0 .. MaxPbufs /\ Held(reass) \in Nat /\ reass.count \in Nat
      /\ MaxPbufs \in Nat \ {0}
  BY SafeFacts
<1>2. PICK p : p = reass.data[tmp].p
  OBVIOUS
<1>3. /\ pc = "icmp" /\ pc' = "pbufs"
      /\ IF p # <<>> /\ p[1].from = 0
         THEN reass' = [reass EXCEPT !.data[tmp].p = Tail(p)] /\ freed' = 1
         ELSE reass' = reass /\ freed' = freed
      /\ r' = r /\ tmp' = tmp /\ prev' = prev /\ read' = read /\ touched' = touched
  BY <1>2 DEF TmrIcmp
<1>4. Gone = {} /\ Spoilt = {} /\ Gone' = {} /\ Spoilt' = {tmp} /\ Freed = 0 /\ Freed' = 0
  BY <1>3 DEF Gone, Spoilt, Freed
<1>5. freed = 0 /\ tmp \in Struct /\ r # tmp
  BY <1>1, <1>3 DEF Knows
<1>6. /\ tmp \in Listed(reass) /\ reass.data[tmp].timer = 0 /\ PrevIs(tmp)
      /\ (r # Null => r \in Listed(reass))
      /\ (r # Null /\ reass.data[r].timer = 0 => reass.next[tmp] = r)
  BY <1>1, <1>3 DEF Intact, Knows, Freeing
<1>7. Fine(reass, {}, {}, r)
  BY <1>1, <1>4
<1>8. PICK T : T = reass'
  OBVIOUS
<1>9. /\ Fine(T, {}, {tmp}, r) /\ Listed(T) = Listed(reass)
      /\ T.count = reass.count /\ T.next = reass.next /\ T.head = reass.head
      /\ \A x \in Struct : T.data[x].timer = reass.data[x].timer
      /\ T.count = Held(T) + freed' /\ freed' \in 0 .. 1
  <2>0. reass.count = Held(reass) BY <1>1, <1>4, <1>5 DEF Counted
  <2>1. CASE p # <<>> /\ p[1].from = 0
    <3>1. T = [reass EXCEPT !.data[tmp].p = Tail(reass.data[tmp].p)] /\ freed' = 1 BY <1>2, <1>3, <1>8, <2>1
    <3>2. /\ Fine(T, {}, {tmp}, r) /\ Listed(T) = Listed(reass)
          /\ Held(T) = Held(reass) - 1 /\ T.count = reass.count /\ T.next = reass.next
          /\ \A x \in Struct : T.data[x].timer = reass.data[x].timer
      <4>1. reass.data[tmp].p # <<>> BY <1>2, <2>1
      <4>2. ShortenedFine(reass, tmp, r, T) BY <1>6, <1>7, <3>1, <4>1, IcmpFine
      <4> QED BY <4>2 DEF ShortenedFine
    <3>3. T.head = reass.head
      <4>1. reass \in Book BY <1>7 DEF Fine
      <4> QED BY <3>1, <4>1 DEF Book
    <3>4. T.count = Held(T) + freed'
      <4>1. PICK a, b : a = Held(reass) /\ b = Held(T) OBVIOUS
      <4>2. a \in Nat /\ b = a - 1 /\ T.count = a BY <1>1, <2>0, <3>2, <4>1
      <4>3. T.count = b + 1 BY <4>2
      <4> QED BY <3>1, <4>1, <4>3
    <3> QED BY <3>1, <3>2, <3>3, <3>4
  <2>2. CASE ~(p # <<>> /\ p[1].from = 0)
    <3>1. T = reass /\ freed' = 0 BY <1>3, <1>5, <1>8, <2>2
    <3>2. Fine(T, {}, {tmp}, r) BY <1>7, <3>1, FineSpoilt
    <3>3. T.count = Held(T) + freed' BY <1>1, <2>0, <3>1
    <3> QED BY <3>1, <3>2, <3>3
  <2> QED BY <2>1, <2>2
<1>10. Fine(reass', Gone', Spoilt', r')
  BY <1>3, <1>4, <1>8, <1>9
<1>11. /\ pc = "icmp" /\ pc' = "pbufs"
       /\ r' = r /\ tmp' = tmp /\ prev' = prev /\ read' = read /\ touched' = touched
  BY <1>3
<1>12. Counted'
  <2>1. Freed' = 0 /\ freed' \in Nat BY <1>4, <1>9
  <2>2. reass'.data \in [Struct -> Datum] BY <1>8, <1>9 DEF Fine, Book
  <2>3. PICK a, b : a = Held(reass') /\ b = freed' OBVIOUS
  <2>4. a \in Nat
    <3>1. PICK U : U = reass' OBVIOUS
    <3>2. Held(U) \in Nat BY <1>5, <2>2, <3>1, HeldIs
    <3> QED BY <2>3, <3>1, <3>2
  <2>5. reass'.count = a + b - 0 BY <1>8, <1>9, <2>1, <2>3, <2>4
  <2> QED BY <2>1, <2>3, <2>5 DEF Counted
<1>13. Knows'
  <2>1. r # Null /\ reass'.data[r].timer = 0 => reass'.next[tmp] = r
    <3>1. r # Null => r \in Struct BY <1>6, <1>7, FineLists
    <3> QED BY <1>6, <1>8, <1>9, <3>1
  <2> QED BY <1>5, <1>11, <2>1 DEF Knows, Freeing
<1>14. Intact'
  <2>1. /\ tmp \in Listed(reass') /\ reass'.data[tmp].timer = 0 /\ (r # Null => r \in Listed(reass'))
        /\ reass'.head = reass.head /\ reass'.next = reass.next /\ Listed(reass') = Listed(reass)
    BY <1>5, <1>6, <1>8, <1>9
  <2>2. PrevIs(tmp)' BY <1>6, <1>11, <2>1 DEF PrevIs
  <2> QED BY <1>1, <1>11, <2>1, <2>2 DEF Intact, Freeing
<1>15. MainOK'
  <2>1. freed' \in 0 .. MaxPbufs BY <1>1, <1>9
  <2> QED BY <1>1, <1>11, <2>1 DEF MainOK
<1> QED BY <1>1, <1>8, <1>9, <1>10, <1>12, <1>13, <1>14, <1>15, SafeWill

LEMMA PbufsSafe == Safe /\ TmrPbufs => Safe'
<1> SUFFICES ASSUME Safe, TmrPbufs PROVE Safe'
  OBVIOUS
<1>1. /\ MainOK /\ Intact /\ Counted /\ Knows /\ Fine(reass, Gone, Spoilt, r)
      /\ reass.count \in 0 .. MaxPbufs /\ Held(reass) \in Nat /\ reass.count \in Nat
      /\ MaxPbufs \in Nat \ {0} /\ freed \in Nat /\ reass \in Book
  BY SafeFacts
<1>2. PICK n : n = Len(reass.data[tmp].p)
  OBVIOUS
<1>3. /\ pc = "pbufs" /\ freed' = freed + n /\ pc' = "dequeue"
      /\ reass' = reass /\ r' = r /\ tmp' = tmp /\ prev' = prev /\ read' = read /\ touched' = touched
  BY <1>2 DEF TmrPbufs
<1>4. Gone = {} /\ Spoilt = {tmp} /\ Gone' = {} /\ Spoilt' = {tmp} /\ Freed = 0 /\ Freed' = n
  BY <1>2, <1>3 DEF Gone, Spoilt, Freed
<1>5. tmp \in Struct
  BY <1>1, <1>3 DEF Knows
<1>6. n \in Nat /\ n <= Held(reass)
  <2>1. reass.data \in [Struct -> Datum] BY <1>1 DEF Book
  <2> QED BY <1>2, <1>5, <2>1, HeldIs
<1>7. reass.count = Held(reass) + freed
  BY <1>1, <1>4 DEF Counted
<1>8. freed' \in 0 .. MaxPbufs
  BY <1>1, <1>3, <1>6, <1>7
<1>9. Fine(reass', Gone', Spoilt', r')
  BY <1>1, <1>3, <1>4
<1>10. Counted'
  <2>1. Freed' <= freed' BY <1>1, <1>3, <1>4, <1>6
  <2>2. PICK a, b : a = Held(reass) /\ b = freed OBVIOUS
  <2>3. reass.count = a + (b + n) - n BY <1>1, <1>6, <1>7, <2>2
  <2>4. reass'.count = Held(reass') + freed' - Freed' BY <1>3, <1>4, <2>2, <2>3
  <2> QED BY <2>1, <2>4 DEF Counted
<1>11. Knows'
  BY <1>1, <1>3 DEF Knows, Freeing
<1>12. Intact'
  BY <1>1, <1>3 DEF Intact, Freeing, PrevIs
<1>13. MainOK'
  BY <1>1, <1>3, <1>8 DEF MainOK
<1> QED BY <1>1, <1>3, <1>9, <1>10, <1>11, <1>12, <1>13, SafeWill

LEMMA DequeueSafe == Safe /\ TmrDequeue => Safe'
<1> SUFFICES ASSUME Safe, TmrDequeue PROVE Safe'
  OBVIOUS
<1>1. /\ MainOK /\ Intact /\ Counted /\ Knows /\ Fine(reass, Gone, Spoilt, r)
      /\ reass.count \in 0 .. MaxPbufs
  BY SafeFacts
<1>2. /\ pc = "dequeue" /\ reass' = Unlink(reass, tmp, prev) /\ pc' = "link"
      /\ r' = r /\ tmp' = tmp /\ prev' = prev /\ freed' = freed /\ read' = read /\ touched' = touched
  BY DEF TmrDequeue
<1>3. Gone = {} /\ Spoilt = {tmp} /\ Gone' = {tmp} /\ Spoilt' = {tmp}
  BY <1>2 DEF Gone, Spoilt
<1>4. /\ tmp \in Struct /\ r # tmp
      /\ (r # Null /\ reass.data[r].timer = 0 => reass.next[tmp] = r)
      /\ tmp \in Listed(reass) /\ PrevIs(tmp) /\ (r # Null => r \in Listed(reass))
  BY <1>1, <1>2 DEF Knows, Intact, Freeing
<1>5. PICK T : T = reass'
  OBVIOUS
<1>6. UnlinksFine(reass, tmp, r, prev, T)
  <2>1. Fine(reass, {}, {tmp}, r) BY <1>1, <1>3
  <2>2. IF prev = Null THEN reass.head = tmp ELSE prev \in Listed(reass) /\ reass.next[prev] = tmp
    BY <1>4 DEF PrevIs
  <2>3. T = Unlink(reass, tmp, prev) BY <1>2, <1>5
  <2>4. tmp \in Listed(reass) /\ tmp # r BY <1>4
  <2> QED BY ONLY <2>1, <2>2, <2>3, <2>4, UnlinkedFine
<1>7. /\ Fine(T, {tmp}, {tmp}, r) /\ (\A x : x \in Listed(T) <=> x \in Listed(reass) /\ x # tmp)
      /\ T.data = reass.data /\ T.count = reass.count
      /\ T.head = IF prev = Null THEN reass.next[tmp] ELSE reass.head
      /\ prev # Null => prev \in Listed(reass) /\ prev # tmp /\ T.next[prev] = reass.next[tmp]
  BY <1>6 DEF UnlinksFine
<1>8. Fine(reass', Gone', Spoilt', r')
  BY <1>2, <1>3, <1>5, <1>7
<1>9. /\ pc = "dequeue" /\ pc' = "link"
      /\ r' = r /\ tmp' = tmp /\ prev' = prev /\ freed' = freed /\ read' = read /\ touched' = touched
  BY <1>2
<1>10. Counted'
  <2>1. Freed' = Freed BY <1>5, <1>7, <1>9 DEF Freed
  <2>2. Held(T) = Held(reass) BY <1>7, HeldSame
  <2> QED BY <1>1, <1>5, <1>7, <1>9, <2>1, <2>2 DEF Counted
<1>11. Knows'
  BY <1>4, <1>9 DEF Knows, Freeing
<1>12. Intact'
  <2>1. r # Null => r \in Listed(T) BY <1>4, <1>7
  <2>2. ASSUME r # Null, T.data[r].timer = 0 PROVE PrevIs(r)'
    <3>1. reass.next[tmp] = r BY <1>4, <1>7, <2>2
    <3> QED BY <1>5, <1>7, <1>9, <3>1 DEF PrevIs
  <2> QED BY <1>1, <1>5, <1>9, <2>1, <2>2 DEF Intact, Freeing, PrevIs
<1>13. MainOK'
  BY <1>1, <1>9 DEF MainOK
<1> QED BY <1>1, <1>5, <1>7, <1>8, <1>10, <1>11, <1>12, <1>13, SafeWill

LEMMA LinkSafe == Safe /\ TmrLink => Safe'
<1> SUFFICES ASSUME Safe, TmrLink PROVE Safe'
  OBVIOUS
<1>1. /\ MainOK /\ Intact /\ Counted /\ Knows /\ Fine(reass, Gone, Spoilt, r)
      /\ reass.count \in 0 .. MaxPbufs
  BY SafeFacts
<1>2. /\ pc = "link" /\ reass' = [reass EXCEPT !.next[tmp] = reass.pool] /\ pc' = "put"
      /\ r' = r /\ tmp' = tmp /\ prev' = prev /\ freed' = freed /\ read' = read /\ touched' = touched
  BY DEF TmrLink
<1>3. Gone = {tmp} /\ Spoilt = {tmp} /\ Gone' = {tmp} /\ Spoilt' = {tmp}
  BY <1>2 DEF Gone, Spoilt
<1>4. /\ tmp \in Struct /\ r # tmp /\ ~touched
      /\ (r # Null => r \in Listed(reass))
      /\ (r # Null /\ reass.data[r].timer = 0 => PrevIs(r))
  BY <1>1, <1>2 DEF Knows, Intact, Freeing
<1>5. PICK T : T = reass'
  OBVIOUS
<1>6. LinksFine(reass, tmp, r, T)
  <2>1. Fine(reass, {tmp}, {tmp}, r) BY <1>1, <1>3
  <2>2. T = [reass EXCEPT !.next[tmp] = reass.pool] BY <1>2, <1>5
  <2> QED BY ONLY <2>1, <2>2, LinkedFine
<1>7. /\ Fine(T, {tmp}, {tmp}, r) /\ Listed(T) = Listed(reass)
      /\ T.data = reass.data /\ T.count = reass.count /\ T.head = reass.head /\ T.pool = reass.pool
      /\ T.next[tmp] = reass.pool /\ \A x \in Struct : x # tmp => T.next[x] = reass.next[x]
  BY <1>6 DEF LinksFine
<1>8. \A x \in Listed(T) : x \in Struct /\ x # tmp
  <2>1. \A x \in Listed(T) : x \in Struct /\ x \notin {tmp} BY <1>7, FineLists
  <2> QED BY <2>1
<1>9. Fine(reass', Gone', Spoilt', r')
  BY <1>2, <1>3, <1>5, <1>7
<1>10. /\ pc = "link" /\ pc' = "put"
       /\ r' = r /\ tmp' = tmp /\ prev' = prev /\ freed' = freed /\ read' = read /\ touched' = touched
  BY <1>2
<1>11. Counted'
  <2>1. Freed' = Freed BY <1>5, <1>7, <1>10 DEF Freed
  <2>2. Held(T) = Held(reass) BY <1>7, HeldSame
  <2> QED BY <1>1, <1>5, <1>7, <1>10, <2>1, <2>2 DEF Counted
<1>12. Knows'
  BY <1>4, <1>10 DEF Knows, Freeing
<1>13. Intact'
  <2>1. ASSUME r # Null, T.data[r].timer = 0 PROVE PrevIs(r)'
    <3>1. PrevIs(r) BY <1>4, <1>7, <2>1
    <3> QED BY <1>5, <1>7, <1>8, <1>10, <3>1 DEF PrevIs
  <2> QED BY <1>4, <1>5, <1>7, <1>10, <2>1 DEF Intact, Freeing
<1>14. MainOK'
  BY <1>1, <1>10 DEF MainOK
<1> QED BY <1>1, <1>5, <1>7, <1>9, <1>11, <1>12, <1>13, <1>14, SafeWill

LEMMA PutSafe == Safe /\ TmrPut => Safe'
<1> SUFFICES ASSUME Safe, TmrPut PROVE Safe'
  OBVIOUS
<1>1. /\ MainOK /\ Intact /\ Counted /\ Knows /\ Fine(reass, Gone, Spoilt, r)
      /\ reass.count \in 0 .. MaxPbufs /\ Held(reass) \in Nat /\ freed \in Nat
      /\ reass \in Book
  BY SafeFacts
<1>2. /\ pc = "put" /\ reass' = Release(reass, tmp) /\ tmp' = Null /\ pc' = "load"
      /\ r' = r /\ prev' = prev /\ freed' = freed /\ read' = read /\ touched' = touched
  BY DEF TmrPut
<1>3. /\ Gone = {tmp} /\ Spoilt = {tmp} /\ Gone' = {} /\ Spoilt' = {}
      /\ Freed = Len(reass.data[tmp].p) /\ Freed' = 0
  BY <1>2 DEF Gone, Spoilt, Freed
<1>4. /\ tmp \in Struct /\ r # tmp /\ ~touched
      /\ (r # Null => r \in Listed(reass))
      /\ (r # Null /\ reass.data[r].timer = 0 => PrevIs(r))
  BY <1>1, <1>2 DEF Knows, Intact, Freeing
<1>5. PICK T : T = reass'
  OBVIOUS
<1>6. ReleasesFine(reass, tmp, r, T)
  <2>1. Fine(reass, {tmp}, {tmp}, r) BY <1>1, <1>3
  <2>2. T = Release(reass, tmp) BY <1>2, <1>5
  <2> QED BY ONLY <2>1, <2>2, ReleasedFine
<1>7. /\ Fine(T, {}, {}, r) /\ Listed(T) = Listed(reass)
      /\ T.count = reass.count /\ Held(T) = Held(reass) - Freed /\ T.head = reass.head
      /\ \A x \in Struct : x # tmp => T.data[x] = reass.data[x] /\ T.next[x] = reass.next[x]
  BY <1>3, <1>6 DEF ReleasesFine
<1>8. \A x \in Listed(T) : x \in Struct /\ x # tmp
  <2>1. Fine(reass, {tmp}, {tmp}, r) BY <1>1, <1>3
  <2>2. \A x \in Listed(reass) : x \in Struct /\ x \notin {tmp} BY <2>1, FineLists
  <2> QED BY <1>7, <2>2
<1>9. Fine(reass', Gone', Spoilt', r')
  BY <1>2, <1>3, <1>5, <1>7
<1>10. /\ pc = "put" /\ pc' = "load" /\ tmp' = Null
       /\ r' = r /\ prev' = prev /\ freed' = freed /\ read' = read /\ touched' = touched
  BY <1>2
<1>11. Counted'
  <2>1. Freed \in Nat
    <3>1. reass.data \in [Struct -> Datum] BY <1>1 DEF Book
    <3> QED BY <1>3, <1>4, <3>1, DatumIs
  <2>2. PICK a, b, c : a = Held(reass) /\ b = freed /\ c = Freed OBVIOUS
  <2>3. reass.count = a + b - c BY <1>1, <2>2 DEF Counted
  <2>4. a \in Nat /\ b \in Nat /\ c \in Nat /\ a + b - c = (a - c) + b - 0 BY <1>1, <2>1, <2>2
  <2>5. reass'.count = Held(reass') + freed' - Freed' BY <1>3, <1>5, <1>7, <1>10, <2>2, <2>3, <2>4
  <2>6. Freed' <= freed' BY <1>1, <1>3, <1>10
  <2> QED BY <2>5, <2>6 DEF Counted
<1>12. Knows'
  BY <1>10 DEF Knows, Freeing
<1>13. Intact'
  <2>1. ASSUME r # Null, T.data[r].timer = 0 PROVE PrevIs(r)'
    <3>1. r \in Struct /\ r # tmp BY <1>4, <1>7, <1>8, <2>1
    <3>2. PrevIs(r) BY <1>4, <1>7, <2>1, <3>1
    <3> QED BY <1>5, <1>7, <1>8, <1>10, <3>2 DEF PrevIs
  <2> QED BY <1>4, <1>5, <1>7, <1>10, <2>1 DEF Intact, Freeing
<1>14. MainOK'
  <2>1. Null \in Ptr BY DEF Ptr
  <2> QED BY <1>1, <1>10, <2>1 DEF MainOK
<1> QED BY <1>1, <1>5, <1>7, <1>9, <1>11, <1>12, <1>13, <1>14, SafeWill

LEMMA LoadSafe == Safe /\ TmrLoad => Safe'
<1> SUFFICES ASSUME Safe, TmrLoad PROVE Safe'
  OBVIOUS
<1>1. /\ MainOK /\ Intact /\ Counted /\ Knows /\ Fine(reass, Gone, Spoilt, r)
      /\ reass.count \in 0 .. MaxPbufs
  BY SafeFacts
<1>2. /\ pc = "load" /\ read' = reass.count /\ pc' = "store"
      /\ reass' = reass /\ r' = r /\ tmp' = tmp /\ prev' = prev /\ freed' = freed /\ touched' = touched
  BY DEF TmrLoad
<1>3. Gone = {} /\ Spoilt = {} /\ Gone' = {} /\ Spoilt' = {} /\ Freed = 0 /\ Freed' = 0
  BY <1>2 DEF Gone, Spoilt, Freed
<1>4. Fine(reass', Gone', Spoilt', r')
  BY <1>1, <1>2, <1>3
<1>5. Counted'
  BY <1>1, <1>2, <1>3 DEF Counted
<1>6. Knows'
  BY <1>2 DEF Knows, Freeing
<1>7. Intact'
  BY <1>1, <1>2 DEF Intact, Freeing, PrevIs
<1>8. MainOK'
  BY <1>1, <1>2 DEF MainOK
<1> QED BY <1>1, <1>2, <1>4, <1>5, <1>6, <1>7, <1>8, SafeWill

\* The count is stored as it was loaded, less what was freed.
LEMMA CountFine ==
    ASSUME NEW S, NEW y, Fine(S, {}, {}, y), NEW c \in Int, NEW T, T = [S EXCEPT !.count = c]
    PROVE  /\ Fine(T, {}, {}, y) /\ Listed(T) = Listed(S) /\ Held(T) = Held(S) /\ T.count = c
           /\ T.head = S.head /\ T.next = S.next /\ T.data = S.data
<1>1. /\ S \in Book /\ SoundBut(S, {}) /\ {} \subseteq Struct
      /\ Sorted(Times(S), List(S), Len(List(S)), y)
      /\ FineData(S, Listed(S), {}, {})
  BY DEF Fine, FineData
<1>2. /\ T \in Book /\ T.head = S.head /\ T.pool = S.pool /\ T.next = S.next /\ T.data = S.data /\ T.count = c
  BY <1>1 DEF Book
<1>3. List(T) = List(S) /\ Listed(T) = Listed(S) /\ SoundBut(T, {})
  BY ONLY <1>1, <1>2, SamePointers
<1>4. Times(T) = Times(S) /\ FineData(T, Listed(S), {}, {})
  BY <1>1, <1>2 DEF Times, FineData
<1>5. Fine(T, {}, {}, y)
  BY <1>1, <1>2, <1>3, <1>4 DEF Fine, FineData
<1>6. Held(T) = Held(S)
  BY <1>2, HeldSame
<1> QED BY <1>2, <1>3, <1>5, <1>6

LEMMA StoreSafe == Safe /\ TmrStore => Safe'
<1> SUFFICES ASSUME Safe, TmrStore PROVE Safe'
  OBVIOUS
<1>1. /\ MainOK /\ Intact /\ Counted /\ Knows /\ Fine(reass, Gone, Spoilt, r)
      /\ reass.count \in 0 .. MaxPbufs /\ Held(reass) \in Nat /\ freed \in Nat /\ reass.count \in Nat
      /\ MaxPbufs \in Nat \ {0}
  BY SafeFacts
<1>2. /\ pc = "store" /\ reass' = [reass EXCEPT !.count = read - freed] /\ freed' = 0 /\ read' = 0 /\ pc' = "scan"
      /\ r' = r /\ tmp' = tmp /\ prev' = prev /\ touched' = touched
  BY DEF TmrStore
<1>3. Gone = {} /\ Spoilt = {} /\ Gone' = {} /\ Spoilt' = {} /\ Freed = 0 /\ Freed' = 0
  BY <1>2 DEF Gone, Spoilt, Freed
<1>4. read = reass.count /\ reass.count = Held(reass) + freed
  BY <1>1, <1>2, <1>3 DEF Intact, Counted
<1>5. PICK T, c : T = reass' /\ c = read - freed
  OBVIOUS
<1>6. c = Held(reass) /\ c \in Int /\ c \in 0 .. MaxPbufs
  BY <1>1, <1>4, <1>5
<1>7. /\ Fine(T, {}, {}, r) /\ Listed(T) = Listed(reass) /\ Held(T) = Held(reass) /\ T.count = c
      /\ T.head = reass.head /\ T.next = reass.next /\ T.data = reass.data
  <2>1. Fine(reass, {}, {}, r) BY <1>1, <1>3
  <2>2. T = [reass EXCEPT !.count = c] BY <1>2, <1>5
  <2> QED BY ONLY <1>6, <2>1, <2>2, CountFine
<1>8. Fine(reass', Gone', Spoilt', r')
  BY <1>2, <1>3, <1>5, <1>7
<1>9. /\ pc = "store" /\ pc' = "scan" /\ freed' = 0 /\ read' = 0
      /\ r' = r /\ tmp' = tmp /\ prev' = prev /\ touched' = touched
  BY <1>2
<1>10. Counted'
  <2>1. c = c + 0 - 0 BY <1>6
  <2>2. reass'.count = Held(reass') + freed' - Freed' BY <1>3, <1>5, <1>6, <1>7, <1>9, <2>1
  <2>3. Freed' <= freed' BY <1>3, <1>9
  <2> QED BY <2>2, <2>3 DEF Counted
<1>11. Knows'
  BY <1>9 DEF Knows, Freeing
<1>12. Intact'
  BY <1>1, <1>5, <1>7, <1>9 DEF Intact, Freeing, PrevIs
<1>13. MainOK'
  <2>1. 0 \in 0 .. MaxPbufs BY <1>1
  <2> QED BY <1>1, <1>9, <2>1 DEF MainOK
<1> QED BY <1>5, <1>6, <1>7, <1>8, <1>10, <1>11, <1>12, <1>13, SafeWill

LEMMA EndSafe == Safe /\ TmrEnd => Safe'
<1> SUFFICES ASSUME Safe, TmrEnd PROVE Safe'
  OBVIOUS
<1>1. /\ MainOK /\ Intact /\ Counted /\ Knows /\ Fine(reass, Gone, Spoilt, r)
      /\ reass.count \in 0 .. MaxPbufs
  BY SafeFacts
<1>2. /\ pc = "scan" /\ r = Null /\ prev' = Null /\ pc' = "idle"
      /\ reass' = reass /\ r' = r /\ tmp' = tmp /\ freed' = freed /\ read' = read /\ touched' = touched
  BY DEF TmrEnd
<1>3. Gone = {} /\ Spoilt = {} /\ Gone' = {} /\ Spoilt' = {} /\ Freed = 0 /\ Freed' = 0
  BY <1>2 DEF Gone, Spoilt, Freed
<1>4. Fine(reass', Gone', Spoilt', r')
  BY <1>1, <1>2, <1>3
<1>5. Counted'
  BY <1>1, <1>2, <1>3 DEF Counted
<1>6. Knows'
  BY <1>1, <1>2 DEF Knows, Freeing
<1>7. Intact'
  BY <1>1, <1>2 DEF Intact, Freeing
<1>8. MainOK'
  <2>1. Null \in Ptr BY DEF Ptr
  <2> QED BY <1>1, <1>2, <2>1 DEF MainOK
<1> QED BY <1>1, <1>2, <1>4, <1>5, <1>6, <1>7, <1>8, SafeWill

LEMMA TmrSafe == Safe /\ Tmr => Safe'
BY StartSafe, AgeSafe, ExpireSafe, IcmpSafe, PbufsSafe, DequeueSafe, LinkSafe, PutSafe, LoadSafe,
   StoreSafe, EndSafe DEF Tmr
----------------------------------------------------------------------------
(* A fragment in the midst of ip_reass_tmr. *)

\* The first of the pool is unused.
LEMMA PoolUnused ==
    ASSUME NEW S, NEW X, NEW Z, NEW y, Fine(S, X, Z, y), S.pool # Null
    PROVE  S.pool \in Struct /\ S.pool \notin Listed(S) /\ S.pool \notin X /\ S.data[S.pool] = Unused
<1>1. PICK l, q : l = List(S) /\ q = Pool(S)
  OBVIOUS
<1>2. PICK n, m \in Nat : Lists(S, l, n, q, m, X) /\ Listed(S) = {l[i] : i \in 1 .. n}
  BY <1>1, FineLists
<1>3. /\ q \in [1 .. m -> Struct] /\ S.pool = IF m = 0 THEN Null ELSE q[1]
      /\ \A i \in 1 .. n, j \in 1 .. m : l[i] # q[j]
      /\ \A e \in Struct : e \in X <=> (\A i \in 1 .. n : l[i] # e) /\ (\A j \in 1 .. m : q[j] # e)
  BY <1>2 DEF Lists, Row
<1>4. 1 \in 1 .. m /\ S.pool = q[1]
  BY <1>3
<1>5. S.pool \in Struct /\ S.pool \notin Listed(S) /\ S.pool \notin X
  BY <1>2, <1>3, <1>4
<1> QED BY <1>5 DEF Fine

\* What a fragment leaves alone if it damages nothing.
LEMMA FragmentLeaves ==
    ASSUME Safe, NEW d \in Datagrams, NEW f \in Frags, Fragment(d, f), (~Damaged)',
           NEW C, Fragmented(Gone, Spoilt, r, d, C)
    PROVE  Freed' = Freed /\ Knows'
<1>1. /\ MainOK /\ Intact /\ Knows /\ Fine(reass, Gone, Spoilt, r)
  BY SafeFacts
<1>2. /\ pc' = pc /\ r' = r /\ tmp' = tmp /\ prev' = prev /\ freed' = freed /\ read' = read
      /\ touched' = (pc = "dequeue" /\ reass.data[tmp].d = d)
  BY DEF Fragment, main
<1>3. Intact'
  BY DamagedWill
<1>4. PICK T : T = reass'
  OBVIOUS
<1>5. Touches(reass, Listed(reass), T, Listed(T), d, C) /\ C \cap Gone = {}
  BY <1>4 DEF Fragmented
<1>6. MaxAge # 0
  BY SizeAssumption
<1>7. \A x \in Listed(T) : T.data[x].timer = 0 => x \notin C
  BY <1>5, <1>6 DEF Touches
<1>8. \A x \in Struct : x \notin C =>
        /\ T.data[x].timer = reass.data[x].timer /\ T.data[x].d = reass.data[x].d
        /\ T.data[x].p = reass.data[x].p \/ (reass.data[x].d = d /\ x \in Listed(reass))
        /\ T.next[x] = reass.next[x] \/ reass.next[x] \in C
  BY <1>5 DEF Touches
<1>9. pc \in {"icmp", "pbufs", "dequeue", "link", "put"} => tmp \in Struct /\ r # tmp
  BY <1>1 DEF Knows
<1>10. Freeing => tmp \in Struct /\ tmp \notin C /\ tmp \in Listed(T)
  <2>1. Freeing => tmp \in Listed(T) /\ T.data[tmp].timer = 0 BY <1>2, <1>3, <1>4 DEF Intact, Freeing
  <2> QED BY <1>7, <1>9, <2>1 DEF Freeing
<1>11. Freed' = Freed
  <2>1. CASE pc = "dequeue"
    <3>1. tmp \in Struct /\ tmp \notin C BY <1>10, <2>1 DEF Freeing
    <3>2. reass.data[tmp].d # d BY <1>2, <1>3, <2>1 DEF Intact
    <3>3. T.data[tmp].p = reass.data[tmp].p BY <1>8, <3>1, <3>2
    <3> QED BY <1>2, <1>4, <2>1, <3>3 DEF Freed
  <2>2. CASE pc \in {"link", "put"}
    <3>1. tmp \in Struct /\ tmp \in Gone BY <1>9, <2>2 DEF Gone
    <3>2. tmp \notin C BY <1>5, <3>1
    <3>3. tmp \notin Listed(reass)
      <4>1. \A x \in Listed(reass) : x \notin Gone BY <1>1, FineLists
      <4> QED BY <3>1, <4>1
    <3>4. T.data[tmp].p = reass.data[tmp].p BY <1>8, <3>1, <3>2, <3>3
    <3> QED BY <1>2, <1>4, <2>2, <3>4 DEF Freed
  <2>3. CASE pc \notin {"dequeue", "link", "put"}
    BY <1>2, <2>3 DEF Freed
  <2> QED BY <2>1, <2>2, <2>3
<1>12. Knows'
  <2>1. ASSUME Freeing, r # Null, T.data[r].timer = 0 PROVE T.next[tmp] = r
    <3>1. r \in Listed(T) /\ r \in Struct
      <4>1. r \in Listed(T) BY <1>2, <1>3, <1>4, <2>1 DEF Intact, Freeing
      <4>2. Fine(T, Gone, Spoilt, r) BY <1>4 DEF Fragmented
      <4> QED BY <4>1, <4>2, FineLists
    <3>2. r \notin C BY <1>7, <2>1, <3>1
    <3>3. reass.data[r].timer = 0 BY <1>8, <2>1, <3>1, <3>2
    <3>4. reass.next[tmp] = r BY <1>1, <2>1, <3>3 DEF Knows
    <3>5. tmp \in Struct /\ tmp \notin C BY <1>10, <2>1
    <3> QED BY <1>8, <3>2, <3>4, <3>5
  <2>2. Freeing' <=> Freeing BY <1>2 DEF Freeing
  <2> QED BY <1>1, <1>2, <1>4, <2>1, <2>2 DEF Knows
<1> QED BY <1>11, <1>12

LEMMA FragmentKeeps ==
    ASSUME Safe, NEW d \in Datagrams, NEW f \in Frags, Fragment(d, f)
    PROVE  TypeOK' /\ ((~Damaged)' => Good' /\ InOrder(out'))
<1>1. /\ MainOK /\ Intact /\ Counted /\ Knows /\ Fine(reass, Gone, Spoilt, r)
      /\ reass \in Book /\ reass.count \in 0 .. MaxPbufs /\ Held(reass) \in Nat
      /\ MaxPbufs \in Nat \ {0} /\ freed \in Nat /\ reass.count \in Nat
  BY SafeFacts
<1>2. /\ pc' = pc /\ r' = r /\ tmp' = tmp /\ prev' = prev /\ freed' = freed /\ read' = read
      /\ touched' = (pc = "dequeue" /\ reass.data[tmp].d = d)
  BY DEF Fragment, main
<1>3. reass' \in Book /\ SameDue(reass, reass') /\ reass'.count <= MaxPbufs
  <2>1. reass.pool # Null => reass.data[reass.pool] = Unused BY <1>1, PoolUnused
  <2>2. reass.count <= MaxPbufs BY <1>1
  <2> QED BY <1>1, <2>1, <2>2, FragmentBook
<1>4. Held(reass') \in Nat
  <2>1. PICK T : T = reass' OBVIOUS
  <2>2. T.data \in [Struct -> Datum] BY <1>3, <2>1 DEF Book
  <2>3. PICK e : e \in Struct BY SizeAssumption
  <2>4. Held(T) \in Nat BY <2>2, <2>3, HeldIs
  <2> QED BY <2>1, <2>4
<1>5. Freed \in Nat
  <2>1. reass.data \in [Struct -> Datum] BY <1>1 DEF Book
  <2>2. pc \in {"dequeue", "link", "put"} => tmp \in Struct BY <1>1 DEF Knows
  <2> QED BY <2>1, <2>2, DatumIs DEF Freed
<1>6. reass'.count = Held(reass') + freed - Freed /\ reass'.count \in 0 .. MaxPbufs
  <2>1. PICK a, b, c, g, h : a = Held(reass) /\ b = Held(reass') /\ c = reass'.count /\ g = freed /\ h = Freed
    OBVIOUS
  <2>2. c \in Int BY <1>3, <2>1 DEF Book
  <2>3. h <= g /\ reass.count = a + g - h BY <1>1, <2>1 DEF Counted
  <2>4. c - b = reass.count - a /\ c <= MaxPbufs BY <1>3, <2>1 DEF SameDue
  <2>5. a \in Nat /\ b \in Nat /\ g \in Nat /\ h \in Nat BY <1>1, <1>4, <1>5, <2>1
  <2>6. c = b + g - h /\ c \in 0 .. MaxPbufs BY <1>1, <2>2, <2>3, <2>4, <2>5
  <2> QED BY <2>1, <2>6
<1>7. TypeOK'
  <2>1. touched' \in BOOLEAN
    <3>1. CASE pc = "dequeue" /\ reass.data[tmp].d = d BY <1>2, <3>1
    <3>2. CASE ~(pc = "dequeue" /\ reass.data[tmp].d = d) BY <1>2, <3>2
    <3> QED BY <3>1, <3>2
  <2>2. MainOK' BY <1>1, <1>2, <2>1 DEF MainOK
  <2> QED BY <1>3, <1>6, <2>2, TypesWill
<1>8. ASSUME (~Damaged)' PROVE Good' /\ InOrder(out')
  <2>1. SoundBut(reass', Gone') /\ Intact'
    BY <1>8, DamagedWill
  <2>2. Gone' = Gone /\ Spoilt' = Spoilt BY <1>2 DEF Gone, Spoilt
  <2>3. r # Null => r \in Listed(reass') BY <1>1, <1>2, <2>1 DEF Knows, Intact
  <2>4. Spoilt \subseteq Gone \cup Listed(reass')
    <3>1. pc \in {"pbufs", "dequeue"} => tmp \in Listed(reass') BY <1>2, <2>1 DEF Intact, Freeing
    <3>2. pc \in {"link", "put"} => tmp \in Gone BY DEF Gone
    <3> QED BY <3>1, <3>2 DEF Spoilt
  <2>5. SoundBut(reass', Gone) BY <2>1, <2>2
  <2>6. PICK C : Fragmented(Gone, Spoilt, r, d, C)
    BY <1>1, <1>3, <2>3, <2>4, <2>5, FragmentFine
  <2>7. Freed' = Freed /\ Knows' BY <1>8, <2>6, FragmentLeaves
  <2>8. Counted' BY <1>1, <1>2, <1>6, <2>7 DEF Counted
  <2>9. Fine(reass', Gone', Spoilt', r') BY <1>2, <2>2, <2>6 DEF Fragmented
  <2>10. InOrder(out') BY <2>6 DEF Fragmented
  <2> QED BY <2>7, <2>8, <2>9, <2>10 DEF Good
<1> QED BY <1>7, <1>8

LEMMA NextInv == Inv /\ [Next]_vars => Inv'
<1> SUFFICES ASSUME Inv, [Next]_vars PROVE Inv'
  OBVIOUS
<1>1. InOrder(NoOut)
  BY DEF InOrder, NoOut
<1>2. ASSUME InOrder(out') PROVE OutOrdered'
  BY <1>2 DEF OutOrdered, InOrder
<1>3. CASE ~Damaged /\ Tmr
  <2>1. Safe BY <1>3 DEF Inv, Safe
  <2>2. Safe' BY <1>3, <2>1, TmrSafe
  <2>3. out' = NoOut BY <1>3 DEF Tmr
  <2>4. OutOrdered' BY <1>1, <1>2, <2>3
  <2> QED BY <2>2, <2>4 DEF Inv, Safe
<1>4. CASE ~Damaged /\ \E d \in Datagrams, f \in Frags : Fragment(d, f)
  <2>1. Safe BY <1>4 DEF Inv, Safe
  <2>2. PICK d \in Datagrams, f \in Frags : Fragment(d, f) BY <1>4
  <2>3. TypeOK' /\ ((~Damaged)' => Good' /\ InOrder(out')) BY <2>1, <2>2, FragmentKeeps
  <2>4. CASE (~Damaged)'
    <3>1. OutOrdered' BY <1>2, <2>3, <2>4
    <3> QED BY <2>3, <2>4, <3>1 DEF Inv
  <2>5. CASE ~(~Damaged)'
    <3>1. OutOrdered' BY <2>5 DEF OutOrdered
    <3> QED BY <2>3, <2>5, <3>1 DEF Inv
  <2> QED BY <2>4, <2>5
<1>5. CASE UNCHANGED vars
  <2>1. /\ reass' = reass /\ out' = out /\ pc' = pc /\ r' = r /\ tmp' = tmp /\ prev' = prev
        /\ freed' = freed /\ read' = read /\ touched' = touched
    BY <1>5 DEF vars
  <2>2. TypeOK' BY <2>1 DEF Inv, TypeOK
  <2>3. Damaged' <=> Damaged BY <2>1 DEF Damaged, Sound, Freeing, PrevIs
  <2>4. OutOrdered' BY <2>1, <2>3 DEF Inv, OutOrdered
  <2>5. Good => Good' BY <2>1 DEF Good, Counted, Knows, Freed, Gone, Spoilt, Freeing
  <2> QED BY <2>2, <2>3, <2>4, <2>5 DEF Inv
<1> QED BY <1>3, <1>4, <1>5 DEF Next

LEMMA Invariance == Spec => []Inv
BY InitInv, NextInv, PTL DEF Spec

\* ip_reass_pbufcount, the numbers of ip_reass_tmr and the fields of every
\* structure stay in their ranges, even where a fragment has damaged the lists.
THEOREM Types == Spec => []TypeOK
<1>1. Inv => TypeOK
  BY DEF Inv
<1> QED BY <1>1, Invariance, PTL

\* The fragments of structures that have none do not count.
LEMMA PbufsNone ==
    ASSUME NEW S, NEW A, NEW B, A \subseteq B, \A e \in B : e \notin A => S.data[e].p = <<>>
    PROVE  Pbufs(S, A) = Pbufs(S, B)
<1>1. \A e \in B : e \notin A => {e} \X (1 .. Len(S.data[e].p)) = {}
  OBVIOUS
<1> QED BY <1>1 DEF Pbufs

LEMMA CountIs == Inv => CountExact
<1> SUFFICES ASSUME Inv, ~Damaged PROVE reass.count = Cardinality(Kept) + freed
  BY DEF CountExact
<1>1. Safe
  BY DEF Inv, Safe
<1>2. /\ Counted /\ Knows /\ Intact /\ Fine(reass, Gone, Spoilt, r) /\ Held(reass) \in Nat /\ freed \in Nat
      /\ reass \in Book
  BY <1>1, SafeFacts
<1>3. /\ reass.data \in [Struct -> Datum]
      /\ \A x \in Listed(reass) : x \in Struct /\ x \notin Gone
      /\ \A x \in Struct : x \notin Listed(reass) /\ x \notin Gone => reass.data[x].p = <<>>
  <2>1. \A x \in Listed(reass) : x \in Struct /\ x \notin Gone BY <1>2, FineLists
  <2>2. \A x \in Struct : x \notin Listed(reass) /\ x \notin Gone => reass.data[x] = Unused BY <1>2 DEF Fine
  <2>3. Unused.p = <<>> BY DEF Unused
  <2> QED BY <1>2, <2>1, <2>2, <2>3 DEF Book
<1>4. CASE pc \in {"dequeue", "link", "put"}
  <2>1. tmp \in Struct BY <1>2, <1>4 DEF Knows
  <2>2. Pbufs(reass, Struct \ {tmp}) = Kept
    <3> DEFINE A == Listed(reass) \ (IF pc = "dequeue" THEN {tmp} ELSE {})
    <3>1. A \subseteq Struct \ {tmp} BY <1>3, <1>4 DEF Gone
    <3>2. \A e \in Struct \ {tmp} : e \notin A => reass.data[e].p = <<>> BY <1>3, <1>4 DEF Gone
    <3> HIDE DEF A
    <3>3. Pbufs(reass, A) = Pbufs(reass, Struct \ {tmp}) BY <3>1, <3>2, PbufsNone
    <3> QED BY <3>3 DEF A, Kept
  <2>3. PICK a, b, c : a = Held(reass) /\ b = Cardinality(Kept) /\ c = Len(reass.data[tmp].p) OBVIOUS
  <2>4. b \in Nat /\ a = b + c BY <1>3, <2>1, <2>2, <2>3, PbufsSplit DEF Held
  <2>5. c \in Nat BY <1>3, <2>1, <2>3, DatumIs
  <2>6. Freed = c BY <1>4, <2>3 DEF Freed
  <2>7. reass.count = a + freed - c BY <1>2, <2>3, <2>6 DEF Counted
  <2>8. reass.count = b + freed BY <1>2, <2>4, <2>5, <2>7
  <2> QED BY <2>3, <2>8
<1>5. CASE pc \notin {"dequeue", "link", "put"}
  <2>1. Kept = Pbufs(reass, Listed(reass)) /\ Gone = {} /\ Freed = 0 BY <1>5 DEF Kept, Gone, Freed
  <2>2. Listed(reass) \subseteq Struct BY <1>3
  <2>3. \A e \in Struct : e \notin Listed(reass) => reass.data[e].p = <<>> BY <1>3, <2>1
  <2>4. Pbufs(reass, Listed(reass)) = Pbufs(reass, Struct) BY <2>2, <2>3, PbufsNone
  <2>5. Held(reass) = Cardinality(Kept) BY <2>1, <2>4 DEF Held
  <2>6. reass.count = Held(reass) + freed - 0 BY <1>2, <2>1 DEF Counted
  <2>7. PICK a : a = Held(reass) OBVIOUS
  <2>8. reass.count = a + freed BY <1>2, <2>6, <2>7
  <2> QED BY <2>5, <2>7, <2>8
<1> QED BY <1>4, <1>5

\* However fragments interrupt ip_reass_tmr, ip_reass_pbufcount is the number
\* of pbufs that are kept, with those freed and not yet counted off.
THEOREM Counts == Spec => []CountExact
BY Invariance, CountIs, PTL

\* No two structures of the list are for one datagram.
THEOREM OneEach == Spec => []OneStructEach
<1>1. Inv => OneStructEach
  BY DEF Inv, OneStructEach, Good, Fine
<1> QED BY <1>1, Invariance, PTL

\* What ip_reass returns begins with the first fragment and has no hole but
\* for the one the code does not look for.
THEOREM Orders == Spec => []OutOrdered
<1>1. Inv => OutOrdered
  BY DEF Inv
<1> QED BY <1>1, Invariance, PTL
----------------------------------------------------------------------------
(* Where the structures left behind are. *)

\* The lists do not leave A.
Closed(S, A) ==
    /\ A \subseteq Struct
    /\ S.head \in A \cup {Null} /\ S.pool \in A \cup {Null}
    /\ \A x \in A : S.next[x] \in A \cup {Null}

LEMMA ClosedListed ==
    ASSUME NEW S \in Book, NEW A, Closed(S, A)
    PROVE  \A x \in Listed(S) : x \in A
<1>1. S.next \in Links /\ A \subseteq Struct /\ S.head \in A \cup {Null} /\ \A x \in A : S.next[x] \in A \cup {Null}
  BY DEF Closed, Book
<1>2. ToSet(Chain(S.next, S.head)) \subseteq A
  BY ONLY <1>1, ChainStays
<1> QED BY <1>2 DEF Listed, List

LEMMA ClosedFrees ==
    ASSUME NEW S, NEW A, Closed(S, A), NEW e \in A, NEW before, NEW T, Frees(S, e, before, T)
    PROVE  Closed(T, A)
<1>1. /\ A \subseteq Struct /\ S.head \in A \cup {Null} /\ S.pool \in A \cup {Null}
      /\ \A x \in A : S.next[x] \in A \cup {Null}
  BY DEF Closed
<1>2. /\ T.pool = e /\ T.head = IF S.head = e THEN S.next[e] ELSE S.head
      /\ T.next[e] = S.pool /\ (S.head # e /\ before # e => T.next[before] = S.next[e])
      /\ \A x \in Struct : x # e /\ (S.head = e \/ x # before) => T.next[x] = S.next[x]
  BY DEF Frees
<1>3. ASSUME NEW x \in A PROVE T.next[x] \in A \cup {Null}
  <2>1. CASE x = e BY <1>1, <1>2, <2>1
  <2>2. CASE x # e /\ (S.head = e \/ x # before) BY <1>1, <1>2, <2>2
  <2>3. CASE x # e /\ S.head # e /\ x = before BY <1>1, <1>2, <2>3
  <2> QED BY <2>1, <2>2, <2>3
<1> QED BY <1>1, <1>2, <1>3 DEF Closed

LEMMA ClosedEnqueue ==
    ASSUME NEW S \in Book, S.pool \in Struct, S.data[S.pool] = Unused, NEW d \in Datagrams,
           NEW A, Closed(S, A), NEW T, T = Enqueue(S, d)
    PROVE  Closed(T, A)
<1>1. /\ A \subseteq Struct /\ S.head \in A \cup {Null} /\ S.pool \in A /\ S.next \in Links
      /\ \A x \in A : S.next[x] \in A \cup {Null}
  BY SizeAssumption DEF Closed, Book
<1>2. T.head = S.pool /\ T.pool = S.next[S.pool] /\ T.next = [S.next EXCEPT ![S.pool] = S.head]
  BY EnqueuedBook
<1>3. \A x \in A : T.next[x] = IF x = S.pool THEN S.head ELSE S.next[x]
  BY <1>1, <1>2 DEF Links
<1> QED BY <1>1, <1>2, <1>3 DEF Closed

LEMMA ClosedAdd ==
    ASSUME NEW S \in Book, NEW d, Place(S, d) # 0, NEW f \in Frags, Add(S, d, f), NEW A, Closed(S, A)
    PROVE  Closed(reass', A)
<1>0. PICK n \in 0 .. N + 1 : \E k \in 1 .. n : \E e \in Struct :
        /\ n \in Nat /\ List(S) \in [1 .. n -> Struct] /\ Len(List(S)) = n /\ S.head = List(S)[1]
        /\ e = List(S)[k]
        /\ Refuses(S, e, f) \/ Completes(S, k, d, f) \/ Keeps(S, e, f)
  BY AddIs
<1>1. PICK k \in 1 .. n, e \in Struct :
        /\ n \in Nat /\ List(S) \in [1 .. n -> Struct] /\ Len(List(S)) = n /\ S.head = List(S)[1]
        /\ e = List(S)[k]
        /\ Refuses(S, e, f) \/ Completes(S, k, d, f) \/ Keeps(S, e, f)
  BY <1>0
<1>2. PICK T : T = reass'
  OBVIOUS
<1>3. CASE Refuses(S, e, f) \/ Keeps(S, e, f)
  <2>1. reass'.head = S.head /\ reass'.pool = S.pool /\ reass'.next = S.next
    BY <1>3, RefusesBook, KeepsBook
  <2> QED BY <2>1 DEF Closed
<1>4. CASE Completes(S, k, d, f)
  <2>1. n \in Nat /\ List(S) \in [1 .. n -> Struct] /\ S.head = List(S)[1] /\ e = List(S)[k] BY <1>1
  <2>2. Frees(S, e, Before(S, k), reass')
    BY ONLY S \in Book, k \in 1 .. n, <2>1, <1>4, CompletesBook
  <2>3. e \in Listed(S) BY <1>1 DEF Listed, ToSet
  <2>4. e \in A BY <2>3, ClosedListed
  <2>5. Frees(S, e, Before(S, k), T) BY <1>2, <2>2
  <2>6. Closed(T, A) BY ONLY Closed(S, A), <2>4, <2>5, ClosedFrees
  <2> QED BY <1>2, <2>6
<1> QED BY <1>1, <1>3, <1>4

\* A structure freed with the wrong predecessor cuts the last one off.
LEMMA StraysClosed ==
    ASSUME NEW S, NEW X, NEW Z, NEW y, Fine(S, X, Z, y), NEW d, NEW T, NEW n, NEW k, Strays(S, d, n, k, T)
    PROVE  \E A : Closed(T, A) /\ List(S)[n] \notin A
<1>1. S \in Book /\ X \subseteq Struct
  BY DEF Fine
<1>2. PICK l, q : l = List(S) /\ q = Pool(S)
  OBVIOUS
<1>3. PICK n1, m \in Nat : Lists(S, l, n1, q, m, X) /\ Len(l) = n1
  BY <1>2, FineLists
<1>4. /\ n1 = n /\ n \in Nat /\ k \in 1 .. n /\ k # 1 /\ k # n
      /\ T = FreeComplete(S, l[k], l[n - 1])
  BY <1>2, <1>3 DEF Strays
<1>5. Lists(S, l, n, q, m, X) /\ k \in 1 .. n /\ k # 1 /\ k # n
  BY <1>3, <1>4
<1> DEFINE U == FreeComplete(S, l[k], l[n - 1])
<1> HIDE DEF U
<1>7. /\ n \in Nat /\ l \in [1 .. n -> Struct] /\ \A i, j \in 1 .. n : l[i] = l[j] => i = j
      /\ S.head = (IF n = 0 THEN Null ELSE l[1])
      /\ \A i \in 1 .. n : S.next[l[i]] = IF i = n THEN Null ELSE l[i + 1]
      /\ m \in Nat /\ q \in [1 .. m -> Struct]
      /\ S.pool = (IF m = 0 THEN Null ELSE q[1])
      /\ \A j \in 1 .. m : S.next[q[j]] = IF j = m THEN Null ELSE q[j + 1]
      /\ \A i \in 1 .. n, j \in 1 .. m : l[i] # q[j]
  BY <1>5 DEF Lists, Row
<1>8. /\ n # 0 /\ 1 \in 1 .. n - 1 /\ k \in 1 .. n - 1 /\ n - 1 \in 1 .. n - 1 /\ n \in 1 .. n
      /\ (k # n - 1 => k + 1 \in 1 .. n - 1) /\ (k = n - 1 <=> l[k] = l[n - 1]) /\ n \notin 1 .. n - 1
      /\ \A i \in 1 .. n - 1 : i \in 1 .. n /\ i # n /\ (i # n - 1 => i + 1 \in 1 .. n - 1)
  <2>1. k \in 1 .. n /\ n - 1 \in 1 .. n BY <1>4
  <2>2. k = n - 1 <=> l[k] = l[n - 1] BY <1>7, <2>1
  <2>3. n \in Nat /\ k \in 1 .. n /\ k # 1 /\ k # n BY <1>4
  <2> QED BY ONLY <2>2, <2>3
<1> DEFINE B == {l[i] : i \in 1 .. n - 1}
           Q == {q[j] : j \in 1 .. m}
           A == B \cup Q
<1>6. Frees(S, l[k], l[n - 1], U) /\ S.head # l[k] /\ S.next[l[k]] = l[k + 1]
  <2>1. l[k] \in Struct /\ l[n - 1] \in Struct BY <1>4, <1>7, <1>8
  <2>2. Frees(S, l[k], l[n - 1], U) BY <1>1, <2>1, FreedBook DEF U
  <2> QED BY <1>4, <1>7, <1>8, <2>2
<1>9. \A i \in 1 .. n - 1 : l[i] \in A
  OBVIOUS
<1>10. \A j \in 1 .. m : q[j] \in A
  OBVIOUS
<1>11. A \subseteq Struct
  BY <1>7, <1>8
<1>12. l[n] \notin A
  BY <1>7, <1>8
<1>13. \A x \in A : (\E i \in 1 .. n - 1 : x = l[i]) \/ \E j \in 1 .. m : x = q[j]
  OBVIOUS
<1> HIDE DEF A
<1>14. S.pool \in A \cup {Null}
  <2>1. m # 0 => 1 \in 1 .. m BY <1>7
  <2> QED BY <1>7, <1>10, <2>1
<1>15. \A x \in Struct : U.next[x] = IF x = l[k] THEN S.pool ELSE IF x = l[n - 1] THEN l[k + 1] ELSE S.next[x]
  BY <1>6 DEF Frees
<1>16. ASSUME NEW i \in 1 .. n - 1 PROVE U.next[l[i]] \in A \cup {Null}
  <2>0. l[i] \in Struct /\ i \in 1 .. n /\ i # n BY <1>7, <1>8
  <2>1. CASE l[i] = l[k] BY <1>14, <1>15, <2>0, <2>1
  <2>2. CASE l[i] # l[k] /\ l[i] = l[n - 1]
    <3>1. U.next[l[i]] = l[k + 1] BY <1>15, <2>0, <2>2
    <3>2. k # n - 1 BY <2>2
    <3> QED BY <1>8, <1>9, <3>1, <3>2
  <2>3. CASE l[i] # l[k] /\ l[i] # l[n - 1]
    <3>1. U.next[l[i]] = l[i + 1] BY <1>7, <1>15, <2>0, <2>3
    <3>2. i # n - 1 BY <2>3
    <3> QED BY <1>8, <1>9, <3>1, <3>2
  <2> QED BY <2>1, <2>2, <2>3
<1>17. ASSUME NEW j \in 1 .. m PROVE U.next[q[j]] \in A \cup {Null}
  <2>1. q[j] \in Struct /\ q[j] # l[k] /\ q[j] # l[n - 1] BY <1>7, <1>8
  <2>2. U.next[q[j]] = IF j = m THEN Null ELSE q[j + 1] BY <1>7, <1>15, <2>1
  <2>3. j # m => j + 1 \in 1 .. m BY <1>7
  <2> QED BY <1>10, <2>2, <2>3
<1>18. Closed(U, A)
  <2>1. U.pool = l[k] /\ U.head = l[1] BY <1>6, <1>7, <1>8 DEF Frees
  <2>2. U.pool \in A /\ U.head \in A BY <1>8, <1>9, <2>1
  <2>3. \A x \in A : U.next[x] \in A \cup {Null} BY <1>13, <1>16, <1>17
  <2> QED BY <1>11, <2>2, <2>3 DEF Closed
<1>19. Closed(T, A) /\ List(S)[n] \notin A
  BY <1>2, <1>4, <1>12, <1>18 DEF U
<1> QED BY <1>19

\* What a fragment damages while ip_reass_tmr is not at work.
LEMMA FragmentDamages ==
    ASSUME Safe, NEW d \in Datagrams, NEW f \in Frags, Fragment(d, f), pc = "idle", Damaged'
    PROVE  Len(List(reass)) >= 3 /\ reass.count = MaxPbufs /\ Last(List(reass)) \notin Listed(reass')
<1>1. /\ Knows /\ Fine(reass, Gone, Spoilt, r) /\ reass \in Book
      /\ reass.count \in 0 .. MaxPbufs /\ MaxPbufs \in Nat \ {0}
  BY SafeFacts
<1>2. Gone = {} /\ Spoilt = {} /\ r = Null
  BY <1>1 DEF Gone, Spoilt, Knows
<1>3. Fine(reass, {}, {}, Null)
  BY <1>1, <1>2
<1>4. PICK S, T : Stages(d, f, S, T)
  BY <1>1, FragmentStages
<1>5. S # reass /\ \E n, k : Strays(reass, d, n, k, S)
  <2> SUFFICES ASSUME S = reass \/ ~ \E n, k : Strays(reass, d, n, k, S) PROVE FALSE
    OBVIOUS
  <2>1. PICK C : Fragmented({}, {}, Null, d, C)
    <3>1. PICK X, Z, y : X = {} /\ Z = {} /\ y = Null OBVIOUS
    <3>2. Fine(reass, X, Z, y) /\ (y # Null => y \in Listed(reass')) /\ Z \subseteq X \cup Listed(reass')
      BY <1>3, <3>1
    <3>3. S = reass \/ ~ \E n, k : Strays(reass, d, n, k, S) OBVIOUS
    <3>4. \E C : Fragmented(X, Z, y, d, C)
      BY ONLY d \in Datagrams, f \in Frags, <1>4, <3>2, <3>3, StagesFine
    <3> QED BY <3>1, <3>4
  <2>2. SoundBut(reass', {}) BY <2>1 DEF Fragmented, Fine
  <2>3. pc' = "idle" /\ touched' = FALSE BY DEF Fragment, main
  <2>4. SoundBut(reass', Gone') BY <2>2, <2>3 DEF Gone
  <2>5. Intact' BY <2>3 DEF Intact, Freeing
  <2> QED BY <2>4, <2>5, DamagedWill
<1>6. PICK n, k : Strays(reass, d, n, k, S)
  BY <1>5
<1>7. /\ n \in Nat /\ Len(List(reass)) = n /\ k \in 1 .. n /\ k # 1 /\ k # n
      /\ reass.data[List(reass)[n]].d = d \/ ~(reass.data[List(reass)[n]].timer <= reass.data[List(reass)[k]].timer)
  BY <1>6 DEF Strays
<1>8. n >= 3
  BY <1>7
<1>9. Removal(reass, d, S) /\ (reass.count + 1 > MaxPbufs \/ Place(reass, d) = 0)
  BY <1>4, <1>5 DEF Stages
<1>10. Place(reass, d) # 0
  <2> SUFFICES ASSUME Place(reass, d) = 0 PROVE FALSE
    OBVIOUS
  <2>1. \A x \in Listed(reass) : reass.data[x].d # d BY <1>3, PlaceNone
  <2>2. PICK l : l = List(reass) OBVIOUS
  <2>3. l \in [1 .. n -> Struct] /\ Listed(reass) = {l[i] : i \in 1 .. n} BY <1>3, <1>7, <2>2, FineLists
  <2>4. n \in 1 .. n /\ k < n BY <1>7
  <2>5. reass.data[l[n]].d # d BY <2>1, <2>3, <2>4
  <2>6. Sorted(Times(reass), l, n, Null) BY <1>3, <1>7, <2>2 DEF Fine
  <2>7. Null \notin Struct BY SizeAssumption
  <2>8. \A c \in k + 1 .. n : l[c] # Null BY <1>7, <2>3, <2>7
  <2>9. Times(reass)[l[n]] <= Times(reass)[l[k]] BY <1>7, <2>4, <2>6, <2>8 DEF Sorted
  <2>10. reass.data[l[n]].timer <= reass.data[l[k]].timer BY <1>7, <2>3, <2>4, <2>9 DEF Times
  <2> QED BY <1>7, <2>2, <2>5, <2>10
<1>11. reass.count = MaxPbufs
  BY <1>1, <1>9, <1>10
<1>12. PICK A : Closed(S, A) /\ List(reass)[n] \notin A
  BY <1>3, <1>6, StraysClosed
<1>13. S \in Book /\ S.pool \in Struct /\ S.data[S.pool] = Unused
  BY <1>1, <1>9, RemovalBook DEF Frees
<1>14. T \in Book /\ Closed(T, A)
  <2>1. CASE T = S BY <1>12, <1>13, <2>1
  <2>2. CASE T = Enqueue(S, d)
    <3>1. T \in Book BY <1>13, <2>2, EnqueuedBook
    <3>2. Closed(S, A) BY <1>12
    <3>3. Closed(T, A) BY ONLY d \in Datagrams, <1>13, <2>2, <3>2, ClosedEnqueue
    <3> QED BY <3>1, <3>3
  <2> QED BY <1>4, <2>1, <2>2 DEF Stages
<1>15. reass' \in Book /\ Closed(reass', A)
  <2>1. CASE reass' = T BY <1>14, <2>1
  <2>2. CASE Place(T, d) # 0 /\ Add(T, d, f) BY <1>14, <2>2, AddBook, ClosedAdd
  <2> QED BY <1>4, <2>1, <2>2 DEF Stages
<1>16. \A x \in Listed(reass') : x \in A
  <2>1. PICK U : U = reass' OBVIOUS
  <2>2. U \in Book /\ Closed(U, A) BY <1>15, <2>1
  <2> QED BY <2>1, <2>2, ClosedListed
<1>17. Last(List(reass)) = List(reass)[n]
  BY <1>7 DEF Last
<1> QED BY <1>7, <1>8, <1>11, <1>12, <1>16, <1>17

\* Memory is damaged only by a fragment that comes while ip_reass_tmr is at
\* work, or by one that finds the limit reached and three datagrams or more,
\* of which the last in the list is lost: ip_reass_remove_oldest_datagram.
THEOREM Bounded == Spec => DamageBounded
<1> DEFINE A == \/ pc # "idle" /\ UNCHANGED main
                \/ Damaged' => LET L == List(reass)
                               IN  /\ pc = "idle" /\ UNCHANGED main
                                   /\ Len(L) >= 3 /\ reass.count = MaxPbufs
                                   /\ Last(L) \notin Listed(reass')
<1>1. Inv /\ [Next]_vars => [A]_vars
  <2> SUFFICES ASSUME Inv, Next PROVE A
    OBVIOUS
  <2>1. Safe
    BY DEF Next, Inv, Safe
  <2>2. CASE Tmr
    <3>1. Safe' BY <2>1, <2>2, TmrSafe
    <3> QED BY <3>1 DEF Safe
  <2>3. CASE \E d \in Datagrams, f \in Frags : Fragment(d, f)
    <3>1. PICK d \in Datagrams, f \in Frags : Fragment(d, f) BY <2>3
    <3>2. UNCHANGED main BY <3>1 DEF Fragment
    <3>3. CASE pc = "idle" /\ Damaged'
      <4>1. Len(List(reass)) >= 3 /\ reass.count = MaxPbufs /\ Last(List(reass)) \notin Listed(reass')
        BY <2>1, <3>1, <3>3, FragmentDamages
      <4> QED BY <3>2, <3>3, <4>1
    <3> QED BY <3>2, <3>3
  <2> QED BY <2>2, <2>3 DEF Next
<1> QED BY <1>1, Invariance, PTL DEF Spec, DamageBounded

=============================================================================
