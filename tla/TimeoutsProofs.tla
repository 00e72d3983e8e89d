--------------------------- MODULE TimeoutsProofs ---------------------------
(***************************************************************************)
(* What the list of differences promises for any handlers, msecs, pool and *)
(* programs, however connections come and go between its steps.            *)
(***************************************************************************)
EXTENDS TimeoutsSchedule, Sums, SequenceTheorems, FiniteSetTheorems, TLAPS

Timer == [h : Handlers, time : Nat]

----------------------------------------------------------------------------
(* The times of the first timers of a list. *)

LEMMA AheadIs ==
    ASSUME NEW l \in Seq(Timer)
    PROVE  /\ Len(l) \in Nat
           /\ Ahead(l, 0) = 0
           /\ \A k \in 0 .. Len(l) : Ahead(l, k) \in Nat
           /\ \A k \in 1 .. Len(l) :
                 /\ l[k].h \in Handlers /\ l[k].time \in Nat
                 /\ l[k] = [h |-> l[k].h, time |-> l[k].time]
                 /\ Ahead(l, k) = Ahead(l, k - 1) + l[k].time
           /\ \A j \in 0 .. Len(l), k \in 0 .. Len(l) : j <= k => Ahead(l, j) <= Ahead(l, k)
<1> DEFINE n == Len(l)
           w == [i \in 1 .. n |-> l[i].time]
           Sum(s) == s = [i \in 0 .. n |-> IF i = 0 THEN 0 ELSE s[i - 1] + l[i].time]
           sum == CHOOSE s : Sum(s)
<1>1. n \in Nat /\ \A k \in 1 .. n : l[k] \in Timer
  OBVIOUS
<1>2. \A k \in 1 .. n : /\ l[k].h \in Handlers /\ l[k].time \in Nat /\ w[k] = l[k].time /\ w[k] \in Int
                        /\ l[k] = [h |-> l[k].h, time |-> l[k].time]
  BY <1>1 DEF Timer
<1>3. Adds(sum, w, n)
  <2>1. \A s : Adds(s, w, n) <=> Sum(s)
    <3> SUFFICES ASSUME NEW s
                 PROVE  [i \in 0 .. n |-> IF i = 0 THEN 0 ELSE s[i - 1] + w[i]]
                          = [i \in 0 .. n |-> IF i = 0 THEN 0 ELSE s[i - 1] + l[i].time]
      BY DEF Adds
    <3>1. \A i \in 0 .. n : i # 0 => w[i] = l[i].time BY <1>1, <1>2
    <3> HIDE DEF w, n
    <3> QED BY <3>1
  <2>2. \E s : Adds(s, w, n) BY <1>1, SumExists
  <2> HIDE DEF Sum
  <2> QED BY <2>1, <2>2
<1>4. \A k : Ahead(l, k) = sum[k]
  BY DEF Ahead
<1> HIDE DEF sum, w
<1>5. /\ sum[0] = 0 /\ \A k \in 0 .. n : sum[k] \in Int
      /\ \A k \in 1 .. n : sum[k] = sum[k - 1] + l[k].time
  <2>1. \A k \in 1 .. n : w[k] \in Int BY <1>2
  <2> HIDE DEF n
  <2>2. /\ sum[0] = 0 /\ \A k \in 0 .. n : sum[k] \in Int
        /\ \A k \in 1 .. n : sum[k] = sum[k - 1] + w[k]
    BY <1>1, <1>3, <2>1, SumSteps
  <2> QED BY <1>2, <2>2
<1>6. \A j \in 0 .. n, k \in 0 .. n : j <= k => sum[j] <= sum[k]
  <2>1. \A k \in (0 + 1) .. n : sum[k - 1] <= sum[k]
    <3> SUFFICES ASSUME NEW k \in 1 .. n PROVE sum[k - 1] <= sum[k]
      OBVIOUS
    <3>1. k - 1 \in 0 .. n BY <1>1
    <3>2. sum[k - 1] \in Int BY <1>5, <3>1
    <3>3. sum[k] = sum[k - 1] + l[k].time BY <1>5
    <3>4. l[k].time \in Nat BY <1>2
    <3> QED BY <3>2, <3>3, <3>4
  <2>2. 0 \in Int /\ n \in Int BY <1>1
  <2> HIDE DEF n
  <2> QED BY <1>5, <2>1, <2>2, Climbs
<1>7. \A k \in 0 .. n : sum[k] \in Nat
  <2> SUFFICES ASSUME NEW k \in 0 .. n PROVE sum[k] \in Nat
    OBVIOUS
  <2>1. 0 \in 0 .. n /\ 0 <= k BY <1>1
  <2>2. sum[0] <= sum[k] BY <1>6, <2>1
  <2> QED BY <1>5, <2>2
<1> QED BY <1>1, <1>2, <1>4, <1>5, <1>6, <1>7

\* Whatever starts at 0 and grows by the times of the list is its sums.
LEMMA AheadOnly ==
    ASSUME NEW l \in Seq(Timer), NEW g, g[0] = 0,
           \A k \in 1 .. Len(l) : g[k] = g[k - 1] + l[k].time
    PROVE  \A k \in 0 .. Len(l) : Ahead(l, k) = g[k]
<1> DEFINE n == Len(l)
           T == {i \in Nat : i <= n /\ Ahead(l, i) # g[i]}
<1>0. n \in Nat
  OBVIOUS
<1>1. Ahead(l, 0) = 0 /\ \A k \in 1 .. n : Ahead(l, k) = Ahead(l, k - 1) + l[k].time
  BY AheadIs
<1>2. \A k \in 1 .. n : g[k] = g[k - 1] + l[k].time
  OBVIOUS
<1> HIDE DEF n
<1>3. T = {}
  <2> SUFFICES ASSUME T # {} PROVE FALSE
    OBVIOUS
  <2>1. PICK i \in T : \A k \in T : i <= k
    BY LeastNumber
  <2>2. i # 0
    BY <1>1, <2>1
  <2>3. i - 1 \in Nat /\ i \in 1 .. n /\ i - 1 \notin T
    BY <1>0, <2>1, <2>2
  <2>4. Ahead(l, i - 1) = g[i - 1]
    BY <1>0, <2>3
  <2> QED BY <1>1, <1>2, <2>1, <2>3, <2>4
<1> QED BY <1>0, <1>3 DEF n

----------------------------------------------------------------------------
(* sys_timeout's insertion. *)

\* A new timer goes behind those that expire no later, and before the others.
LEMMA BeforeIs ==
    ASSUME NEW l \in Seq(Timer), NEW ms \in Nat
    PROVE  /\ Before(l, ms) \in 0 .. Len(l)
           /\ \A j \in 0 .. Before(l, ms) : Ahead(l, j) <= ms
           /\ \A j \in (Before(l, ms) + 1) .. Len(l) : ms < Ahead(l, j)
<1> DEFINE n == Len(l)
           Stop(k) == k = n \/ l[k + 1].time > ms - Ahead(l, k)
           T == {k \in Nat : k <= n /\ Stop(k)}
           Right(k) == /\ k = n \/ l[k + 1].time > ms - Ahead(l, k)
                       /\ \A j \in 0 .. (k - 1) : l[j + 1].time <= ms - Ahead(l, j)
<1>1. /\ n \in Nat /\ Ahead(l, 0) = 0
      /\ \A k \in 0 .. n : Ahead(l, k) \in Nat
      /\ \A k \in 1 .. n : l[k].time \in Nat /\ Ahead(l, k) = Ahead(l, k - 1) + l[k].time
      /\ \A j \in 0 .. n, k \in 0 .. n : j <= k => Ahead(l, j) <= Ahead(l, k)
  BY AheadIs
<1> HIDE DEF n
<1>2. \A j \in 0 .. (n - 1) :
         /\ l[j + 1].time \in Nat /\ Ahead(l, j) \in Nat /\ Ahead(l, j + 1) = Ahead(l, j) + l[j + 1].time
  <2> SUFFICES ASSUME NEW j \in 0 .. (n - 1)
               PROVE  /\ l[j + 1].time \in Nat /\ Ahead(l, j) \in Nat
                      /\ Ahead(l, j + 1) = Ahead(l, j) + l[j + 1].time
    OBVIOUS
  <2>1. j \in 0 .. n /\ j + 1 \in 1 .. n /\ (j + 1) - 1 = j
    BY <1>1
  <2> QED BY <1>1, <2>1
<1>3. \E k \in 0 .. n : Right(k)
  <2>1. n \in T
    <3>1. n \in Nat /\ n <= n /\ Stop(n)
      BY <1>1
    <3> HIDE DEF Stop
    <3> QED BY <3>1
  <2>2. PICK k \in T : \A j \in T : k <= j
    <3>1. T \subseteq Nat /\ T # {} BY <2>1
    <3> QED BY <3>1, LeastNumber
  <2>3. k \in 0 .. n /\ Stop(k)
    BY <1>1, <2>2
  <2>4. ASSUME NEW j \in 0 .. (k - 1) PROVE l[j + 1].time <= ms - Ahead(l, j)
    <3>1. j \in Nat /\ j <= n /\ ~(k <= j) /\ j \in 0 .. (n - 1)
      BY <1>1, <2>3
    <3>2. ~Stop(j)
      BY <2>2, <3>1
    <3>3. ~(l[j + 1].time > ms - Ahead(l, j))
      BY <3>2
    <3>4. l[j + 1].time \in Nat /\ Ahead(l, j) \in Nat
      BY <1>2, <3>1
    <3> QED BY <3>3, <3>4
  <2> QED BY <2>3, <2>4
<1> DEFINE b == Before(l, ms)
<1>4. b \in 0 .. n /\ Right(b)
  <2>1. b = CHOOSE k \in 0 .. n : Right(k)
    BY DEF Before, n
  <2> HIDE DEF Right, b
  <2> QED BY <1>3, <2>1
<1> HIDE DEF b
<1>5. ASSUME NEW j \in 0 .. b PROVE Ahead(l, j) <= ms
  <2>1. CASE j = 0
    BY <1>1, <2>1
  <2>2. CASE j # 0
    <3>1. PICK i \in 0 .. (n - 1) : i = j - 1 /\ i \in 0 .. (b - 1)
      BY <1>1, <1>4, <2>2
    <3>2. l[i + 1].time <= ms - Ahead(l, i)
      BY <1>4, <3>1
    <3>3. i + 1 = j
      BY <3>1
    <3>4. PICK x \in Nat, t \in Nat : x = Ahead(l, i) /\ t = l[i + 1].time /\ Ahead(l, j) = x + t
      BY <1>2, <3>1, <3>3
    <3>5. t <= ms - x
      BY <3>2, <3>4
    <3>6. x + t <= ms
      BY <3>5
    <3> QED BY <3>4, <3>6
  <2> QED BY <2>1, <2>2
<1>6. ASSUME NEW j \in (b + 1) .. n PROVE ms < Ahead(l, j)
  <2>1. b \in 0 .. (n - 1) /\ b + 1 \in 0 .. n /\ j \in 0 .. n /\ b + 1 <= j /\ b # n
    BY <1>1, <1>4
  <2>2. l[b + 1].time > ms - Ahead(l, b)
    BY <1>4, <2>1
  <2>3. PICK x \in Nat, t \in Nat : x = Ahead(l, b) /\ t = l[b + 1].time /\ Ahead(l, b + 1) = x + t
    BY <1>2, <2>1
  <2>4. t > ms - x
    BY <2>2, <2>3
  <2>5. ms < x + t
    BY <2>4
  <2>6. PICK y \in Nat : y = Ahead(l, j)
    BY <1>1, <2>1
  <2>7. x + t <= y
    BY <1>1, <2>1, <2>3, <2>6
  <2>8. ms < y
    BY <2>5, <2>7
  <2> QED BY <2>6, <2>8
<1> QED BY <1>4, <1>5, <1>6 DEF b, n

\* The timers after the insertion: those before the new one as they were, the
\* new one with what is left of ms, those behind it with their msecs since the
\* same moment.
LEMMA InsertIs ==
    ASSUME NEW l \in Seq(Timer), NEW h \in Handlers, NEW ms \in Nat
    PROVE  \E m \in Seq(Timer), k \in 0 .. Len(l) :
             /\ m = Insert(l, h, ms) /\ k = Before(l, ms) /\ Len(m) = Len(l) + 1
             /\ \A j \in 1 .. k : m[j].h = l[j].h
             /\ m[k + 1].h = h
             /\ \A j \in (k + 1) .. Len(l) : m[j + 1].h = l[j].h
             /\ \A j \in 0 .. k : Ahead(m, j) = Ahead(l, j) /\ Ahead(l, j) <= ms
             /\ Ahead(m, k + 1) = ms
             /\ \A j \in (k + 1) .. Len(l) : Ahead(m, j + 1) = Ahead(l, j) /\ ms < Ahead(l, j)
<1>1. PICK n \in Nat : n = Len(l)
  BY AheadIs
<1>2. PICK k \in 0 .. n : k = Before(l, ms)
  BY <1>1, BeforeIs
<1>3. PICK x \in Nat : x = Ahead(l, k) /\ x <= ms
  <2>1. \A j \in 0 .. k : Ahead(l, j) <= ms BY <1>2, BeforeIs
  <2>2. k \in 0 .. k OBVIOUS
  <2>3. Ahead(l, k) \in Nat BY <1>1, AheadIs
  <2>4. Ahead(l, k) <= ms BY <2>1, <2>2
  <2> QED BY <2>3, <2>4
<1>4. PICK t \in Nat : t = ms - x /\ x + t = ms
  BY <1>3
<1>5. /\ \A j \in 0 .. k : Ahead(l, j) <= ms
      /\ \A j \in (k + 1) .. n : ms < Ahead(l, j)
  BY <1>1, <1>2, BeforeIs
<1>6. /\ Ahead(l, 0) = 0
      /\ \A j \in 0 .. n : Ahead(l, j) \in Nat
      /\ \A j \in 1 .. n : /\ l[j].h \in Handlers /\ l[j].time \in Nat
                           /\ l[j] = [h |-> l[j].h, time |-> l[j].time]
                           /\ Ahead(l, j) = Ahead(l, j - 1) + l[j].time
  BY <1>1, AheadIs
<1> DEFINE New(j) == IF j = k + 1 THEN [l[j] EXCEPT !.time = @ - t] ELSE l[j]
           r == [j \in 1 .. n |-> New(j)]
           p == SubSeq(l, 1, k)
           q == <<[h |-> h, time |-> t]>>
           s == SubSeq(r, k + 1, n)
           m == (p \o q) \o s
<1>7. Insert(l, h, ms) = m
  BY <1>1, <1>2, <1>3, <1>4 DEF Insert, Retimed
<1>8. \A j \in 1 .. n : /\ New(j).h = l[j].h /\ New(j) \in Timer
                        /\ j = k + 1 => New(j).time = l[j].time - t
                        /\ j # k + 1 => New(j).time = l[j].time
  <2> SUFFICES ASSUME NEW j \in 1 .. n
               PROVE  /\ New(j).h = l[j].h /\ New(j) \in Timer
                      /\ j = k + 1 => New(j).time = l[j].time - t
                      /\ j # k + 1 => New(j).time = l[j].time
    OBVIOUS
  <2>1. PICK g \in Handlers, u \in Nat : g = l[j].h /\ u = l[j].time /\ l[j] = [h |-> g, time |-> u]
    BY <1>6
  <2>2. CASE j = k + 1
    <3>1. j \in 0 .. n /\ j \in (k + 1) .. n /\ j - 1 = k BY <1>1, <1>2, <2>2
    <3>2. ms < x + u BY <1>3, <1>5, <1>6, <2>1, <3>1
    <3>3. u - t \in Nat BY <1>4, <3>2
    <3>4. New(j) = [h |-> g, time |-> u - t] BY <2>1, <2>2
    <3> HIDE DEF New
    <3> QED BY <2>1, <2>2, <3>3, <3>4 DEF Timer
  <2>3. CASE j # k + 1
    <3>1. New(j) = [h |-> g, time |-> u] BY <2>1, <2>3
    <3> HIDE DEF New
    <3> QED BY <2>1, <2>3, <3>1 DEF Timer
  <2> QED BY <2>2, <2>3
<1> HIDE DEF New
<1>9. \A j \in 1 .. n : r[j] = New(j)
  OBVIOUS
<1> HIDE DEF r
<1>10. /\ p \in Seq(Timer) /\ Len(p) = k /\ \A j \in 1 .. k : p[j] = l[j]
  <2>1. \A j \in 1 .. k : l[j] \in Timer BY <1>1, ElementOfSeq
  <2>2. 1 \in Int /\ k \in Int OBVIOUS
  <2>3. /\ p \in Seq(Timer) /\ Len(p) = IF 1 <= k THEN k - 1 + 1 ELSE 0
        /\ \A j \in 1 .. (k - 1 + 1) : p[j] = l[1 + j - 1]
    BY <2>1, <2>2, SubSeqProperties
  <2>4. \A j \in 1 .. k : 1 + j - 1 = j OBVIOUS
  <2> HIDE DEF p
  <2>5. \A j \in 1 .. k : p[j] = l[j] BY <2>3, <2>4
  <2>6. Len(p) = k BY <2>3
  <2> QED BY <2>3, <2>5, <2>6
<1>11. /\ s \in Seq(Timer) /\ Len(s) = n - k /\ \A j \in (k + 1) .. n : s[j - k] = New(j)
  <2>1. \A j \in (k + 1) .. n : r[j] \in Timer /\ r[j] = New(j)
    <3>1. \A j \in (k + 1) .. n : j \in 1 .. n OBVIOUS
    <3> QED BY <1>8, <1>9, <3>1
  <2>2. k + 1 \in Int /\ n \in Int OBVIOUS
  <2>3. /\ s \in Seq(Timer) /\ Len(s) = IF k + 1 <= n THEN n - (k + 1) + 1 ELSE 0
        /\ \A j \in 1 .. (n - (k + 1) + 1) : s[j] = r[(k + 1) + j - 1]
    BY <2>1, <2>2, SubSeqProperties
  <2> HIDE DEF s
  <2>4. \A j \in (k + 1) .. n : j - k \in 1 .. (n - (k + 1) + 1) /\ (k + 1) + (j - k) - 1 = j OBVIOUS
  <2>5. \A j \in (k + 1) .. n : s[j - k] = New(j) BY <2>1, <2>3, <2>4
  <2>6. Len(s) = n - k BY <2>3
  <2> QED BY <2>3, <2>5, <2>6
<1>12. q \in Seq(Timer) /\ Len(q) = 1 /\ q[1] = [h |-> h, time |-> t]
  BY DEF Timer
<1> HIDE DEF p, q, s
<1>13. /\ p \o q \in Seq(Timer) /\ Len(p \o q) = k + 1
       /\ \A j \in 1 .. k : (p \o q)[j] = l[j]
       /\ (p \o q)[k + 1] = [h |-> h, time |-> t]
  <2>1. /\ p \o q \in Seq(Timer) /\ Len(p \o q) = k + 1
        /\ \A j \in 1 .. (k + 1) : (p \o q)[j] = IF j <= k THEN p[j] ELSE q[j - k]
    <3>1. /\ p \o q \in Seq(Timer) /\ Len(p \o q) = Len(p) + Len(q)
          /\ \A j \in 1 .. (Len(p) + Len(q)) : (p \o q)[j] = IF j <= Len(p) THEN p[j] ELSE q[j - Len(p)]
      BY <1>10, <1>12, ConcatProperties
    <3>2. Len(p) = k /\ Len(q) = 1 BY <1>10, <1>12
    <3> HIDE DEF p, q
    <3> QED BY <3>1, <3>2
  <2>2. k + 1 \in 1 .. (k + 1) /\ ~(k + 1 <= k) /\ (k + 1) - k = 1 OBVIOUS
  <2>3. (p \o q)[k + 1] = q[1] BY <2>1, <2>2
  <2>4. \A j \in 1 .. k : j \in 1 .. (k + 1) /\ j <= k OBVIOUS
  <2> QED BY <1>10, <1>12, <2>1, <2>3, <2>4
<1>14. /\ m \in Seq(Timer) /\ Len(m) = n + 1
       /\ \A j \in 1 .. k : m[j] = l[j]
       /\ m[k + 1] = [h |-> h, time |-> t]
       /\ \A j \in (k + 1) .. n : m[j + 1] = New(j)
  <2>1. /\ m \in Seq(Timer) /\ Len(m) = (k + 1) + (n - k)
        /\ \A j \in 1 .. ((k + 1) + (n - k)) : m[j] = IF j <= k + 1 THEN (p \o q)[j] ELSE s[j - (k + 1)]
    <3> DEFINE o == p \o q
    <3>1. o \in Seq(Timer) /\ Len(o) = k + 1 BY <1>13
    <3> HIDE DEF o
    <3>2. /\ o \o s \in Seq(Timer) /\ Len(o \o s) = Len(o) + Len(s)
          /\ \A j \in 1 .. (Len(o) + Len(s)) : (o \o s)[j] = IF j <= Len(o) THEN o[j] ELSE s[j - Len(o)]
      BY <1>11, <3>1, ConcatProperties
    <3>3. Len(o) = k + 1 /\ Len(s) = n - k BY <1>11, <3>1
    <3>4. /\ o \o s \in Seq(Timer) /\ Len(o \o s) = (k + 1) + (n - k)
          /\ \A j \in 1 .. ((k + 1) + (n - k)) : (o \o s)[j] = IF j <= k + 1 THEN o[j] ELSE s[j - (k + 1)]
      BY <3>2, <3>3
    <3> QED BY <3>4 DEF m, o
  <2>2. (k + 1) + (n - k) = n + 1 OBVIOUS
  <2>3. k + 1 \in 1 .. (n + 1) /\ \A j \in 1 .. k : j \in 1 .. (n + 1) /\ j <= k + 1 OBVIOUS
  <2>4. \A j \in (k + 1) .. n : /\ j + 1 \in 1 .. (n + 1) /\ ~(j + 1 <= k + 1)
                                /\ (j + 1) - (k + 1) = j - k
    OBVIOUS
  <2> HIDE DEF m
  <2>5. m[k + 1] = (p \o q)[k + 1]
    <3>1. k + 1 <= k + 1 OBVIOUS
    <3> QED BY <2>1, <2>2, <2>3, <3>1
  <2>6. \A j \in 1 .. k : m[j] = l[j] BY <1>13, <2>1, <2>2, <2>3
  <2>7. \A j \in (k + 1) .. n : m[j + 1] = New(j) BY <1>11, <2>1, <2>2, <2>4
  <2> QED BY <1>13, <2>1, <2>2, <2>5, <2>6, <2>7
<1> HIDE DEF m
<1> DEFINE Sum(j) == IF j <= k THEN Ahead(l, j) ELSE IF j = k + 1 THEN ms ELSE Ahead(l, j - 1)
           g == [j \in 0 .. (n + 1) |-> Sum(j)]
<1>15. \A j \in 1 .. (n + 1) : Sum(j) = Sum(j - 1) + m[j].time
  <2> SUFFICES ASSUME NEW j \in 1 .. (n + 1) PROVE Sum(j) = Sum(j - 1) + m[j].time
    OBVIOUS
  <2>1. CASE j <= k
    <3>1. j \in 1 .. k /\ j \in 1 .. n /\ j - 1 <= k BY <2>1
    <3>2. m[j].time = l[j].time BY <1>14, <3>1
    <3> QED BY <1>6, <2>1, <3>1, <3>2
  <2>2. CASE j = k + 1
    <3>1. ~(j <= k) /\ j - 1 = k /\ m[j].time = t BY <1>14, <2>2
    <3>2. Sum(j) = ms /\ Sum(j - 1) = x BY <1>3, <2>2, <3>1
    <3> HIDE DEF Sum
    <3> QED BY <1>4, <3>1, <3>2
  <2>3. CASE j = k + 2
    <3>1. j - 1 \in (k + 1) .. n /\ (j - 1) + 1 = j /\ j - 1 = k + 1 /\ (j - 1) - 1 = k /\ j - 1 \in 1 .. n
      BY <2>3
    <3>2. PICK i \in 1 .. n : i = j - 1 BY <3>1
    <3>3. PICK u \in Nat : u = l[i].time /\ Ahead(l, i) = x + u BY <1>3, <1>6, <3>1, <3>2
    <3>4. m[j].time = u - t BY <1>8, <1>14, <3>1, <3>2, <3>3
    <3>5. Sum(j) = x + u /\ Sum(j - 1) = ms BY <2>3, <3>1, <3>2, <3>3
    <3>6. x + u = ms + (u - t) BY <1>4
    <3> HIDE DEF Sum
    <3> QED BY <3>4, <3>5, <3>6
  <2>4. CASE j > k + 2
    <3>1. j - 1 \in (k + 1) .. n /\ (j - 1) + 1 = j /\ j - 1 # k + 1 /\ j - 1 \in 1 .. n /\ ~(j - 1 <= k)
      BY <2>4
    <3>2. PICK i \in 1 .. n : i = j - 1 BY <3>1
    <3>3. m[j].time = l[i].time BY <1>8, <1>14, <3>1, <3>2
    <3>4. Sum(j) = Ahead(l, i) /\ Sum(j - 1) = Ahead(l, i - 1) BY <2>4, <3>1, <3>2
    <3> HIDE DEF Sum
    <3> QED BY <1>6, <3>3, <3>4
  <2> QED BY <2>1, <2>2, <2>3, <2>4
<1>16. \A j \in 0 .. (n + 1) : Ahead(m, j) = Sum(j)
  <2>1. \A j \in 0 .. (n + 1) : g[j] = Sum(j) OBVIOUS
  <2>2. Sum(0) = 0 BY <1>6
  <2> HIDE DEF Sum, g
  <2>3. \A j \in 1 .. (n + 1) : j \in 0 .. (n + 1) /\ j - 1 \in 0 .. (n + 1) OBVIOUS
  <2>4. \A j \in 1 .. (n + 1) : g[j] = g[j - 1] + m[j].time BY <1>15, <2>1, <2>3
  <2>5. 0 \in 0 .. (n + 1) OBVIOUS
  <2>6. g[0] = 0 BY <2>1, <2>2, <2>5
  <2>7. \A j \in 0 .. (n + 1) : Ahead(m, j) = g[j] BY <1>14, <2>4, <2>6, AheadOnly
  <2> QED BY <2>1, <2>7
<1>17. /\ \A j \in 0 .. k : Ahead(m, j) = Ahead(l, j)
       /\ Ahead(m, k + 1) = ms
       /\ \A j \in (k + 1) .. n : Ahead(m, j + 1) = Ahead(l, j)
  BY <1>16
<1>18. /\ \A j \in 1 .. k : m[j].h = l[j].h
       /\ m[k + 1].h = h
       /\ \A j \in (k + 1) .. n : m[j + 1].h = l[j].h
  <2>1. \A j \in (k + 1) .. n : New(j).h = l[j].h BY <1>8
  <2> QED BY <1>14, <2>1
<1> QED BY <1>1, <1>2, <1>5, <1>7, <1>14, <1>17, <1>18

----------------------------------------------------------------------------
(* The place of a handler, sys_untimeout's removal, and expiry. *)

\* Place is the first of the timers of h.
LEMMA PlaceIs ==
    ASSUME NEW l \in Seq(Timer), NEW h, InList(l, h)
    PROVE  /\ Place(l, h) \in 1 .. Len(l) /\ l[Place(l, h)].h = h
           /\ \A j \in 1 .. (Place(l, h) - 1) : l[j].h # h
<1> DEFINE n == Len(l)
           T == {i \in Nat : i \in 1 .. n /\ l[i].h = h}
           First(i) == l[i].h = h /\ \A j \in 1 .. (i - 1) : l[j].h # h
<1>1. n \in Nat
  OBVIOUS
<1>2. T # {}
  BY DEF InList
<1>3. PICK i \in T : \A j \in T : i <= j
  <2>1. T \subseteq Nat OBVIOUS
  <2> QED BY <1>2, <2>1, LeastNumber
<1>4. i \in 1 .. n /\ l[i].h = h
  BY <1>3
<1>5. ASSUME NEW j \in 1 .. (i - 1) PROVE l[j].h # h
  <2>1. j \in 1 .. n /\ ~(i <= j) /\ j \in Nat BY <1>1, <1>4
  <2> QED BY <1>3, <2>1
<1>6. First(i)
  BY <1>4, <1>5
<1>7. Place(l, h) = CHOOSE j \in 1 .. n : First(j)
  BY DEF Place
<1> HIDE DEF First, n
<1>8. Place(l, h) \in 1 .. n /\ First(Place(l, h))
  BY <1>4, <1>6, <1>7
<1> QED BY <1>8 DEF First, n

\* A list with one timer for each handler at most.
Once(l) == \A i, j \in 1 .. Len(l) : l[i].h = l[j].h => i = j

LEMMA PlaceOfItsHandler ==
    ASSUME NEW l \in Seq(Timer), Once(l), NEW i \in 1 .. Len(l)
    PROVE  InList(l, l[i].h) /\ Place(l, l[i].h) = i
<1>1. InList(l, l[i].h)
  BY DEF InList
<1>2. Place(l, l[i].h) \in 1 .. Len(l) /\ l[Place(l, l[i].h)].h = l[i].h
  BY <1>1, PlaceIs
<1> QED BY <1>1, <1>2 DEF Once

\* The timers behind place i.
LEMMA DropIs ==
    ASSUME NEW l \in Seq(Timer), NEW i \in 0 .. Len(l)
    PROVE  \E m \in Seq(Timer) :
             /\ m = SubSeq(l, i + 1, Len(l)) /\ Len(m) = Len(l) - i
             /\ \A j \in 1 .. (Len(l) - i) : m[j] = l[i + j]
             /\ \A j \in 0 .. (Len(l) - i) : Ahead(m, j) = Ahead(l, i + j) - Ahead(l, i)
<1>1. PICK n \in Nat : n = Len(l)
  BY AheadIs
<1> DEFINE m == SubSeq(l, i + 1, n)
<1>2. \A j \in (i + 1) .. n : l[j] \in Timer
  <2>1. \A j \in (i + 1) .. n : j \in 1 .. Len(l) BY <1>1
  <2> QED BY <2>1, ElementOfSeq
<1>3. /\ m \in Seq(Timer) /\ Len(m) = n - i
      /\ \A j \in 1 .. (n - i) : m[j] = l[i + j]
  <2>1. i + 1 \in Int /\ n \in Int /\ i <= n BY <1>1
  <2>2. /\ m \in Seq(Timer) /\ Len(m) = IF i + 1 <= n THEN n - (i + 1) + 1 ELSE 0
        /\ \A j \in 1 .. (n - (i + 1) + 1) : m[j] = l[(i + 1) + j - 1]
    BY <1>2, <2>1, SubSeqProperties
  <2>3. \A j \in 1 .. (n - i) : j \in 1 .. (n - (i + 1) + 1) /\ (i + 1) + j - 1 = i + j BY <2>1
  <2> HIDE DEF m
  <2>4. Len(m) = n - i BY <2>1, <2>2
  <2> QED BY <2>2, <2>3, <2>4
<1> HIDE DEF m
<1> DEFINE Sum(j) == Ahead(l, i + j) - Ahead(l, i)
           g == [j \in 0 .. (n - i) |-> Sum(j)]
<1>4. PICK x \in Nat : x = Ahead(l, i)
  BY AheadIs
<1>5. \A j \in 1 .. (n - i) : Sum(j) = Sum(j - 1) + m[j].time
  <2> SUFFICES ASSUME NEW j \in 1 .. (n - i) PROVE Sum(j) = Sum(j - 1) + m[j].time
    OBVIOUS
  <2>1. i + j \in 1 .. n /\ (i + j) - 1 = i + (j - 1) /\ i + (j - 1) \in 0 .. n BY <1>1
  <2>2. PICK k \in 1 .. n : k = i + j BY <2>1
  <2>3. PICK y \in Nat, t \in Nat : y = Ahead(l, k - 1) /\ t = l[k].time /\ Ahead(l, k) = y + t
    <3>1. k - 1 \in 0 .. Len(l) BY <1>1
    <3>2. Ahead(l, k - 1) \in Nat /\ l[k].time \in Nat /\ Ahead(l, k) = Ahead(l, k - 1) + l[k].time
      BY <1>1, <3>1, AheadIs
    <3> QED BY <3>2
  <2>4. m[j].time = t BY <1>3, <2>2, <2>3
  <2>5. Sum(j) = (y + t) - x BY <1>4, <2>2, <2>3
  <2>6. Sum(j - 1) = y - x BY <1>4, <2>1, <2>2, <2>3
  <2> HIDE DEF Sum
  <2>7. (y + t) - x = (y - x) + t OBVIOUS
  <2> QED BY <2>4, <2>5, <2>6, <2>7
<1>6. \A j \in 0 .. (n - i) : Ahead(m, j) = Sum(j)
  <2>1. \A j \in 0 .. (n - i) : g[j] = Sum(j) OBVIOUS
  <2>2. Sum(0) = 0
    <3>1. i + 0 = i OBVIOUS
    <3>2. Sum(0) = x - x BY <1>4, <3>1
    <3> HIDE DEF Sum
    <3>3. x - x = 0 OBVIOUS
    <3> QED BY <3>2, <3>3
  <2> HIDE DEF Sum, g
  <2>3. \A j \in 1 .. (n - i) : j \in 0 .. (n - i) /\ j - 1 \in 0 .. (n - i) BY <1>1
  <2>4. \A j \in 1 .. (n - i) : g[j] = g[j - 1] + m[j].time BY <1>5, <2>1, <2>3
  <2>5. 0 \in 0 .. (n - i) BY <1>1
  <2>6. g[0] = 0 BY <2>1, <2>2, <2>5
  <2>7. \A j \in 1 .. Len(m) : g[j] = g[j - 1] + m[j].time BY <1>3, <2>4
  <2>8. \A j \in 0 .. Len(m) : Ahead(m, j) = g[j] BY <1>3, <2>6, <2>7, AheadOnly
  <2> QED BY <1>3, <2>1, <2>8
<1> QED BY <1>1, <1>3, <1>6 DEF m

\* The timers after the removal: the others, with their msecs as before.
LEMMA RemoveIs ==
    ASSUME NEW l \in Seq(Timer), NEW h, InList(l, h)
    PROVE  \E m \in Seq(Timer), i \in 1 .. Len(l) :
             /\ m = Remove(l, h) /\ i = Place(l, h) /\ Len(m) = Len(l) - 1
             /\ \A j \in 1 .. (i - 1) : m[j].h = l[j].h
             /\ \A j \in i .. (Len(l) - 1) : m[j].h = l[j + 1].h
             /\ \A j \in 0 .. (i - 1) : Ahead(m, j) = Ahead(l, j)
             /\ \A j \in i .. (Len(l) - 1) : Ahead(m, j) = Ahead(l, j + 1)
<1>1. PICK n \in Nat : n = Len(l)
  BY AheadIs
<1>2. PICK i \in 1 .. n : i = Place(l, h)
  BY <1>1, PlaceIs
<1>3. /\ Ahead(l, 0) = 0
      /\ \A j \in 0 .. n : Ahead(l, j) \in Nat
      /\ \A j \in 1 .. n : /\ l[j].h \in Handlers /\ l[j].time \in Nat
                           /\ l[j] = [h |-> l[j].h, time |-> l[j].time]
                           /\ Ahead(l, j) = Ahead(l, j - 1) + l[j].time
  BY <1>1, AheadIs
<1>4. PICK t \in Nat : t = l[i].time
  BY <1>3
<1> DEFINE New(j) == IF j = i + 1 THEN [l[j] EXCEPT !.time = @ + t] ELSE l[j]
           r == [j \in 1 .. n |-> New(j)]
           p == SubSeq(l, 1, i - 1)
           s == SubSeq(r, i + 1, n)
           m == p \o s
<1>5. Remove(l, h) = m
  BY <1>1, <1>2, <1>4 DEF Remove, Retimed
<1>6. \A j \in 1 .. n : /\ New(j).h = l[j].h /\ New(j) \in Timer
                        /\ j = i + 1 => New(j).time = l[j].time + t
                        /\ j # i + 1 => New(j).time = l[j].time
  <2> SUFFICES ASSUME NEW j \in 1 .. n
               PROVE  /\ New(j).h = l[j].h /\ New(j) \in Timer
                      /\ j = i + 1 => New(j).time = l[j].time + t
                      /\ j # i + 1 => New(j).time = l[j].time
    OBVIOUS
  <2>1. PICK g \in Handlers, u \in Nat : g = l[j].h /\ u = l[j].time /\ l[j] = [h |-> g, time |-> u]
    BY <1>3
  <2>2. CASE j = i + 1
    <3>1. New(j) = [h |-> g, time |-> u + t] /\ u + t \in Nat BY <2>1, <2>2
    <3> HIDE DEF New
    <3> QED BY <2>1, <2>2, <3>1 DEF Timer
  <2>3. CASE j # i + 1
    <3>1. New(j) = [h |-> g, time |-> u] BY <2>1, <2>3
    <3> HIDE DEF New
    <3> QED BY <2>1, <2>3, <3>1 DEF Timer
  <2> QED BY <2>2, <2>3
<1> HIDE DEF New
<1>7. \A j \in 1 .. n : r[j] = New(j)
  OBVIOUS
<1> HIDE DEF r
<1>8. /\ p \in Seq(Timer) /\ Len(p) = i - 1 /\ \A j \in 1 .. (i - 1) : p[j] = l[j]
  <2>1. \A j \in 1 .. (i - 1) : l[j] \in Timer BY <1>1, ElementOfSeq
  <2>2. 1 \in Int /\ i - 1 \in Int OBVIOUS
  <2>3. /\ p \in Seq(Timer) /\ Len(p) = IF 1 <= i - 1 THEN (i - 1) - 1 + 1 ELSE 0
        /\ \A j \in 1 .. ((i - 1) - 1 + 1) : p[j] = l[1 + j - 1]
    BY <2>1, <2>2, SubSeqProperties
  <2>4. \A j \in 1 .. (i - 1) : 1 + j - 1 = j OBVIOUS
  <2> HIDE DEF p
  <2>5. \A j \in 1 .. (i - 1) : p[j] = l[j] BY <2>3, <2>4
  <2>6. Len(p) = i - 1 BY <2>3
  <2> QED BY <2>3, <2>5, <2>6
<1>9. /\ s \in Seq(Timer) /\ Len(s) = n - i /\ \A j \in i .. (n - 1) : s[j - (i - 1)] = New(j + 1)
  <2>1. \A j \in (i + 1) .. n : r[j] \in Timer /\ r[j] = New(j)
    <3>1. \A j \in (i + 1) .. n : j \in 1 .. n OBVIOUS
    <3> QED BY <1>6, <1>7, <3>1
  <2>2. i + 1 \in Int /\ n \in Int OBVIOUS
  <2>3. /\ s \in Seq(Timer) /\ Len(s) = IF i + 1 <= n THEN n - (i + 1) + 1 ELSE 0
        /\ \A j \in 1 .. (n - (i + 1) + 1) : s[j] = r[(i + 1) + j - 1]
    BY <2>1, <2>2, SubSeqProperties
  <2> HIDE DEF s
  <2>4. \A j \in i .. (n - 1) : /\ j - (i - 1) \in 1 .. (n - (i + 1) + 1)
                                /\ (i + 1) + (j - (i - 1)) - 1 = j + 1 /\ j + 1 \in (i + 1) .. n
    OBVIOUS
  <2>5. \A j \in i .. (n - 1) : s[j - (i - 1)] = New(j + 1) BY <2>1, <2>3, <2>4
  <2>6. Len(s) = n - i BY <2>3
  <2> QED BY <2>3, <2>5, <2>6
<1> HIDE DEF p, s
<1>10. /\ m \in Seq(Timer) /\ Len(m) = n - 1
       /\ \A j \in 1 .. (i - 1) : m[j] = l[j]
       /\ \A j \in i .. (n - 1) : m[j] = New(j + 1)
  <2>1. /\ m \in Seq(Timer) /\ Len(m) = n - 1
        /\ \A j \in 1 .. (n - 1) : m[j] = IF j <= i - 1 THEN p[j] ELSE s[j - (i - 1)]
    <3>1. /\ m \in Seq(Timer) /\ Len(m) = Len(p) + Len(s)
          /\ \A j \in 1 .. (Len(p) + Len(s)) : m[j] = IF j <= Len(p) THEN p[j] ELSE s[j - Len(p)]
      BY <1>8, <1>9, ConcatProperties
    <3>2. Len(p) = i - 1 /\ Len(s) = n - i BY <1>8, <1>9
    <3>3. (i - 1) + (n - i) = n - 1 OBVIOUS
    <3> HIDE DEF m
    <3> QED BY <3>1, <3>2, <3>3
  <2> HIDE DEF m
  <2>2. \A j \in 1 .. (i - 1) : j \in 1 .. (n - 1) /\ j <= i - 1 OBVIOUS
  <2>3. \A j \in i .. (n - 1) : j \in 1 .. (n - 1) /\ ~(j <= i - 1) OBVIOUS
  <2>4. \A j \in 1 .. (i - 1) : m[j] = l[j] BY <1>8, <2>1, <2>2
  <2>5. \A j \in i .. (n - 1) : m[j] = New(j + 1) BY <1>9, <2>1, <2>3
  <2> QED BY <2>1, <2>4, <2>5
<1> HIDE DEF m
<1> DEFINE Sum(j) == IF j <= i - 1 THEN Ahead(l, j) ELSE Ahead(l, j + 1)
           g == [j \in 0 .. (n - 1) |-> Sum(j)]
<1>11. \A j \in 1 .. (n - 1) : Sum(j) = Sum(j - 1) + m[j].time
  <2> SUFFICES ASSUME NEW j \in 1 .. (n - 1) PROVE Sum(j) = Sum(j - 1) + m[j].time
    OBVIOUS
  <2>1. CASE j <= i - 1
    <3>1. j \in 1 .. (i - 1) /\ j \in 1 .. n /\ j - 1 <= i - 1 BY <2>1
    <3>2. m[j].time = l[j].time BY <1>10, <3>1
    <3> QED BY <1>3, <2>1, <3>1, <3>2
  <2>2. CASE j = i
    <3>1. ~(j <= i - 1) /\ j - 1 <= i - 1 /\ j \in i .. (n - 1) BY <2>2
    <3>2. PICK k \in 1 .. n : k = i + 1 BY <2>2
    <3>3. PICK x \in Nat : x = Ahead(l, i - 1) /\ Ahead(l, i) = x + t
      <4>1. i - 1 \in 0 .. n OBVIOUS
      <4> QED BY <1>3, <1>4, <4>1
    <3>4. PICK u \in Nat : u = l[k].time /\ Ahead(l, k) = (x + t) + u
      <4>1. k - 1 = i BY <3>2
      <4> QED BY <1>3, <3>3, <4>1
    <3>5. m[j].time = u + t BY <1>6, <1>10, <2>2, <3>1, <3>2, <3>4
    <3>6. Sum(j) = (x + t) + u /\ Sum(j - 1) = x BY <2>2, <3>1, <3>2, <3>3, <3>4
    <3> HIDE DEF Sum
    <3>7. (x + t) + u = x + (u + t) OBVIOUS
    <3> QED BY <3>5, <3>6, <3>7
  <2>3. CASE j > i
    <3>1. ~(j <= i - 1) /\ ~(j - 1 <= i - 1) /\ j \in i .. (n - 1) BY <2>3
    <3>2. PICK k \in 1 .. n : k = j + 1 /\ k # i + 1 /\ k - 1 = j BY <2>3
    <3>3. m[j].time = l[k].time BY <1>6, <1>10, <3>1, <3>2
    <3>4. (j - 1) + 1 = j OBVIOUS
    <3>5. Sum(j) = Ahead(l, k) /\ Sum(j - 1) = Ahead(l, k - 1) BY <3>1, <3>2, <3>4
    <3> HIDE DEF Sum
    <3> QED BY <1>3, <3>3, <3>5
  <2> QED BY <2>1, <2>2, <2>3
<1>12. \A j \in 0 .. (n - 1) : Ahead(m, j) = Sum(j)
  <2>1. \A j \in 0 .. (n - 1) : g[j] = Sum(j) OBVIOUS
  <2>2. Sum(0) = 0 BY <1>3
  <2> HIDE DEF Sum, g
  <2>3. \A j \in 1 .. (n - 1) : j \in 0 .. (n - 1) /\ j - 1 \in 0 .. (n - 1) OBVIOUS
  <2>4. \A j \in 1 .. (n - 1) : g[j] = g[j - 1] + m[j].time BY <1>11, <2>1, <2>3
  <2>5. 0 \in 0 .. (n - 1) OBVIOUS
  <2>6. g[0] = 0 BY <2>1, <2>2, <2>5
  <2>7. \A j \in 1 .. Len(m) : g[j] = g[j - 1] + m[j].time BY <1>10, <2>4
  <2>8. \A j \in 0 .. Len(m) : Ahead(m, j) = g[j] BY <1>10, <2>6, <2>7, AheadOnly
  <2> QED BY <1>10, <2>1, <2>8
<1>13. /\ \A j \in 0 .. (i - 1) : Ahead(m, j) = Ahead(l, j)
       /\ \A j \in i .. (n - 1) : Ahead(m, j) = Ahead(l, j + 1)
  BY <1>12
<1>14. /\ \A j \in 1 .. (i - 1) : m[j].h = l[j].h
       /\ \A j \in i .. (n - 1) : m[j].h = l[j + 1].h
  <2>1. \A j \in i .. (n - 1) : New(j + 1).h = l[j + 1].h
    <3>1. \A j \in i .. (n - 1) : j + 1 \in 1 .. n OBVIOUS
    <3> QED BY <1>6, <3>1
  <2> QED BY <1>10, <2>1
<1> QED BY <1>1, <1>2, <1>5, <1>10, <1>13, <1>14

----------------------------------------------------------------------------
(* The same operations as the handlers see them. *)

\* The msecs of the timer of h, counted from the moment the list counts from.
Left(l, h) == Ahead(l, Place(l, h))

\* The place and the msecs of every timer of a list.
LEMMA LeftIs ==
    ASSUME NEW l \in Seq(Timer), Once(l), NEW h, InList(l, h)
    PROVE  \E i \in 1 .. Len(l) :
             /\ i = Place(l, h) /\ l[i].h = h /\ h \in Handlers
             /\ l[i].time \in Nat /\ Ahead(l, i - 1) \in Nat
             /\ Left(l, h) = Ahead(l, i) /\ Ahead(l, i) = Ahead(l, i - 1) + l[i].time
             /\ Left(l, h) \in Nat
<1>1. PICK i \in 1 .. Len(l) : i = Place(l, h) /\ l[i].h = h
  BY PlaceIs
<1>2. i - 1 \in 0 .. Len(l) /\ i \in 0 .. Len(l) OBVIOUS
<1>3. /\ l[i].h \in Handlers /\ l[i].time \in Nat
      /\ Ahead(l, i - 1) \in Nat /\ Ahead(l, i) \in Nat /\ Ahead(l, i) = Ahead(l, i - 1) + l[i].time
  BY <1>2, AheadIs
<1> QED BY <1>1, <1>3 DEF Left

\* sys_timeout for a handler without a timer gives it ms and changes the msecs
\* of no other timer.
LEMMA InsertLeft ==
    ASSUME NEW l \in Seq(Timer), Once(l), NEW h \in Handlers, ~InList(l, h), NEW ms \in Nat
    PROVE  \E m \in Seq(Timer) :
             /\ m = Insert(l, h, ms) /\ Len(m) = Len(l) + 1 /\ Once(m)
             /\ \A g : InList(m, g) <=> (g = h \/ InList(l, g))
             /\ Left(m, h) = ms /\ Place(m, h) = Before(l, ms) + 1
             /\ \A g : InList(l, g) => 
                  /\ Left(m, g) = Left(l, g)
                  /\ Place(m, g) = IF Place(l, g) <= Before(l, ms) THEN Place(l, g) ELSE Place(l, g) + 1
<1>1. PICK m \in Seq(Timer), k \in 0 .. Len(l) :
         /\ m = Insert(l, h, ms) /\ k = Before(l, ms) /\ Len(m) = Len(l) + 1
         /\ \A j \in 1 .. k : m[j].h = l[j].h
         /\ m[k + 1].h = h
         /\ \A j \in (k + 1) .. Len(l) : m[j + 1].h = l[j].h
         /\ \A j \in 0 .. k : Ahead(m, j) = Ahead(l, j) /\ Ahead(l, j) <= ms
         /\ Ahead(m, k + 1) = ms
         /\ \A j \in (k + 1) .. Len(l) : Ahead(m, j + 1) = Ahead(l, j) /\ ms < Ahead(l, j)
  BY InsertIs
<1>2. PICK n \in Nat : n = Len(l)
  BY AheadIs
<1> DEFINE At(i) == IF i <= k THEN i ELSE i + 1
<1>3. \A i \in 1 .. n : At(i) \in 1 .. (n + 1) /\ m[At(i)].h = l[i].h /\ Ahead(m, At(i)) = Ahead(l, i)
  BY <1>1, <1>2
<1>4. \A j \in 1 .. (n + 1) : j # k + 1 => \E i \in 1 .. n : j = At(i)
  <2> SUFFICES ASSUME NEW j \in 1 .. (n + 1), j # k + 1 PROVE \E i \in 1 .. n : j = At(i)
    OBVIOUS
  <2>1. CASE j <= k
    <3>1. j \in 1 .. n /\ j = At(j) BY <1>2, <2>1
    <3> QED BY <3>1
  <2>2. CASE ~(j <= k)
    <3>1. j - 1 \in 1 .. n /\ ~(j - 1 <= k) /\ (j - 1) + 1 = j BY <1>2, <2>2
    <3> QED BY <3>1
  <2> QED BY <2>1, <2>2
<1>5. \A i \in 1 .. n : l[i].h # h
  BY <1>2 DEF InList
<1>6. k + 1 \in 1 .. (n + 1)
  BY <1>2
<1>7. Once(m)
  <2> SUFFICES ASSUME NEW a \in 1 .. (n + 1), NEW b \in 1 .. (n + 1), m[a].h = m[b].h PROVE a = b
    BY <1>1, <1>2 DEF Once
  <2>1. CASE a = k + 1 /\ b = k + 1
    BY <2>1
  <2>0. ASSUME NEW j \in 1 .. (n + 1), j # k + 1 PROVE m[j].h # h
    <3>1. PICK i \in 1 .. n : j = At(i) BY <1>4, <2>0
    <3>2. m[j].h = l[i].h BY <1>3, <3>1
    <3> QED BY <1>5, <3>2
  <2>2. CASE a = k + 1 /\ b # k + 1
    BY <1>1, <2>0, <2>2
  <2>3. CASE a # k + 1 /\ b = k + 1
    BY <1>1, <2>0, <2>3
  <2>4. CASE a # k + 1 /\ b # k + 1
    <3>1. PICK i \in 1 .. n, j \in 1 .. n : a = At(i) /\ b = At(j)
      BY <1>4, <2>4
    <3>2. l[i].h = l[j].h BY <1>3, <3>1
    <3>3. i = j BY <1>2, <3>2 DEF Once
    <3> QED BY <3>1, <3>3
  <2> QED BY <2>1, <2>2, <2>3, <2>4
<1>8. Left(m, h) = ms /\ Place(m, h) = k + 1 /\ InList(m, h)
  <2>1. k + 1 \in 1 .. Len(m) /\ m[k + 1].h = h BY <1>1, <1>2, <1>6
  <2>2. Place(m, h) = k + 1 /\ InList(m, h) BY <1>7, <2>1, PlaceOfItsHandler
  <2> QED BY <1>1, <2>2 DEF Left
<1>9. ASSUME NEW g, InList(l, g)
      PROVE  InList(m, g) /\ Left(m, g) = Left(l, g) /\ Place(m, g) = At(Place(l, g))
  <2>1. PICK i \in 1 .. n : i = Place(l, g) /\ l[i].h = g
    BY <1>2, <1>9, PlaceIs
  <2>2. At(i) \in 1 .. Len(m) /\ m[At(i)].h = g /\ Ahead(m, At(i)) = Ahead(l, i)
    BY <1>1, <1>2, <1>3, <2>1
  <2> HIDE DEF At
  <2>3. Place(m, g) = At(i) /\ InList(m, g) BY <1>7, <2>2, PlaceOfItsHandler
  <2> QED BY <2>1, <2>2, <2>3 DEF Left
<1>10. ASSUME NEW g, InList(m, g) PROVE g = h \/ InList(l, g)
  <2>1. PICK j \in 1 .. (n + 1) : m[j].h = g BY <1>1, <1>2, <1>10 DEF InList
  <2>2. CASE j = k + 1 BY <1>1, <2>1, <2>2
  <2>3. CASE j # k + 1
    <3>1. PICK i \in 1 .. n : j = At(i) BY <1>4, <2>3
    <3>2. l[i].h = g BY <1>3, <2>1, <3>1
    <3> QED BY <1>2, <3>2 DEF InList
  <2> QED BY <2>2, <2>3
<1> QED BY <1>1, <1>7, <1>8, <1>9, <1>10

\* sys_untimeout takes the timer of h and changes the msecs of no other.
LEMMA RemoveLeft ==
    ASSUME NEW l \in Seq(Timer), Once(l), NEW h, InList(l, h)
    PROVE  \E m \in Seq(Timer) :
             /\ m = Remove(l, h) /\ Len(m) = Len(l) - 1 /\ Once(m)
             /\ \A g : InList(m, g) <=> (g # h /\ InList(l, g))
             /\ \A g : InList(m, g) => Left(m, g) = Left(l, g)
<1>1. PICK m \in Seq(Timer), k \in 1 .. Len(l) :
         /\ m = Remove(l, h) /\ k = Place(l, h) /\ Len(m) = Len(l) - 1
         /\ \A j \in 1 .. (k - 1) : m[j].h = l[j].h
         /\ \A j \in k .. (Len(l) - 1) : m[j].h = l[j + 1].h
         /\ \A j \in 0 .. (k - 1) : Ahead(m, j) = Ahead(l, j)
         /\ \A j \in k .. (Len(l) - 1) : Ahead(m, j) = Ahead(l, j + 1)
  BY RemoveIs
<1>2. PICK n \in Nat : n = Len(l)
  BY AheadIs
<1>3. l[k].h = h
  BY <1>1, PlaceIs
<1> DEFINE From(j) == IF j <= k - 1 THEN j ELSE j + 1
<1>4. \A j \in 1 .. (n - 1) : /\ From(j) \in 1 .. n /\ From(j) # k
                              /\ m[j].h = l[From(j)].h /\ Ahead(m, j) = Ahead(l, From(j))
  BY <1>1, <1>2
<1>5. \A i \in 1 .. n : i # k => \E j \in 1 .. (n - 1) : i = From(j)
  <2> SUFFICES ASSUME NEW i \in 1 .. n, i # k PROVE \E j \in 1 .. (n - 1) : i = From(j)
    OBVIOUS
  <2>1. CASE i <= k - 1
    <3>1. i \in 1 .. (n - 1) /\ i = From(i) BY <1>2, <2>1
    <3> QED BY <3>1
  <2>2. CASE ~(i <= k - 1)
    <3>1. i - 1 \in 1 .. (n - 1) /\ ~(i - 1 <= k - 1) /\ (i - 1) + 1 = i BY <1>2, <2>2
    <3> QED BY <3>1
  <2> QED BY <2>1, <2>2
<1>6. Once(m)
  <2> SUFFICES ASSUME NEW a \in 1 .. (n - 1), NEW b \in 1 .. (n - 1), m[a].h = m[b].h PROVE a = b
    BY <1>1, <1>2 DEF Once
  <2>1. l[From(a)].h = l[From(b)].h /\ From(a) \in 1 .. n /\ From(b) \in 1 .. n BY <1>4
  <2>2. From(a) = From(b)
    <3> HIDE DEF From
    <3> QED BY <1>2, <2>1 DEF Once
  <2> QED BY <1>1, <1>2, <2>2
<1>7. ASSUME NEW g, InList(m, g)
      PROVE  g # h /\ InList(l, g) /\ Left(m, g) = Left(l, g)
  <2>1. PICK j \in 1 .. (n - 1) : j = Place(m, g) /\ m[j].h = g
    BY <1>1, <1>2, <1>7, PlaceIs
  <2>2. From(j) \in 1 .. Len(l) /\ From(j) # k /\ l[From(j)].h = g /\ Ahead(m, j) = Ahead(l, From(j))
    BY <1>2, <1>4, <2>1
  <2> HIDE DEF From
  <2>3. Place(l, g) = From(j) /\ InList(l, g) BY <2>2, PlaceOfItsHandler
  <2>4. g # h BY <1>1, <2>2, <2>3
  <2> QED BY <2>1, <2>2, <2>3, <2>4 DEF Left
<1>8. ASSUME NEW g, g # h, InList(l, g) PROVE InList(m, g)
  <2>1. PICK i \in 1 .. n : l[i].h = g BY <1>2, <1>8 DEF InList
  <2>2. i # k BY <1>3, <1>8, <2>1
  <2>3. PICK j \in 1 .. (n - 1) : i = From(j) BY <1>5, <2>2
  <2>4. m[j].h = g BY <1>4, <2>1, <2>3
  <2> QED BY <1>1, <1>2, <2>4 DEF InList
<1> QED BY <1>1, <1>6, <1>7, <1>8

\* The expiry of the timer at place i takes its msecs from those behind it.
LEMMA DropLeft ==
    ASSUME NEW l \in Seq(Timer), Once(l), NEW i \in 0 .. Len(l)
    PROVE  \E m \in Seq(Timer) :
             /\ m = SubSeq(l, i + 1, Len(l)) /\ Len(m) = Len(l) - i /\ Once(m)
             /\ \A g : InList(m, g) <=> (InList(l, g) /\ Place(l, g) > i)
             /\ \A g : InList(m, g) => Left(m, g) = Left(l, g) - Ahead(l, i)
<1>1. PICK m \in Seq(Timer) :
         /\ m = SubSeq(l, i + 1, Len(l)) /\ Len(m) = Len(l) - i
         /\ \A j \in 1 .. (Len(l) - i) : m[j] = l[i + j]
         /\ \A j \in 0 .. (Len(l) - i) : Ahead(m, j) = Ahead(l, i + j) - Ahead(l, i)
  BY DropIs
<1>2. PICK n \in Nat : n = Len(l)
  BY AheadIs
<1>3. \A j \in 1 .. (n - i) : i + j \in 1 .. n /\ i + j > i
  BY <1>2
<1>4. Once(m)
  <2> SUFFICES ASSUME NEW a \in 1 .. (n - i), NEW b \in 1 .. (n - i), m[a].h = m[b].h PROVE a = b
    BY <1>1, <1>2 DEF Once
  <2>1. l[i + a].h = l[i + b].h /\ i + a \in 1 .. n /\ i + b \in 1 .. n BY <1>1, <1>2, <1>3
  <2>2. i + a = i + b BY <1>2, <2>1 DEF Once
  <2> QED BY <2>2
<1>5. ASSUME NEW g, InList(m, g)
      PROVE  InList(l, g) /\ Place(l, g) > i /\ Left(m, g) = Left(l, g) - Ahead(l, i)
  <2>1. PICK j \in 1 .. (n - i) : j = Place(m, g) /\ m[j].h = g
    <3>1. Place(m, g) \in 1 .. Len(m) /\ m[Place(m, g)].h = g BY <1>5, PlaceIs
    <3>2. Len(m) = n - i BY <1>1, <1>2
    <3> QED BY <3>1, <3>2
  <2>2. /\ i + j \in 1 .. Len(l) /\ l[i + j].h = g /\ i + j > i
        /\ Ahead(m, j) = Ahead(l, i + j) - Ahead(l, i)
    BY <1>1, <1>2, <1>3, <2>1
  <2>3. Place(l, g) = i + j /\ InList(l, g) BY <2>2, PlaceOfItsHandler
  <2> QED BY <2>1, <2>2, <2>3 DEF Left
<1>6. ASSUME NEW g, InList(l, g), Place(l, g) > i PROVE InList(m, g)
  <2>1. PICK j \in 1 .. n : j = Place(l, g) /\ l[j].h = g BY <1>2, <1>6, PlaceIs
  <2>2. j - i \in 1 .. (n - i) /\ i + (j - i) = j BY <1>2, <1>6, <2>1
  <2>3. m[j - i].h = g BY <1>1, <1>2, <2>1, <2>2
  <2> QED BY <1>1, <1>2, <2>2, <2>3 DEF InList
<1> QED BY <1>1, <1>4, <1>5, <1>6

\* An insertion makes no difference of the list greater, and changes none
\* before the new timer.
LEMMA InsertTime ==
    ASSUME NEW l \in Seq(Timer), Once(l), NEW h \in Handlers, ~InList(l, h), NEW ms \in Nat,
           NEW g, InList(l, g)
    PROVE  LET m == Insert(l, h, ms)
           IN  /\ m[Place(m, g)].time \in Nat /\ l[Place(l, g)].time \in Nat
               /\ m[Place(m, g)].time <= l[Place(l, g)].time
               /\ Place(l, g) <= Before(l, ms) => m[Place(m, g)].time = l[Place(l, g)].time
<1>1. PICK m \in Seq(Timer), k \in 0 .. Len(l) :
         /\ m = Insert(l, h, ms) /\ k = Before(l, ms) /\ Len(m) = Len(l) + 1
         /\ \A j \in 1 .. k : m[j].h = l[j].h
         /\ m[k + 1].h = h
         /\ \A j \in (k + 1) .. Len(l) : m[j + 1].h = l[j].h
         /\ \A j \in 0 .. k : Ahead(m, j) = Ahead(l, j) /\ Ahead(l, j) <= ms
         /\ Ahead(m, k + 1) = ms
         /\ \A j \in (k + 1) .. Len(l) : Ahead(m, j + 1) = Ahead(l, j) /\ ms < Ahead(l, j)
  BY InsertIs
<1>2. Once(m) /\ InList(m, g) /\ Place(m, g) = IF Place(l, g) <= k THEN Place(l, g) ELSE Place(l, g) + 1
  BY <1>1, InsertLeft
<1>3. PICK i \in 1 .. Len(l), t \in Nat, a \in Nat :
         /\ i = Place(l, g) /\ t = l[i].time /\ a = Ahead(l, i - 1) /\ Ahead(l, i) = a + t
  BY LeftIs
<1>4. PICK j \in 1 .. Len(m), u \in Nat, b \in Nat :
         /\ j = Place(m, g) /\ u = m[j].time /\ b = Ahead(m, j - 1) /\ Ahead(m, j) = b + u
  BY <1>2, LeftIs
<1>5. PICK n \in Nat : n = Len(l)
  BY AheadIs
<1>6. CASE i <= k
  <2>1. j = i /\ i \in 0 .. k /\ i - 1 \in 0 .. k BY <1>2, <1>3, <1>4, <1>6
  <2>2. a = b /\ b + u = a + t BY <1>1, <1>3, <1>4, <2>1
  <2>3. u = t BY <2>2
  <2> QED BY <1>1, <1>3, <1>4, <2>3
<1>7. CASE ~(i <= k)
  <2>1. j = i + 1 /\ j - 1 = i /\ i \in (k + 1) .. n BY <1>2, <1>3, <1>4, <1>5, <1>7
  <2>2. b + u = a + t BY <1>1, <1>3, <1>4, <1>5, <2>1
  <2>3. a <= b
    <3>1. CASE i = k + 1
      <4>1. i - 1 = k /\ k \in 0 .. k BY <3>1
      <4>2. a <= ms /\ b = ms BY <1>1, <1>3, <1>4, <2>1, <3>1, <4>1
      <4> QED BY <4>2
    <3>2. CASE i # k + 1
      <4>1. i - 1 \in (k + 1) .. n /\ (i - 1) + 1 = i BY <2>1, <3>2
      <4>2. b = a BY <1>1, <1>3, <1>4, <1>5, <2>1, <4>1
      <4> QED BY <4>2
    <3> QED BY <3>1, <3>2
  <2>4. u <= t BY <2>2, <2>3
  <2> QED BY <1>1, <1>3, <1>4, <1>7, <2>4
<1> QED BY <1>6, <1>7

----------------------------------------------------------------------------
(* The invariant. *)

\* The structures in use never outnumber the pool.  One may be lost: the timer
\* that TcpOpen puts before the one being unlinked.
Stocked == free + Len(list) <= PoolSize

\* The TCP timer is armed or running only if tcpip_tcp_timer_active says so.
TcpKnown == InList(list, TcpTimer) \/ tmp = TcpTimer => tcpActive

\* A timer is unlinked while it is in the list and has expired, and is called
\* when it is in the list no more; outside sys_check_timeouts there is no diff.
Expiring ==
    /\ pc \in {"unlink", "call"} <=> tmp # NoHandler
    /\ pc = "unlink" => InList(list, tmp) /\ list[Place(list, tmp)].time <= diff
    /\ pc = "call" => ~InList(list, tmp)
    /\ pc = "idle" => diff = 0

\* The type invariant of what the steps of the timers change.
Typed ==
    /\ list \in Seq(Timer)
    /\ free \in 0 .. PoolSize
    /\ clock \in Time /\ last \in Time /\ now \in Time /\ diff \in Time
    /\ pc \in {"idle", "loop", "unlink", "call"}
    /\ tmp \in Handlers \cup {NoHandler}
    /\ tcpUp \in BOOLEAN /\ tcpActive \in BOOLEAN

Inv == Typed /\ Once(list) /\ Stocked /\ TcpKnown /\ Expiring
LEMMA SizesAre ==
    /\ TimeMod \in Nat \ {0, 1} /\ MaxLag \in Nat \ {0} /\ MaxLag < TimeMod /\ PoolSize \in Nat
    /\ \A h \in Handlers : Msecs[h] \in Nat \ {0} /\ Msecs[h] + MaxLag < TimeMod
    /\ NoHandler \notin Handlers /\ TcpTimer \in Handlers
<1>1. Msecs \in [Handlers -> Nat \ {0}]
  BY MsecsAssumption DEF Handlers
<1>2. /\ TimeMod \in Nat /\ MaxLag \in Nat \ {0} /\ PoolSize \in Nat
      /\ \A h \in Handlers : Msecs[h] + MaxLag < TimeMod
  BY <1>1, BoundAssumption
<1>3. NoHandler \notin Handlers /\ TcpTimer \in Handlers
  BY HandlerAssumption DEF NoHandler, TcpTimer, Handlers
<1>4. \A h \in Handlers : Msecs[h] \in Nat \ {0}
  BY <1>1
<1>5. PICK h \in Handlers : h = TcpTimer
  BY <1>3
<1>6. PICK ms \in Nat \ {0} : ms = Msecs[h] /\ ms + MaxLag < TimeMod
  BY <1>2, <1>4
<1>7. TimeMod # 0 /\ TimeMod # 1 /\ MaxLag < TimeMod
  BY <1>2, <1>6
<1> QED BY <1>2, <1>3, <1>4, <1>7

\* sys_timeout for a handler that has no timer.
LEMMA ArmIs ==
    ASSUME list \in Seq(Timer), Once(list), Stocked, free \in 0 .. PoolSize,
           NEW h \in Handlers, ~InList(list, h), Arm(h)
    PROVE  /\ list' \in Seq(Timer) /\ Once(list)' /\ Stocked' /\ free' \in 0 .. PoolSize
           /\ \A g : InList(list, g)' <=> (InList(list, g) \/ (g = h /\ free # 0))
           /\ \A g : InList(list, g) => /\ list'[Place(list, g)'].time \in Nat
                                        /\ list[Place(list, g)].time \in Nat
                                        /\ list'[Place(list, g)'].time <= list[Place(list, g)].time
<1>1. Msecs[h] \in Nat /\ PoolSize \in Nat
  BY SizesAre
<1>2. CASE free = 0
  <2>1. list' = list /\ free' = free BY <1>2 DEF Arm
  <2>2. \A g : InList(list, g) => list[Place(list, g)].time \in Nat BY LeftIs
  <2>3. Once(list)' /\ Stocked' BY <2>1 DEF Once, Stocked
  <2>4. \A g : (InList(list, g)' <=> InList(list, g)) /\ Place(list, g)' = Place(list, g)
    BY <2>1 DEF InList, Place
  <2>5. ASSUME NEW g, InList(list, g)
        PROVE  list'[Place(list, g)'].time = list[Place(list, g)].time /\ list[Place(list, g)].time \in Nat
    BY <2>1, <2>2, <2>4, <2>5
  <2> QED BY <1>2, <2>1, <2>3, <2>4, <2>5
<1>3. CASE free # 0
  <2>1. list' = Insert(list, h, Msecs[h]) /\ free' = free - 1 BY <1>3 DEF Arm
  <2>2. PICK m \in Seq(Timer) :
          /\ m = Insert(list, h, Msecs[h]) /\ Len(m) = Len(list) + 1 /\ Once(m)
          /\ \A g : InList(m, g) <=> (g = h \/ InList(list, g))
    <3>1. PICK m \in Seq(Timer) :
             /\ m = Insert(list, h, Msecs[h]) /\ Len(m) = Len(list) + 1 /\ Once(m)
             /\ \A g : InList(m, g) <=> (g = h \/ InList(list, g))
             /\ Left(m, h) = Msecs[h] /\ Place(m, h) = Before(list, Msecs[h]) + 1
             /\ \A g : InList(list, g) => 
                  /\ Left(m, g) = Left(list, g)
                  /\ Place(m, g) = IF Place(list, g) <= Before(list, Msecs[h]) THEN Place(list, g) ELSE Place(list, g) + 1
      BY <1>1, InsertLeft
    <3> QED BY <3>1
  <2>3. list' = m BY <2>1, <2>2
  <2>4. /\ list' \in Seq(Timer) /\ Once(list)'
        /\ \A g : InList(list, g)' <=> (InList(list, g) \/ (g = h /\ free # 0))
    <3>1. Once(list)' BY <2>2, <2>3 DEF Once
    <3>2. \A g : InList(list, g)' <=> InList(m, g) BY <2>3 DEF InList
    <3> QED BY <1>3, <2>2, <2>3, <3>1, <3>2
  <2>5. ASSUME NEW g, InList(list, g)
        PROVE  /\ m[Place(m, g)].time \in Nat /\ list[Place(list, g)].time \in Nat
               /\ m[Place(m, g)].time <= list[Place(list, g)].time
    BY <1>1, <2>2, <2>5, InsertTime
  <2>6. free' \in 0 .. PoolSize /\ Stocked'
    <3>1. PICK n \in Nat : n = Len(list) BY AheadIs
    <3>2. free' = free - 1 /\ Len(list)' = n + 1 BY <2>1, <2>2, <2>3, <3>1
    <3>3. free + n <= PoolSize BY <3>1 DEF Stocked
    <3>4. free - 1 \in 0 .. PoolSize /\ (free - 1) + (n + 1) <= PoolSize BY <1>1, <1>3, <3>3
    <3> QED BY <3>2, <3>4 DEF Stocked
  <2>7. \A g : Place(list, g)' = Place(m, g) BY <2>3 DEF Place
  <2> QED BY <2>3, <2>4, <2>5, <2>6, <2>7
<1> QED BY <1>2, <1>3

----------------------------------------------------------------------------
(* lwip_init arms the periodic timers one after the other. *)

Arms(s, order, n) ==
    s = [i \in 0 .. n |-> IF i = 0 THEN <<>> ELSE Insert(s[i - 1], order[i], Msecs[order[i]])]

LEMMA ArmsExist ==
    ASSUME NEW n \in Nat, NEW order
    PROVE  \E s : Arms(s, order, n)
<1> DEFINE T == {m \in Nat : ~ \E s : Arms(s, order, m)}
<1>2. SUFFICES ASSUME T # {} PROVE FALSE
  OBVIOUS
<1>3. PICK m \in T : \A k \in T : m <= k
  BY <1>2, LeastNumber
<1>4. CASE m = 0
  <2>1. Arms([i \in 0 .. 0 |-> <<>>], order, 0)
    BY DEF Arms
  <2> QED BY <1>4, <2>1
<1>5. CASE m # 0
  <2>1. m - 1 \in Nat /\ m - 1 \notin T
    BY <1>3, <1>5
  <2>2. PICK s : Arms(s, order, m - 1)
    BY <2>1
  <2> DEFINE Arming(l, i) == Insert(l, order[i], Msecs[order[i]])
             t == [i \in 0 .. m |-> IF i = m THEN Arming(s[m - 1], m) ELSE s[i]]
  <2>3. \A i \in 0 .. (m - 1) : s[i] = IF i = 0 THEN <<>> ELSE Arming(s[i - 1], i)
    BY <2>2 DEF Arms
  <2> HIDE DEF Arming
  <2>4. \A i \in 0 .. m : t[i] = IF i = 0 THEN <<>> ELSE Arming(t[i - 1], i)
    BY <1>5, <2>1, <2>3
  <2>5. t = [i \in 0 .. m |-> IF i = 0 THEN <<>> ELSE Arming(t[i - 1], i)]
    <3>1. t = [i \in 0 .. m |-> t[i]]
      OBVIOUS
    <3> HIDE DEF t
    <3> QED BY <2>4, <3>1
  <2>6. Arms(t, order, m)
    BY <2>5 DEF Arms, Arming
  <2> QED BY <2>6
<1> QED BY <1>3, <1>4, <1>5

\* Handlers armed in any order all wait for their msecs.
LEMMA ArmsAre ==
    ASSUME NEW n \in Nat, NEW order \in [1 .. n -> Handlers],
           \A i, j \in 1 .. n : order[i] = order[j] => i = j,
           NEW s, Arms(s, order, n)
    PROVE  /\ s[n] \in Seq(Timer) /\ Once(s[n]) /\ Len(s[n]) = n
           /\ \A g : InList(s[n], g) <=> \E i \in 1 .. n : order[i] = g
           /\ \A g : InList(s[n], g) => Left(s[n], g) = Msecs[g]
<1> DEFINE Good(k) == /\ s[k] \in Seq(Timer) /\ Once(s[k]) /\ Len(s[k]) = k
                      /\ \A g : InList(s[k], g) <=> \E i \in 1 .. k : order[i] = g
                      /\ \A g : InList(s[k], g) => Left(s[k], g) = Msecs[g]
           T == {k \in Nat : k <= n /\ ~Good(k)}
<1>1. s[0] = <<>> /\ \A i \in 1 .. n : s[i] = Insert(s[i - 1], order[i], Msecs[order[i]])
  <2>1. \A i \in 0 .. n : s[i] = IF i = 0 THEN <<>> ELSE Insert(s[i - 1], order[i], Msecs[order[i]])
    BY DEF Arms
  <2> QED BY <2>1
<1>2. Good(0)
  <2>1. s[0] \in Seq(Timer) /\ Len(s[0]) = 0 BY <1>1
  <2>2. Once(s[0]) /\ \A g : ~InList(s[0], g) BY <2>1 DEF Once, InList
  <2> QED BY <2>1, <2>2
<1>3. T = {}
  <2> SUFFICES ASSUME T # {} PROVE FALSE
    OBVIOUS
  <2>1. PICK k \in T : \A j \in T : k <= j
    <3> HIDE DEF Good
    <3>1. T \subseteq Nat OBVIOUS
    <3> QED BY <3>1, LeastNumber
  <2>2. k \in Nat /\ k <= n /\ ~Good(k) BY <2>1
  <2>3. k - 1 \in Nat /\ k - 1 <= n /\ Good(k - 1) /\ k \in 1 .. n
    <3> HIDE DEF Good
    <3>1. k # 0 BY <1>2, <2>2
    <3>2. k - 1 \in Nat /\ k - 1 <= n /\ ~(k <= k - 1) BY <2>2, <3>1
    <3>3. k - 1 \notin T BY <2>1, <3>2
    <3> QED BY <2>2, <3>1, <3>2, <3>3
  <2> DEFINE l == s[k - 1]
             h == order[k]
             ms == Msecs[h]
  <2>4. h \in Handlers /\ ms \in Nat
    <3>1. h \in Handlers BY <2>3
    <3> QED BY <3>1, SizesAre
  <2>5. ~InList(l, h)
    <3>1. \A i \in 1 .. (k - 1) : i \in 1 .. n /\ i # k BY <2>3
    <3>2. \A i \in 1 .. (k - 1) : order[i] # h BY <2>3, <3>1
    <3> QED BY <2>3, <3>2
  <2>6. l \in Seq(Timer) /\ Once(l) /\ Len(l) = k - 1 BY <2>3
  <2>7. s[k] = Insert(l, h, ms) BY <1>1, <2>3
  <2>8. /\ \A g : InList(l, g) <=> \E i \in 1 .. (k - 1) : order[i] = g
        /\ \A g : InList(l, g) => Left(l, g) = Msecs[g]
    BY <2>3
  <2> HIDE DEF l, h, ms, T, Good
  <2>9. PICK m \in Seq(Timer) :
           /\ m = Insert(l, h, ms) /\ Len(m) = Len(l) + 1 /\ Once(m)
           /\ \A g : InList(m, g) <=> (g = h \/ InList(l, g))
           /\ Left(m, h) = ms /\ Place(m, h) = Before(l, ms) + 1
           /\ \A g : InList(l, g) => 
                /\ Left(m, g) = Left(l, g)
                /\ Place(m, g) = IF Place(l, g) <= Before(l, ms) THEN Place(l, g) ELSE Place(l, g) + 1
    BY <2>4, <2>5, <2>6, InsertLeft
  <2>10. s[k] \in Seq(Timer) /\ Once(s[k]) /\ Len(s[k]) = k
    BY <2>2, <2>6, <2>7, <2>9
  <2>11. ASSUME NEW g PROVE InList(s[k], g) <=> \E i \in 1 .. k : order[i] = g
    <3>1. InList(s[k], g) <=> (g = h \/ InList(l, g)) BY <2>7, <2>9
    <3>2. InList(l, g) <=> \E i \in 1 .. (k - 1) : order[i] = g BY <2>8
    <3>3. (\E i \in 1 .. k : order[i] = g) <=> (order[k] = g \/ \E i \in 1 .. (k - 1) : order[i] = g)
      <4>1. 1 .. k = (1 .. (k - 1)) \cup {k} BY <2>3
      <4> QED BY <4>1
    <3> QED BY <3>1, <3>2, <3>3 DEF h
  <2>12. ASSUME NEW g, InList(s[k], g) PROVE Left(s[k], g) = Msecs[g]
    <3>1. g = h \/ InList(l, g) BY <2>7, <2>9, <2>12
    <3>2. g = h => Left(s[k], g) = Msecs[g] BY <2>7, <2>9 DEF ms
    <3>3. InList(l, g) => Left(s[k], g) = Msecs[g] BY <2>7, <2>8, <2>9
    <3> QED BY <3>1, <3>2, <3>3
  <2> QED BY <2>2, <2>10, <2>11, <2>12 DEF Good
<1>4. Good(n)
  <2> HIDE DEF Good
  <2> QED BY <1>3
<1> QED BY <1>4

\* After lwip_init every periodic handler waits for its msecs.
LEMMA InitIs ==
    ASSUME Init
    PROVE  /\ list \in Seq(Timer) /\ Once(list) /\ Len(list) = Cardinality(Periodic)
           /\ Cardinality(Periodic) \in Nat /\ free = PoolSize - Cardinality(Periodic)
           /\ \A g : InList(list, g) => g \in Periodic /\ Left(list, g) = Msecs[g]
<1> DEFINE n == Cardinality(Periodic)
<1>1. n \in Nat
  BY BoundAssumption, FS_CardinalityType
<1>2. PICK order \in [1 .. n -> Periodic] :
         /\ \A i, j \in DOMAIN order : order[i] = order[j] => i = j
         /\ LET armed[i \in 0 .. n] ==
                  IF i = 0 THEN <<>> ELSE Insert(armed[i - 1], order[i], Msecs[order[i]])
            IN  list = armed[n]
  BY DEF Init
<1>3. free = PoolSize - n
  BY DEF Init
<1> DEFINE armed == CHOOSE s : s = [i \in 0 .. n |-> IF i = 0 THEN <<>> ELSE Insert(s[i - 1], order[i], Msecs[order[i]])]
<1> HIDE DEF n
<1>4. list = armed[n]
  BY <1>2
<1>5. Arms(armed, order, n)
  <2>1. \E s : Arms(s, order, n) BY <1>1, ArmsExist
  <2> QED BY <2>1 DEF Arms
<1> HIDE DEF armed
<1>6. order \in [1 .. n -> Handlers] /\ \A i, j \in 1 .. n : order[i] = order[j] => i = j
  BY <1>2 DEF Handlers
<1>7. /\ list \in Seq(Timer) /\ Once(list) /\ Len(list) = n
      /\ \A g : InList(list, g) <=> \E i \in 1 .. n : order[i] = g
      /\ \A g : InList(list, g) => Left(list, g) = Msecs[g]
  <2> DEFINE l == armed[n]
  <2>1. /\ armed[n] \in Seq(Timer) /\ Once(armed[n]) /\ Len(armed[n]) = n
        /\ \A g : InList(armed[n], g) <=> \E i \in 1 .. n : order[i] = g
        /\ \A g : InList(armed[n], g) => Left(armed[n], g) = Msecs[g]
    BY <1>1, <1>5, <1>6, ArmsAre
  <2>2. /\ l \in Seq(Timer) /\ Once(l) /\ Len(l) = n
        /\ \A g : InList(l, g) <=> \E i \in 1 .. n : order[i] = g
        /\ \A g : InList(l, g) => Left(l, g) = Msecs[g]
    BY <2>1
  <2>3. list = l BY <1>4
  <2> HIDE DEF l
  <2> QED BY <2>2, <2>3
<1>8. \A i \in 1 .. n : order[i] \in Periodic
  BY <1>2
<1> QED BY <1>1, <1>3, <1>7, <1>8 DEF n

----------------------------------------------------------------------------
(* The invariant holds. *)

LEMMA FirstIs ==
    ASSUME NEW l \in Seq(Timer), l # <<>>
    PROVE  /\ 1 \in 1 .. Len(l) /\ Head(l) = l[1] /\ Len(l) \in Nat \ {0}
           /\ l[1].h \in Handlers /\ l[1].time \in Nat /\ Ahead(l, 1) = l[1].time
<1>1. 1 \in 1 .. Len(l) /\ Head(l) = l[1] /\ Len(l) \in Nat \ {0}
  OBVIOUS
<1>2. /\ l[1].h \in Handlers /\ l[1].time \in Nat /\ Ahead(l, 0) = 0
      /\ Ahead(l, 1) = Ahead(l, 0) + l[1].time
  <2>1. Ahead(l, 1) = Ahead(l, 1 - 1) + l[1].time BY <1>1, AheadIs
  <2>2. 1 - 1 = 0 OBVIOUS
  <2> QED BY <1>1, <2>1, <2>2, AheadIs
<1>3. Ahead(l, 1) = l[1].time BY <1>2
<1> QED BY <1>1, <1>2, <1>3

LEMMA RoundIs ==
    ASSUME NEW n \in Nat
    PROVE  n % TimeMod \in Time
BY SizesAre DEF Time

LEMMA InvInit == Init => Inv
<1> SUFFICES ASSUME Init PROVE Inv
  OBVIOUS
<1>1. PICK n \in Nat : n = Cardinality(Periodic) /\ n <= PoolSize /\ free = PoolSize - n /\ Len(list) = n
  BY InitIs, BoundAssumption
<1>2. PoolSize \in Nat
  BY SizesAre
<1>3. free \in 0 .. PoolSize /\ free + Len(list) <= PoolSize
  <2>1. PoolSize - n \in 0 .. PoolSize /\ (PoolSize - n) + n <= PoolSize BY <1>1, <1>2
  <2> QED BY <1>1, <2>1
<1>4. 0 \in Time /\ clock = 0 /\ last = 0 /\ now = 0 /\ diff = 0
  BY SizesAre DEF Init, Time
<1>5. pc = "idle" /\ tmp = NoHandler /\ tcpUp = FALSE /\ tcpActive = FALSE
  BY DEF Init
<1>6. Typed
  BY <1>3, <1>4, <1>5, InitIs DEF Typed, Timer
<1>7. TcpKnown
  <2>1. ~InList(list, TcpTimer) BY InitIs, HandlerAssumption
  <2>2. tmp # TcpTimer BY <1>5, SizesAre
  <2> QED BY <2>1, <2>2 DEF TcpKnown
<1>8. Expiring
  BY <1>4, <1>5 DEF Expiring
<1> QED BY <1>3, <1>6, <1>7, <1>8, InitIs DEF Inv, Stocked

\* The main loop's own steps.
LEMMA CheckInv ==
    ASSUME Inv, Check
    PROVE  Inv'
<1>1. /\ list \in Seq(Timer) /\ free \in 0 .. PoolSize
      /\ clock \in Time /\ last \in Time /\ now \in Time /\ diff \in Time
      /\ pc \in {"idle", "loop", "unlink", "call"} /\ tmp \in Handlers \cup {NoHandler}
      /\ tcpUp \in BOOLEAN /\ tcpActive \in BOOLEAN
      /\ Once(list) /\ Stocked /\ TcpKnown /\ Expiring
  BY DEF Inv, Typed, Timer
<1>2. NoHandler \notin Handlers /\ TcpTimer \in Handlers /\ TimeMod \in Nat \ {0, 1} /\ PoolSize \in Nat
  BY SizesAre
<1>3. CASE Look
  <2>1. Since(last) \in Time
    <3>1. clock + TimeMod - last \in Nat BY <1>1, <1>2 DEF Time
    <3> QED BY <3>1, RoundIs DEF Since
  <2>2. Typed'
    BY <1>1, <1>3, <2>1 DEF Typed, Look, Timer, tcpVars
  <2> QED BY <1>1, <1>3, <2>2 DEF Inv, Look, Once, Stocked, TcpKnown, Expiring, InList, tcpVars
<1>4. CASE Test
  <2>1. /\ list' = list /\ free' = free /\ tmp' = Head(list).h /\ pc' = "unlink" /\ list # <<>>
        /\ diff' = diff /\ Head(list).time <= diff /\ tcpActive' = tcpActive
    BY <1>4 DEF Test, tcpVars
  <2>2. 1 \in 1 .. Len(list) /\ Head(list) = list[1] /\ list[1].h \in Handlers
    BY <1>1, <2>1, FirstIs
  <2>3. InList(list, list[1].h) /\ Place(list, list[1].h) = 1
    BY <1>1, <2>2, PlaceOfItsHandler
  <2>4. Typed'
    BY <1>1, <1>4, <2>1, <2>2 DEF Typed, Test, Timer, tcpVars
  <2>5. Once(list)' /\ Stocked' BY <1>1, <2>1 DEF Once, Stocked
  <2>6. \A g : (InList(list, g)' <=> InList(list, g)) /\ Place(list, g)' = Place(list, g)
    BY <2>1 DEF InList, Place
  <2>7. TcpKnown' BY <1>1, <2>1, <2>2, <2>3, <2>6 DEF TcpKnown
  <2>8. Expiring' BY <1>2, <2>1, <2>2, <2>3, <2>6 DEF Expiring
  <2> QED BY <2>4, <2>5, <2>7, <2>8 DEF Inv
<1>5. CASE Unlink
  <2>1. /\ pc = "unlink" /\ pc' = "call" /\ tmp' = tmp /\ free' = free + 1
        /\ diff' = diff - list[Place(list, tmp)].time
        /\ list' = SubSeq(list, Place(list, tmp) + 1, Len(list)) /\ tcpActive' = tcpActive
    BY <1>5 DEF Unlink, tcpVars
  <2>2. tmp # NoHandler /\ InList(list, tmp) /\ list[Place(list, tmp)].time <= diff
    BY <1>1, <2>1 DEF Expiring
  <2>3. PICK i \in 1 .. Len(list), t \in Nat : i = Place(list, tmp) /\ t = list[i].time
    BY <1>1, <2>2, LeftIs
  <2>4. i \in 0 .. Len(list) OBVIOUS
  <2>5. PICK m \in Seq(Timer) :
           /\ m = SubSeq(list, i + 1, Len(list)) /\ Len(m) = Len(list) - i /\ Once(m)
           /\ \A g : InList(m, g) <=> (InList(list, g) /\ Place(list, g) > i)
           /\ \A g : InList(m, g) => Left(m, g) = Left(list, g) - Ahead(list, i)
    BY <1>1, <2>4, DropLeft
  <2>6. list' = m BY <2>1, <2>3, <2>5
  <2>7. diff' \in Time
    <3>1. diff' = diff - t /\ t <= diff BY <2>1, <2>2, <2>3
    <3>2. diff - t \in Time BY <1>1, <1>2, <3>1 DEF Time
    <3> QED BY <3>1, <3>2
  <2>8. free' \in 0 .. PoolSize /\ Stocked'
    <3>1. PICK n \in Nat : n = Len(list) /\ i \in 1 .. n BY <1>1, AheadIs
    <3>2. free + n <= PoolSize BY <1>1, <3>1 DEF Stocked
    <3>3. free + 1 \in 0 .. PoolSize /\ (free + 1) + (n - i) <= PoolSize BY <1>1, <1>2, <3>1, <3>2
    <3>4. Len(list)' = n - i BY <2>5, <2>6, <3>1
    <3> QED BY <2>1, <3>3, <3>4 DEF Stocked
  <2>9. Typed'
    BY <1>1, <1>5, <2>5, <2>6, <2>7, <2>8 DEF Typed, Unlink, Timer, tcpVars
  <2>10. \A g : InList(list, g)' <=> (InList(list, g) /\ Place(list, g) > i)
    <3>1. \A g : InList(list, g)' <=> InList(m, g) BY <2>6 DEF InList
    <3> QED BY <2>5, <3>1
  <2>11. TcpKnown' BY <1>1, <2>1, <2>10 DEF TcpKnown
  <2>12. Expiring'
    <3>1. ~(Place(list, tmp) > i) BY <2>3
    <3>2. ~InList(m, tmp) BY <2>5, <3>1
    <3>3. ~InList(list', tmp') BY <2>1, <2>6, <3>2
    <3> QED BY <1>2, <2>1, <2>2, <3>3 DEF Expiring
  <2>13. Once(list)' BY <2>5, <2>6 DEF Once
  <2> QED BY <2>8, <2>9, <2>11, <2>12, <2>13 DEF Inv
<1>6. CASE Call
  <2>1. /\ pc = "call" /\ pc' = "loop" /\ tmp' = NoHandler
        /\ tcpActive' = (tcpActive /\ ~(tmp = TcpTimer /\ ~tcpUp))
    BY <1>6 DEF Call
  <2>2. tmp \in Handlers /\ ~InList(list, tmp)
    BY <1>1, <2>1 DEF Expiring
  <2>3. Expiring' BY <2>1 DEF Expiring
  <2>6. tcpUp' \in BOOLEAN
    <3>1. tcpUp' = tcpUp \/ tcpUp' = (tcpUp \/ (tmp = TcpTimer /\ program.tcp)) BY <1>6 DEF Call
    <3> QED BY <1>1, <3>1
  <2>4. CASE tmp \in Periodic \/ (tmp = TcpTimer /\ tcpUp)
    <3>1. Arm(tmp) BY <1>6, <2>4 DEF Call
    <3>2. /\ list' \in Seq(Timer) /\ Once(list)' /\ Stocked' /\ free' \in 0 .. PoolSize
          /\ \A g : InList(list, g)' <=> (InList(list, g) \/ (g = tmp /\ free # 0))
      BY <1>1, <2>2, <3>1, ArmIs
    <3>3. Typed' BY <1>1, <1>6, <2>1, <2>6, <3>2 DEF Typed, Call, Timer
    <3>4. TcpKnown'
      <4>1. InList(list, TcpTimer)' => InList(list, TcpTimer) \/ tmp = TcpTimer BY <3>2
      <4>2. InList(list, TcpTimer)' => tcpActive' BY <1>1, <2>1, <2>4, <4>1, HandlerAssumption DEF TcpKnown
      <4>3. tmp' # TcpTimer BY <1>2, <2>1
      <4> QED BY <4>2, <4>3 DEF TcpKnown
    <3> QED BY <2>3, <3>2, <3>3, <3>4 DEF Inv
  <2>5. CASE ~(tmp \in Periodic \/ (tmp = TcpTimer /\ tcpUp))
    <3>1. list' = list /\ free' = free BY <1>6, <2>5 DEF Call
    <3>2. Typed' BY <1>1, <1>6, <2>1, <2>6, <3>1 DEF Typed, Call, Timer
    <3>3. Once(list)' /\ Stocked' BY <1>1, <3>1 DEF Once, Stocked
    <3>4. InList(list, TcpTimer)' <=> InList(list, TcpTimer) BY <3>1 DEF InList
    <3>5. TcpKnown'
      <4>1. tmp' # TcpTimer BY <1>2, <2>1
      <4>2. InList(list, TcpTimer) => tcpActive' BY <1>1, <2>1, <2>2 DEF TcpKnown
      <4> QED BY <3>4, <4>1, <4>2 DEF TcpKnown
    <3> QED BY <2>3, <3>2, <3>3, <3>5 DEF Inv
  <2> QED BY <2>4, <2>5
<1>7. CASE Leave
  <2>1. 0 \in Time BY <1>2 DEF Time
  <2>2. Typed'
    BY <1>1, <1>7, <2>1 DEF Typed, Leave, Timer, tcpVars
  <2> QED BY <1>1, <1>7, <2>2 DEF Inv, Leave, Once, Stocked, TcpKnown, Expiring, InList, tcpVars
<1> QED BY <1>3, <1>4, <1>5, <1>6, <1>7 DEF Check

\* The steps of the application and of the interrupts.
LEMMA OtherInv ==
    ASSUME Inv, App \/ Tick \/ TcpOpen \/ TcpGone
    PROVE  Inv'
<1>1. /\ list \in Seq(Timer) /\ free \in 0 .. PoolSize
      /\ clock \in Time /\ last \in Time /\ now \in Time /\ diff \in Time
      /\ pc \in {"idle", "loop", "unlink", "call"} /\ tmp \in Handlers \cup {NoHandler}
      /\ tcpUp \in BOOLEAN /\ tcpActive \in BOOLEAN
      /\ Once(list) /\ Stocked /\ TcpKnown /\ Expiring
  BY DEF Inv, Typed, Timer
<1>2. NoHandler \notin Handlers /\ TcpTimer \in Handlers /\ TimeMod \in Nat \ {0, 1} /\ PoolSize \in Nat
  BY SizesAre
<1>3. CASE AppRestart
  <2>1. Typed' BY <1>1, <1>3 DEF Typed, AppRestart, Timer, tcpVars
  <2> QED BY <1>1, <1>3, <2>1 DEF Inv, AppRestart, Once, Stocked, TcpKnown, Expiring, InList, tcpVars
<1>4. ASSUME NEW h \in OneShot, AppTimeout(h) PROVE Inv'
  <2>1. /\ pc = "idle" /\ ~InList(list, h) /\ Arm(h)
        /\ UNCHANGED <<clock, last, pc, now, diff, tmp, tcpUp, tcpActive>>
    BY <1>4 DEF AppTimeout, tcpVars
  <2>2. h \in Handlers /\ h # TcpTimer BY HandlerAssumption DEF Handlers
  <2>3. /\ list' \in Seq(Timer) /\ Once(list)' /\ Stocked' /\ free' \in 0 .. PoolSize
        /\ \A g : InList(list, g)' <=> (InList(list, g) \/ (g = h /\ free # 0))
    BY <1>1, <2>1, <2>2, ArmIs
  <2>4. Typed' BY <1>1, <2>1, <2>3 DEF Typed, Timer
  <2>5. TcpKnown'
    <3>1. InList(list, TcpTimer)' => InList(list, TcpTimer) BY <2>2, <2>3
    <3> QED BY <1>1, <2>1, <3>1 DEF TcpKnown
  <2>6. Expiring' BY <1>1, <2>1 DEF Expiring
  <2> QED BY <2>3, <2>4, <2>5, <2>6 DEF Inv
<1>5. ASSUME NEW h \in OneShot, AppUntimeout(h) PROVE Inv'
  <2>1. /\ pc = "idle" /\ list' = Remove(list, h)
        /\ free' = IF InList(list, h) THEN free + 1 ELSE free
        /\ UNCHANGED <<clock, last, pc, now, diff, tmp, tcpUp, tcpActive>>
    BY <1>5 DEF AppUntimeout, tcpVars
  <2>2. Expiring' BY <1>1, <2>1 DEF Expiring
  <2>3. CASE ~InList(list, h)
    <3>1. list' = list /\ free' = free BY <2>1, <2>3 DEF Remove
    <3>2. Typed' BY <1>1, <2>1, <3>1 DEF Typed, Timer
    <3> QED BY <1>1, <2>1, <2>2, <3>1, <3>2 DEF Inv, Once, Stocked, TcpKnown, InList
  <2>4. CASE InList(list, h)
    <3>1. PICK m \in Seq(Timer) :
             /\ m = Remove(list, h) /\ Len(m) = Len(list) - 1 /\ Once(m)
             /\ \A g : InList(m, g) <=> (g # h /\ InList(list, g))
             /\ \A g : InList(m, g) => Left(m, g) = Left(list, g)
      BY <1>1, <2>4, RemoveLeft
    <3>2. list' = m /\ free' = free + 1 BY <2>1, <2>4, <3>1
    <3>3. free' \in 0 .. PoolSize /\ Stocked'
      <4>1. PICK n \in Nat : n = Len(list) /\ n # 0
        <5>1. Len(list) \in Nat BY <1>1, AheadIs
        <5>2. Place(list, h) \in 1 .. Len(list) BY <1>1, <2>4, PlaceIs
        <5> QED BY <5>1, <5>2
      <4>2. free + n <= PoolSize BY <1>1, <4>1 DEF Stocked
      <4>3. free + 1 \in 0 .. PoolSize /\ (free + 1) + (n - 1) <= PoolSize BY <1>1, <1>2, <4>1, <4>2
      <4>4. Len(list)' = n - 1 BY <3>1, <3>2, <4>1
      <4> QED BY <3>2, <4>3, <4>4 DEF Stocked
    <3>4. Typed' BY <1>1, <2>1, <3>1, <3>2, <3>3 DEF Typed, Timer
    <3>5. Once(list)' BY <3>1, <3>2 DEF Once
    <3>6. TcpKnown'
      <4>1. InList(list, TcpTimer)' <=> InList(m, TcpTimer) BY <3>2 DEF InList
      <4> QED BY <1>1, <2>1, <3>1, <4>1 DEF TcpKnown
    <3> QED BY <2>2, <3>3, <3>4, <3>5, <3>6 DEF Inv
  <2> QED BY <2>3, <2>4
<1>6. CASE Tick
  <2>1. clock' \in Time
    <3>1. clock + 1 \in Nat BY <1>1, <1>2 DEF Time
    <3> QED BY <1>6, <3>1, RoundIs DEF Tick
  <2>2. Typed' BY <1>1, <1>6, <2>1 DEF Typed, Tick, Timer, tcpVars
  <2> QED BY <1>1, <1>6, <2>2 DEF Inv, Tick, Once, Stocked, TcpKnown, Expiring, InList, tcpVars
<1>7. CASE TcpOpen
  <2>1. tcpActive' = TRUE /\ tcpUp' = TRUE /\ UNCHANGED <<clock, last, pc, now, diff, tmp>>
    BY <1>7 DEF TcpOpen
  <2>2. TcpKnown' BY <2>1 DEF TcpKnown
  <2>3. CASE tcpActive
    <3>1. list' = list /\ free' = free BY <1>7, <2>3 DEF TcpOpen
    <3>2. Typed' BY <1>1, <2>1, <3>1 DEF Typed, Timer
    <3>3. Expiring' BY <1>1, <2>1, <3>1 DEF Expiring, InList, Place
    <3> QED BY <1>1, <2>2, <3>1, <3>2, <3>3 DEF Inv, Once, Stocked
  <2>4. CASE ~tcpActive
    <3>1. Arm(TcpTimer) BY <1>7, <2>4 DEF TcpOpen
    <3>2. ~InList(list, TcpTimer) /\ tmp # TcpTimer BY <1>1, <2>4 DEF TcpKnown
    <3>3. /\ list' \in Seq(Timer) /\ Once(list)' /\ Stocked' /\ free' \in 0 .. PoolSize
          /\ \A g : InList(list, g)' <=> (InList(list, g) \/ (g = TcpTimer /\ free # 0))
          /\ \A g : InList(list, g) => /\ list'[Place(list, g)'].time \in Nat
                                       /\ list[Place(list, g)].time \in Nat
                                       /\ list'[Place(list, g)'].time <= list[Place(list, g)].time
      BY <1>1, <1>2, <3>1, <3>2, ArmIs
    <3>4. Typed' BY <1>1, <2>1, <3>3 DEF Typed, Timer
    <3>5. Expiring'
      <4>1. \A g : InList(list', g) <=> (InList(list, g) \/ (g = TcpTimer /\ free # 0))
        BY <3>3 DEF InList
      <4>2. \A g : InList(list, g) => /\ list'[Place(list', g)].time \in Nat
                                      /\ list[Place(list, g)].time \in Nat
                                      /\ list'[Place(list', g)].time <= list[Place(list, g)].time
        BY <3>3 DEF Place
      <4>3. ASSUME pc = "unlink" PROVE InList(list', tmp) /\ list'[Place(list', tmp)].time <= diff
        <5>1. InList(list, tmp) /\ list[Place(list, tmp)].time <= diff BY <1>1, <4>3 DEF Expiring
        <5>2. PICK t \in Nat, u \in Nat : /\ t = list[Place(list, tmp)].time
                                         /\ u = list'[Place(list', tmp)].time /\ u <= t
          BY <4>2, <5>1
        <5>3. diff \in Nat BY <1>1 DEF Time
        <5>4. u <= diff BY <5>1, <5>2, <5>3
        <5> QED BY <4>1, <5>1, <5>2, <5>4
      <4>4. pc = "call" => ~InList(list', tmp) BY <1>1, <3>2, <4>1 DEF Expiring
      <4>5. pc' = pc /\ tmp' = tmp /\ diff' = diff BY <2>1
      <4>6. (pc \in {"unlink", "call"} <=> tmp # NoHandler) /\ (pc = "idle" => diff = 0)
        BY <1>1 DEF Expiring
      <4> QED BY <4>3, <4>4, <4>5, <4>6 DEF Expiring
    <3> QED BY <2>2, <3>3, <3>4, <3>5 DEF Inv
  <2> QED BY <2>3, <2>4
<1>8. CASE TcpGone
  <2>1. Typed' BY <1>1, <1>8 DEF Typed, TcpGone, Timer
  <2> QED BY <1>1, <1>8, <2>1 DEF Inv, TcpGone, Once, Stocked, TcpKnown, Expiring, InList
<1> QED BY <1>3, <1>4, <1>5, <1>6, <1>7, <1>8 DEF App

LEMMA InvStep == Inv /\ [Step]_timers => Inv'
<1> SUFFICES ASSUME Inv, [Step]_timers PROVE Inv'
  OBVIOUS
<1>1. CASE UNCHANGED timers
  <2>1. Typed' BY <1>1 DEF Inv, Typed, timers
  <2> QED BY <1>1, <2>1 DEF Inv, timers, Once, Stocked, TcpKnown, Expiring, InList, Place
<1>2. CASE Step
  BY <1>2, CheckInv, OtherInv DEF Step
<1> QED BY <1>1, <1>2

\* A step of the model is one of the timers, unless the model ends.
LEMMA NextIs == [Next]_vars => [Step]_timers
BY DEF Next, TcpInside, vars

LEMMA Invariance == Spec => []Inv
<1> QED BY InvInit, InvStep, NextIs, PTL DEF Spec

\* In every behaviour of the timers the variables have their types: a timer
\* never waits for a negative time, diff never falls below 0, and no more
\* structures are freed than the pool has.
THEOREM Types == Spec => []TypeOK
<1>1. Init => broken \in BOOLEAN BY DEF Init
<1>2. broken \in BOOLEAN /\ [Next]_vars => (broken \in BOOLEAN)' BY DEF Next, TcpInside, vars
<1>3. Inv /\ broken \in BOOLEAN => TypeOK BY DEF Inv, Typed, Timer, TypeOK
<1> QED BY <1>1, <1>2, <1>3, Invariance, PTL DEF Spec

----------------------------------------------------------------------------
(* The list of differences implements TimerService. *)

\* The handlers with a timer behind the first e.
Behind(l, e) == {g \in Handlers : InList(l, g) /\ Place(l, g) > e}

LEMMA TimeLeftIs ==
    ASSUME NEW l \in Seq(Timer), Once(l), NEW e \in 0 .. Len(l)
    PROVE  /\ TimeLeft(l, e) = [g \in Behind(l, e) |-> Left(l, g) - Ahead(l, e)]
           /\ Ahead(l, e) \in Nat
           /\ \A g \in Behind(l, e) : Left(l, g) - Ahead(l, e) \in Nat
<1>1. PICK n \in Nat : n = Len(l)
  BY AheadIs
<1>2. {l[i].h : i \in (e + 1) .. n} = Behind(l, e)
  <2>1. ASSUME NEW i \in (e + 1) .. n PROVE l[i].h \in Behind(l, e)
    <3>1. i \in 1 .. Len(l) /\ i > e BY <1>1
    <3>2. l[i].h \in Handlers BY <3>1, AheadIs
    <3>3. InList(l, l[i].h) /\ Place(l, l[i].h) = i BY <3>1, PlaceOfItsHandler
    <3> QED BY <3>1, <3>2, <3>3 DEF Behind
  <2>2. ASSUME NEW g \in Behind(l, e) PROVE \E i \in (e + 1) .. n : l[i].h = g
    <3>1. InList(l, g) /\ Place(l, g) > e BY DEF Behind
    <3>2. PICK i \in 1 .. n : i = Place(l, g) /\ l[i].h = g BY <1>1, <3>1, PlaceIs
    <3>3. i \in (e + 1) .. n BY <1>1, <3>1, <3>2
    <3> QED BY <3>2, <3>3
  <2> QED BY <2>1, <2>2
<1>3. TimeLeft(l, e) = [g \in {l[i].h : i \in (e + 1) .. n} |-> Left(l, g) - Ahead(l, e)]
  BY <1>1 DEF TimeLeft, Left
<1>4. Ahead(l, e) \in Nat
  BY AheadIs
<1>5. ASSUME NEW g \in Behind(l, e) PROVE Left(l, g) - Ahead(l, e) \in Nat
  <2>1. InList(l, g) /\ Place(l, g) > e BY DEF Behind
  <2>2. PICK i \in 1 .. Len(l) : i = Place(l, g) /\ Left(l, g) = Ahead(l, i) BY <2>1, LeftIs
  <2>3. i \in 0 .. Len(l) /\ e <= i BY <1>1, <2>1, <2>2
  <2>4. Ahead(l, i) \in Nat /\ Ahead(l, e) <= Ahead(l, i) BY <2>3, AheadIs
  <2>5. Ahead(l, i) - Ahead(l, e) \in Nat
    <3>1. PICK x \in Nat, y \in Nat : x = Ahead(l, i) /\ y = Ahead(l, e) /\ y <= x BY <1>4, <2>4
    <3>2. x - y \in Nat BY <3>1
    <3> QED BY <3>1, <3>2
  <2> QED BY <2>2, <2>5
<1> QED BY <1>2, <1>3, <1>4, <1>5

\* v is w with a time for h.
Joined(v, w, h) ==
    /\ h \notin DOMAIN w /\ v \in [DOMAIN w \cup {h} -> Nat]
    /\ \A g \in DOMAIN w : v[g] = w[g]

\* To arm a timer behind the first e adds its msecs, from the end of those, to
\* the time left, and leaves the others.
LEMMA ArmedLeft ==
    ASSUME NEW l \in Seq(Timer), Once(l), NEW h \in Handlers, ~InList(l, h), NEW ms \in Nat,
           NEW e \in 0 .. Len(l), e <= Before(l, ms)
    PROVE  Joined(TimeLeft(Insert(l, h, ms), e), TimeLeft(l, e), h)
<1> DEFINE b == Before(l, ms)
<1>1. PICK m \in Seq(Timer) :
         /\ m = Insert(l, h, ms) /\ Len(m) = Len(l) + 1 /\ Once(m)
         /\ \A g : InList(m, g) <=> (g = h \/ InList(l, g))
         /\ Left(m, h) = ms /\ Place(m, h) = b + 1
         /\ \A g : InList(l, g) => 
              /\ Left(m, g) = Left(l, g)
              /\ Place(m, g) = IF Place(l, g) <= b THEN Place(l, g) ELSE Place(l, g) + 1
  BY InsertLeft
<1>2. b \in 0 .. Len(l) /\ e <= b
  BY BeforeIs
<1> HIDE DEF b
<1>3. e \in 0 .. Len(m)
  BY <1>1
<1>4. Ahead(m, e) = Ahead(l, e)
  <2>1. PICK m0 \in Seq(Timer), k \in 0 .. Len(l) :
         /\ m0 = Insert(l, h, ms) /\ k = Before(l, ms) /\ Len(m0) = Len(l) + 1
         /\ \A j \in 1 .. k : m0[j].h = l[j].h
         /\ m0[k + 1].h = h
         /\ \A j \in (k + 1) .. Len(l) : m0[j + 1].h = l[j].h
         /\ \A j \in 0 .. k : Ahead(m0, j) = Ahead(l, j) /\ Ahead(l, j) <= ms
         /\ Ahead(m0, k + 1) = ms
         /\ \A j \in (k + 1) .. Len(l) : Ahead(m0, j + 1) = Ahead(l, j) /\ ms < Ahead(l, j)
    BY InsertIs
  <2>2. m = m0 /\ e \in 0 .. k BY <1>1, <1>2, <2>1 DEF b
  <2> QED BY <2>1, <2>2
<1>5. Behind(m, e) = Behind(l, e) \cup {h} /\ h \notin Behind(l, e)
  <2>1. h \notin Behind(l, e) BY DEF Behind
  <2>2. h \in Behind(m, e)
    <3>1. b + 1 > e BY <1>2
    <3> QED BY <1>1, <3>1 DEF Behind
  <2>3. ASSUME NEW g \in Handlers, g # h PROVE g \in Behind(m, e) <=> g \in Behind(l, e)
    <3>1. CASE ~InList(l, g) BY <1>1, <2>3, <3>1 DEF Behind
    <3>2. CASE InList(l, g)
      <4>1. PICK i \in 1 .. Len(l) : i = Place(l, g) BY <3>2, PlaceIs
      <4>2. Place(m, g) = IF i <= b THEN i ELSE i + 1 BY <1>1, <3>2, <4>1
      <4>3. Place(m, g) > e <=> i > e BY <1>2, <4>2
      <4> QED BY <1>1, <3>2, <4>1, <4>3 DEF Behind
    <3> QED BY <3>1, <3>2
  <2>4. Behind(m, e) \subseteq Handlers /\ Behind(l, e) \subseteq Handlers BY DEF Behind
  <2> QED BY <2>1, <2>2, <2>3, <2>4
<1>6. /\ TimeLeft(l, e) = [g \in Behind(l, e) |-> Left(l, g) - Ahead(l, e)]
      /\ TimeLeft(m, e) = [g \in Behind(m, e) |-> Left(m, g) - Ahead(l, e)]
      /\ \A g \in Behind(m, e) : Left(m, g) - Ahead(l, e) \in Nat
  <2>1. TimeLeft(l, e) = [g \in Behind(l, e) |-> Left(l, g) - Ahead(l, e)] BY TimeLeftIs
  <2>2. /\ TimeLeft(m, e) = [g \in Behind(m, e) |-> Left(m, g) - Ahead(m, e)]
        /\ \A g \in Behind(m, e) : Left(m, g) - Ahead(m, e) \in Nat
    BY <1>1, <1>3, TimeLeftIs
  <2> QED BY <1>4, <2>1, <2>2
<1>7. \A g \in Behind(l, e) : Left(m, g) = Left(l, g)
  BY <1>1 DEF Behind
<1> QED BY <1>1, <1>5, <1>6, <1>7 DEF Joined

\* A timer put before the one being unlinked is lost; nothing else changes.
LEMMA ArmedBefore ==
    ASSUME NEW l \in Seq(Timer), Once(l), NEW h \in Handlers, ~InList(l, h), NEW ms \in Nat,
           NEW e \in 1 .. Len(l), Before(l, ms) < e
    PROVE  /\ e + 1 \in 1 .. Len(Insert(l, h, ms))
           /\ TimeLeft(Insert(l, h, ms), e + 1) = TimeLeft(l, e)
<1> DEFINE b == Before(l, ms)
<1>1. PICK m \in Seq(Timer) :
         /\ m = Insert(l, h, ms) /\ Len(m) = Len(l) + 1 /\ Once(m)
         /\ \A g : InList(m, g) <=> (g = h \/ InList(l, g))
         /\ Left(m, h) = ms /\ Place(m, h) = b + 1
         /\ \A g : InList(l, g) => 
              /\ Left(m, g) = Left(l, g)
              /\ Place(m, g) = IF Place(l, g) <= b THEN Place(l, g) ELSE Place(l, g) + 1
  BY InsertLeft
<1>2. b \in 0 .. Len(l) /\ b < e
  BY BeforeIs
<1> HIDE DEF b
<1>3. e + 1 \in 0 .. Len(m) /\ e + 1 \in 1 .. Len(m) /\ e \in 0 .. Len(l)
  BY <1>1
<1>4. Ahead(m, e + 1) = Ahead(l, e)
  <2>1. PICK m0 \in Seq(Timer), k \in 0 .. Len(l) :
         /\ m0 = Insert(l, h, ms) /\ k = Before(l, ms) /\ Len(m0) = Len(l) + 1
         /\ \A j \in 1 .. k : m0[j].h = l[j].h
         /\ m0[k + 1].h = h
         /\ \A j \in (k + 1) .. Len(l) : m0[j + 1].h = l[j].h
         /\ \A j \in 0 .. k : Ahead(m0, j) = Ahead(l, j) /\ Ahead(l, j) <= ms
         /\ Ahead(m0, k + 1) = ms
         /\ \A j \in (k + 1) .. Len(l) : Ahead(m0, j + 1) = Ahead(l, j) /\ ms < Ahead(l, j)
    BY InsertIs
  <2>2. m = m0 /\ e \in (k + 1) .. Len(l) BY <1>1, <1>2, <2>1 DEF b
  <2> QED BY <2>1, <2>2
<1>5. Behind(m, e + 1) = Behind(l, e)
  <2>1. h \notin Behind(l, e) BY DEF Behind
  <2>2. h \notin Behind(m, e + 1)
    <3>1. ~(b + 1 > e + 1) BY <1>2
    <3> QED BY <1>1, <3>1 DEF Behind
  <2>3. ASSUME NEW g \in Handlers, g # h PROVE g \in Behind(m, e + 1) <=> g \in Behind(l, e)
    <3>1. CASE ~InList(l, g) BY <1>1, <2>3, <3>1 DEF Behind
    <3>2. CASE InList(l, g)
      <4>1. PICK i \in 1 .. Len(l) : i = Place(l, g) BY <3>2, PlaceIs
      <4>2. Place(m, g) = IF i <= b THEN i ELSE i + 1 BY <1>1, <3>2, <4>1
      <4>3. Place(m, g) > e + 1 <=> i > e BY <1>2, <4>2
      <4> QED BY <1>1, <3>2, <4>1, <4>3 DEF Behind
    <3> QED BY <3>1, <3>2
  <2>4. ASSUME NEW g PROVE g \in Behind(m, e + 1) <=> g \in Behind(l, e)
    <3>1. CASE g \notin Handlers BY <3>1 DEF Behind
    <3>2. CASE g = h BY <2>1, <2>2, <3>2
    <3> QED BY <2>3, <3>1, <3>2
  <2> QED BY <2>4
<1>6. /\ TimeLeft(l, e) = [g \in Behind(l, e) |-> Left(l, g) - Ahead(l, e)]
      /\ TimeLeft(m, e + 1) = [g \in Behind(m, e + 1) |-> Left(m, g) - Ahead(m, e + 1)]
  BY <1>1, <1>3, TimeLeftIs
<1>7. \A g \in Behind(l, e) : Left(m, g) = Left(l, g)
  BY <1>1 DEF Behind
<1> QED BY <1>1, <1>3, <1>4, <1>5, <1>6, <1>7

\* What is behind the timers unlinked keeps the time left to it.
LEMMA DroppedLeft ==
    ASSUME NEW l \in Seq(Timer), Once(l), NEW e \in 0 .. Len(l)
    PROVE  TimeLeft(SubSeq(l, e + 1, Len(l)), 0) = TimeLeft(l, e)
<1>1. PICK m \in Seq(Timer) :
         /\ m = SubSeq(l, e + 1, Len(l)) /\ Len(m) = Len(l) - e /\ Once(m)
         /\ \A g : InList(m, g) <=> (InList(l, g) /\ Place(l, g) > e)
         /\ \A g : InList(m, g) => Left(m, g) = Left(l, g) - Ahead(l, e)
  BY DropLeft
<1>2. 0 \in 0 .. Len(m) /\ Ahead(m, 0) = 0
  BY AheadIs
<1>3. Behind(m, 0) = Behind(l, e)
  <2>1. ASSUME NEW g PROVE g \in Behind(m, 0) <=> g \in Behind(l, e)
    <3>1. InList(m, g) => Place(m, g) > 0
      <4>1. InList(m, g) => Place(m, g) \in 1 .. Len(m) BY PlaceIs
      <4>2. Len(m) \in Nat BY AheadIs
      <4> QED BY <4>1, <4>2
    <3> QED BY <1>1, <3>1 DEF Behind
  <2> QED BY <2>1
<1>4. TimeLeft(m, 0) = [g \in Behind(m, 0) |-> Left(m, g) - Ahead(m, 0)]
  BY <1>1, <1>2, TimeLeftIs
<1>5. \A g \in Behind(m, 0) : Left(m, g) - Ahead(m, 0) = Left(l, g) - Ahead(l, e)
  <2>1. SUFFICES ASSUME NEW g \in Behind(m, 0) PROVE Left(m, g) - Ahead(m, 0) = Left(l, g) - Ahead(l, e)
    OBVIOUS
  <2>2. InList(m, g) BY DEF Behind
  <2>3. Left(m, g) \in Nat BY <1>1, <2>2, LeftIs
  <2>4. Left(m, g) - Ahead(m, 0) = Left(m, g) BY <1>2, <2>3
  <2> QED BY <1>1, <2>2, <2>4
<1>6. TimeLeft(l, e) = [g \in Behind(l, e) |-> Left(l, g) - Ahead(l, e)]
  BY TimeLeftIs
<1> QED BY <1>1, <1>3, <1>4, <1>5, <1>6

\* The expiry of the first timer takes its time from the others.
LEMMA ExpiredLeft ==
    ASSUME NEW l \in Seq(Timer), Once(l), l # <<>>
    PROVE  LET h == l[1].h
           IN  /\ h \in DOMAIN TimeLeft(l, 0) /\ TimeLeft(l, 0)[h] = l[1].time
               /\ \A g \in DOMAIN TimeLeft(l, 0) : TimeLeft(l, 0)[h] <= TimeLeft(l, 0)[g]
               /\ TimeLeft(l, 1) = [g \in DOMAIN TimeLeft(l, 0) \ {h} |-> TimeLeft(l, 0)[g] - TimeLeft(l, 0)[h]]
<1>1. PICK h \in Handlers, t \in Nat : h = l[1].h /\ t = l[1].time /\ Ahead(l, 1) = t
  BY FirstIs
<1>2. 1 \in 1 .. Len(l) /\ 1 \in 0 .. Len(l) /\ 0 \in 0 .. Len(l) /\ Len(l) \in Nat
  BY FirstIs
<1>3. InList(l, h) /\ Place(l, h) = 1
  BY <1>1, <1>2, PlaceOfItsHandler
<1>4. Ahead(l, 0) = 0
  BY AheadIs
<1>5. \A g : InList(l, g) => Place(l, g) \in 1 .. Len(l)
  BY PlaceIs
<1>6. Behind(l, 1) = Behind(l, 0) \ {h} /\ h \in Behind(l, 0)
  <2>1. h \in Behind(l, 0) BY <1>3 DEF Behind
  <2>2. ASSUME NEW g PROVE g \in Behind(l, 1) <=> g \in Behind(l, 0) /\ g # h
    <3>1. CASE ~InList(l, g) BY <3>1 DEF Behind
    <3>2. CASE InList(l, g)
      <4>1. PICK i \in 1 .. Len(l) : i = Place(l, g) /\ l[i].h = g BY <3>2, PlaceIs
      <4>2. g # h <=> i # 1 BY <1>1, <1>3, <4>1
      <4>3. (i > 1 <=> i # 1) /\ i > 0 BY <1>2
      <4> QED BY <3>2, <4>1, <4>2, <4>3 DEF Behind
    <3> QED BY <3>1, <3>2
  <2> QED BY <2>1, <2>2
<1>7. TimeLeft(l, 0) = [g \in Behind(l, 0) |-> Left(l, g)]
  <2>1. \A g \in Behind(l, 0) : Left(l, g) - Ahead(l, 0) = Left(l, g)
    <3> SUFFICES ASSUME NEW g \in Behind(l, 0) PROVE Left(l, g) - Ahead(l, 0) = Left(l, g)
      OBVIOUS
    <3>1. InList(l, g) BY DEF Behind
    <3>2. Left(l, g) \in Nat BY <3>1, LeftIs
    <3> QED BY <1>4, <3>2
  <2>2. TimeLeft(l, 0) = [g \in Behind(l, 0) |-> Left(l, g) - Ahead(l, 0)] BY <1>2, TimeLeftIs
  <2> QED BY <2>1, <2>2
<1>8. TimeLeft(l, 1) = [g \in Behind(l, 1) |-> Left(l, g) - t]
  BY <1>1, <1>2, TimeLeftIs
<1>9. Left(l, h) = t
  BY <1>1, <1>3 DEF Left
<1>10. \A g \in Behind(l, 0) : t <= Left(l, g)
  <2> SUFFICES ASSUME NEW g \in Behind(l, 0) PROVE t <= Left(l, g)
    OBVIOUS
  <2>1. InList(l, g) BY DEF Behind
  <2>2. PICK i \in 1 .. Len(l) : i = Place(l, g) BY <1>5, <2>1
  <2>3. i \in 0 .. Len(l) /\ 1 <= i BY <1>2
  <2>4. Ahead(l, 1) <= Ahead(l, i) BY <1>2, <2>3, AheadIs
  <2> QED BY <1>1, <2>2, <2>4 DEF Left
<1> QED BY <1>1, <1>6, <1>7, <1>8, <1>9, <1>10

\* sys_untimeout leaves the time left to the other timers.
LEMMA RemovedLeft ==
    ASSUME NEW l \in Seq(Timer), Once(l), NEW h, InList(l, h)
    PROVE  TimeLeft(Remove(l, h), 0) = [g \in DOMAIN TimeLeft(l, 0) \ {h} |-> TimeLeft(l, 0)[g]]
<1>1. PICK m \in Seq(Timer) :
         /\ m = Remove(l, h) /\ Len(m) = Len(l) - 1 /\ Once(m)
         /\ \A g : InList(m, g) <=> (g # h /\ InList(l, g))
         /\ \A g : InList(m, g) => Left(m, g) = Left(l, g)
  BY RemoveLeft
<1>2. /\ 0 \in 0 .. Len(m) /\ Ahead(m, 0) = 0
      /\ 0 \in 0 .. Len(l) /\ Ahead(l, 0) = 0
  BY AheadIs
<1>3. Behind(m, 0) = Behind(l, 0) \ {h}
  <2>1. ASSUME NEW g PROVE g \in Behind(m, 0) <=> g \in Behind(l, 0) /\ g # h
    <3>1. InList(m, g) => Place(m, g) > 0
      <4>1. InList(m, g) => Place(m, g) \in 1 .. Len(m) BY PlaceIs
      <4>2. Len(m) \in Nat BY AheadIs
      <4> QED BY <4>1, <4>2
    <3>2. InList(l, g) => Place(l, g) > 0
      <4>1. InList(l, g) => Place(l, g) \in 1 .. Len(l) BY PlaceIs
      <4>2. Len(l) \in Nat BY AheadIs
      <4> QED BY <4>1, <4>2
    <3> QED BY <1>1, <3>1, <3>2 DEF Behind
  <2> QED BY <2>1
<1>4. /\ TimeLeft(m, 0) = [g \in Behind(m, 0) |-> Left(m, g) - Ahead(m, 0)]
      /\ TimeLeft(l, 0) = [g \in Behind(l, 0) |-> Left(l, g) - Ahead(l, 0)]
  BY <1>1, <1>2, TimeLeftIs
<1>5. \A g \in Behind(m, 0) : Left(m, g) = Left(l, g)
  BY <1>1 DEF Behind
<1>6. TimeLeft(m, 0) = [g \in Behind(l, 0) \ {h} |-> Left(l, g) - 0]
  BY <1>2, <1>3, <1>4, <1>5
<1> DEFINE w == TimeLeft(l, 0)
<1>7. w = [g \in Behind(l, 0) |-> Left(l, g) - 0]
  BY <1>2, <1>4
<1> HIDE DEF w
<1>8. [g \in DOMAIN w \ {h} |-> w[g]] = [g \in Behind(l, 0) \ {h} |-> Left(l, g) - 0]
  BY <1>7
<1> QED BY <1>1, <1>6, <1>8 DEF w

Credit == diff - (IF Expired = 0 THEN 0 ELSE list[Expired].time)

\* How far the list is from what TimerService keeps.
LEMMA ExpiredIs ==
    ASSUME Inv
    PROVE  /\ list \in Seq(Timer) /\ Once(list) /\ diff \in Nat
           /\ Expired \in 0 .. Len(list)
           /\ pc # "unlink" => Expired = 0 /\ Credit = diff
           /\ pc = "unlink" => /\ Expired = Place(list, tmp) /\ Expired \in 1 .. Len(list) /\ InList(list, tmp)
                               /\ list[Expired].time \in Nat /\ list[Expired].time <= diff
                               /\ Credit = diff - list[Expired].time
           /\ Credit \in Nat
<1>1. list \in Seq(Timer) /\ Once(list) /\ diff \in Nat /\ Expiring
  BY SizesAre DEF Inv, Typed, Timer, Time
<1>2. CASE pc = "unlink"
  <2>1. PICK i \in 1 .. Len(list), t \in Nat : i = Place(list, tmp) /\ t = list[i].time /\ t <= diff /\ InList(list, tmp)
    <3>1. InList(list, tmp) /\ list[Place(list, tmp)].time <= diff BY <1>1, <1>2 DEF Expiring
    <3>2. PICK i \in 1 .. Len(list), t \in Nat : i = Place(list, tmp) /\ t = list[i].time
      BY <1>1, <3>1, LeftIs
    <3> QED BY <3>1, <3>2
  <2>2. Expired = i /\ i # 0 BY <1>2, <2>1 DEF Expired
  <2>3. Credit = diff - t BY <2>1, <2>2 DEF Credit
  <2>4. diff - t \in Nat BY <1>1, <2>1
  <2> QED BY <1>1, <1>2, <2>1, <2>2, <2>3, <2>4
<1>3. CASE pc # "unlink"
  <2>1. Expired = 0 BY <1>3 DEF Expired
  <2>2. Credit = diff BY <1>1, <2>1 DEF Credit
  <2>3. 0 \in 0 .. Len(list) BY <1>1, AheadIs
  <2> QED BY <1>1, <1>3, <2>1, <2>2, <2>3
<1> QED BY <1>2, <1>3

LEMMA CreditIs == Inv => diff \in Nat /\ Credit \in Nat
BY ExpiredIs

LEMMA ExpiredNot0 == Inv => (pc = "unlink" => Expired # 0)
BY ExpiredIs

LEMMA ServiceInit == Init => Service!Init
<1> SUFFICES ASSUME Init PROVE Service!Init
  OBVIOUS
<1>1. Inv BY InvInit
<1>2. pc = "idle" /\ diff = 0 /\ tmp = NoHandler BY DEF Init
<1>3. Expired = 0 /\ Credit = 0 /\ list \in Seq(Timer) /\ Once(list) /\ 0 \in 0 .. Len(list)
  BY <1>1, <1>2, ExpiredIs
<1>4. /\ TimeLeft(list, 0) = [g \in Behind(list, 0) |-> Left(list, g) - Ahead(list, 0)]
      /\ \A g \in Behind(list, 0) : Left(list, g) - Ahead(list, 0) \in Nat
  BY <1>3, TimeLeftIs
<1>5. Behind(list, 0) \subseteq Handlers BY DEF Behind
<1> DEFINE w == TimeLeft(list, 0)
<1>6. DOMAIN w \subseteq Handlers /\ w \in [DOMAIN w -> Nat]
  BY <1>4, <1>5
<1> HIDE DEF w
<1>7. TimeLeft(list, Expired) = w BY <1>3 DEF w
<1> QED BY <1>2, <1>3, <1>6, <1>7 DEF Service!Init, Service!Armed, Credit

\* Whatever is armed when nothing is being unlinked.
LEMMA ServiceArm ==
    ASSUME Inv, Inv', pc # "unlink", pc' # "unlink", NEW h \in Handlers, ~InList(list, h), Arm(h),
           diff' = diff, tmp' \in {tmp, NoHandler}
    PROVE  (Service!Arm(h) \/ Service!Return) \/ UNCHANGED Service!svars
<1> DEFINE w == TimeLeft(list, Expired)
           c == Credit
<1>1. Expired = 0 /\ c = diff /\ list \in Seq(Timer) /\ Once(list) BY ExpiredIs
<1>2. Expired' = 0 /\ c' = diff'
  <2>1. Expired' = 0 BY DEF Expired
  <2>2. diff' \in Nat BY <1>1, ExpiredIs
  <2> QED BY <2>1, <2>2 DEF Credit
<1>3. CASE free = 0
  <2>1. list' = list BY <1>3 DEF Arm
  <2>2. w' = w BY <1>1, <1>2, <2>1
  <2> QED BY <1>1, <1>2, <2>2 DEF Service!Return, Service!svars, Credit
<1>4. CASE free # 0
  <2>1. list' = Insert(list, h, Msecs[h]) /\ Msecs[h] \in Nat BY <1>4, SizesAre DEF Arm
  <2>2. PICK e \in 0 .. Len(list) : e = 0 /\ e <= Before(list, Msecs[h])
    <3>1. 0 \in 0 .. Len(list) BY <1>1, AheadIs
    <3>2. Before(list, Msecs[h]) \in 0 .. Len(list) BY <1>1, <2>1, BeforeIs
    <3> QED BY <3>1, <3>2
  <2>3. Joined(TimeLeft(Insert(list, h, Msecs[h]), e), TimeLeft(list, e), h)
    BY <1>1, <2>1, <2>2, ArmedLeft
  <2>4. w = TimeLeft(list, e) /\ w' = TimeLeft(Insert(list, h, Msecs[h]), e)
    BY <1>1, <1>2, <2>1, <2>2
  <2> HIDE DEF w
  <2>5. Joined(w', w, h) BY <2>3, <2>4
  <2>6. c' = c BY <1>1, <1>2
  <2> QED BY <2>5, <2>6 DEF Joined, Service!Arm, Service!Armed, w, Credit
<1> QED BY <1>3, <1>4

\* Every step on the list of differences is a step of TimerService, or none.
LEMMA ServiceStep ==
    ASSUME Inv, Inv', [Step]_timers
    PROVE  [Service!Next]_(Service!svars)
<1> DEFINE w == TimeLeft(list, Expired)
<1>1. /\ list \in Seq(Timer) /\ Once(list) /\ diff \in Nat /\ Expired \in 0 .. Len(list) /\ Credit \in Nat
      /\ pc # "unlink" => Expired = 0 /\ Credit = diff
      /\ pc = "unlink" => /\ Expired = Place(list, tmp) /\ Expired \in 1 .. Len(list) /\ InList(list, tmp)
                          /\ list[Expired].time \in Nat /\ list[Expired].time <= diff
                          /\ Credit = diff - list[Expired].time
  BY ExpiredIs
<1>2. /\ diff' \in Nat /\ Credit' \in Nat
      /\ pc' # "unlink" => Expired' = 0 /\ Credit' = diff'
      /\ pc' = "unlink" => Expired' = Place(list', tmp') /\ Credit' = diff' - list'[Expired'].time
  <2>1. diff' \in Nat /\ Credit' \in Nat
    <3>1. Inv' => (diff \in Nat /\ Credit \in Nat)' BY CreditIs, PTL
    <3> QED BY <3>1
  <2>2. pc' # "unlink" => Expired' = 0 /\ Credit' = diff'
    <3>1. pc' # "unlink" => Expired' = 0 BY DEF Expired
    <3>2. Expired' = 0 => Credit' = diff' - 0 BY DEF Credit
    <3>3. \A d \in Nat : d - 0 = d OBVIOUS
    <3>4. diff' - 0 = diff' BY <2>1, <3>3, Zenon
    <3> QED BY <3>1, <3>2, <3>4
  <2>3. pc' = "unlink" => Expired' = Place(list', tmp') BY DEF Expired
  <2>4. pc' = "unlink" => Credit' = diff' - list'[Expired'].time
    <3>1. ASSUME pc' = "unlink" PROVE Expired' # 0
      <4>1. (Inv => (pc = "unlink" => Expired # 0))' BY ExpiredNot0, PTL
      <4> QED BY <3>1, <4>1
    <3> QED BY <3>1 DEF Credit
  <2> QED BY <2>1, <2>2, <2>3, <2>4
<1>3. Expiring /\ TcpKnown
  BY DEF Inv
<1>4. ASSUME UNCHANGED <<list, diff, tmp, pc>> PROVE UNCHANGED Service!svars
  <2>1. Expired' = Expired BY <1>4 DEF Expired, Place
  <2>2. Credit' = Credit BY <1>4, <2>1 DEF Credit
  <2>3. w' = w BY <1>4, <2>1
  <2> QED BY <1>4, <2>2, <2>3 DEF Service!svars, Credit
<1>5. ASSUME pc # "unlink", pc' # "unlink", UNCHANGED <<list, tmp>> PROVE Service!Pass
  <2>1. w' = w BY <1>1, <1>2, <1>5
  <2> QED BY <1>2, <1>5, <2>1 DEF Service!Pass, Credit
<1>6. CASE UNCHANGED timers
  BY <1>4, <1>6 DEF timers
<1>7. CASE Look \/ Leave
  <2>1. pc # "unlink" /\ pc' # "unlink" /\ UNCHANGED <<list, tmp>> BY <1>7 DEF Look, Leave
  <2> QED BY <1>5, <2>1 DEF Service!Next
<1>8. CASE Test
  <2>1. /\ pc = "loop" /\ pc' = "unlink" /\ list # <<>> /\ Head(list).time <= diff /\ tmp' = Head(list).h
        /\ list' = list /\ diff' = diff
    BY <1>8 DEF Test
  <2>2. tmp = NoHandler BY <1>3, <2>1 DEF Expiring
  <2>3. PICK h \in Handlers : h = list[1].h /\ tmp' = h /\ list[1].time \in Nat /\ Head(list) = list[1] /\ 1 \in 1 .. Len(list)
    BY <1>1, <2>1, FirstIs
  <2>4. Place(list, h) = 1 BY <1>1, <2>3, PlaceOfItsHandler
  <2>5. Expired = 0 /\ Credit = diff BY <1>1, <2>1
  <2>6. Expired' = 1 /\ Credit' = diff - list[1].time
    <3>1. Place(list', tmp') = 1 BY <2>1, <2>3, <2>4
    <3>2. Expired' = 1 BY <1>2, <2>1, <3>1
    <3> QED BY <1>2, <2>1, <3>2
  <2>7. /\ h \in DOMAIN TimeLeft(list, 0) /\ TimeLeft(list, 0)[h] = list[1].time
        /\ \A g \in DOMAIN TimeLeft(list, 0) : TimeLeft(list, 0)[h] <= TimeLeft(list, 0)[g]
        /\ TimeLeft(list, 1) = [g \in DOMAIN TimeLeft(list, 0) \ {h} |-> TimeLeft(list, 0)[g] - TimeLeft(list, 0)[h]]
    BY <1>1, <2>1, <2>3, ExpiredLeft
  <2>8. w = TimeLeft(list, 0) /\ w' = TimeLeft(list, 1) BY <2>1, <2>5, <2>6
  <2> HIDE DEF w
  <2>9. /\ h \in DOMAIN w /\ w[h] = list[1].time
        /\ \A g \in DOMAIN w : w[h] <= w[g]
        /\ w' = [g \in DOMAIN w \ {h} |-> w[g] - w[h]]
    BY <2>7, <2>8
  <2>10. w[h] <= Credit /\ Credit' = Credit - w[h] BY <2>1, <2>3, <2>5, <2>6, <2>9
  <2>11. Service!Expire(h) BY <2>2, <2>3, <2>9, <2>10 DEF Service!Expire, Service!Armed, w, Credit
  <2> QED BY <2>11 DEF Service!Next
<1>9. CASE Unlink
  <2>1. /\ pc = "unlink" /\ pc' = "call" /\ tmp' = tmp
        /\ diff' = diff - list[Place(list, tmp)].time
        /\ list' = SubSeq(list, Place(list, tmp) + 1, Len(list))
    BY <1>9 DEF Unlink
  <2>2. Credit' = Credit /\ Expired' = 0 BY <1>1, <1>2, <2>1
  <2>3. list' = SubSeq(list, Expired + 1, Len(list)) BY <1>1, <2>1
  <2>4. w' = TimeLeft(SubSeq(list, Expired + 1, Len(list)), 0) BY <2>2, <2>3
  <2>5. TimeLeft(SubSeq(list, Expired + 1, Len(list)), 0) = w
    <3>1. PICK e \in 0 .. Len(list) : e = Expired BY <1>1
    <3>2. TimeLeft(SubSeq(list, e + 1, Len(list)), 0) = TimeLeft(list, e) BY <1>1, DroppedLeft
    <3> QED BY <3>1, <3>2
  <2>6. UNCHANGED Service!svars BY <2>1, <2>2, <2>4, <2>5 DEF Service!svars, Credit
  <2> QED BY <2>6
<1>10. CASE Call
  <2>1. pc = "call" /\ pc' = "loop" /\ tmp' = NoHandler /\ diff' = diff BY <1>10 DEF Call
  <2>2. tmp \in Handlers /\ ~InList(list, tmp)
    <3>1. tmp \in Handlers \cup {NoHandler} BY DEF Inv, Typed
    <3> QED BY <1>3, <2>1, <3>1 DEF Expiring
  <2>3. CASE Arm(tmp)
    <3>1. Service!Arm(tmp) \/ Service!Return \/ UNCHANGED Service!svars
      BY <2>1, <2>2, <2>3, ServiceArm
    <3> QED BY <2>2, <3>1 DEF Service!Next
  <2>4. CASE list' = list
    <3>1. w' = w BY <1>1, <1>2, <2>1, <2>4
    <3>2. Credit' = Credit BY <1>1, <1>2, <2>1
    <3>3. Service!Return BY <2>1, <3>1, <3>2 DEF Service!Return, Credit
    <3> QED BY <3>3 DEF Service!Next
  <2> QED BY <1>10, <2>3, <2>4 DEF Call
<1>11. CASE AppRestart
  <2>1. UNCHANGED <<list, diff, tmp, pc>> BY <1>11 DEF AppRestart
  <2> QED BY <1>4, <2>1
<1>12. ASSUME NEW h \in OneShot, AppTimeout(h) PROVE [Service!Next]_(Service!svars)
  <2>1. pc = "idle" /\ pc' = "idle" /\ ~InList(list, h) /\ Arm(h) /\ diff' = diff /\ tmp' = tmp
    BY <1>12 DEF AppTimeout
  <2>2. h \in Handlers BY DEF Handlers
  <2>3. Service!Arm(h) \/ Service!Return \/ UNCHANGED Service!svars
    BY <2>1, <2>2, ServiceArm
  <2> QED BY <2>2, <2>3 DEF Service!Next
<1>13. ASSUME NEW h \in OneShot, AppUntimeout(h) PROVE [Service!Next]_(Service!svars)
  <2>1. pc = "idle" /\ pc' = "idle" /\ list' = Remove(list, h) /\ diff' = diff /\ tmp' = tmp
    BY <1>13 DEF AppUntimeout
  <2>2. h \in Handlers BY DEF Handlers
  <2>3. Expired = 0 /\ Expired' = 0 /\ Credit' = Credit BY <1>1, <1>2, <2>1
  <2>4. CASE ~InList(list, h)
    <3>1. list' = list BY <2>1, <2>4 DEF Remove
    <3> QED BY <1>4, <2>1, <3>1
  <2>5. CASE InList(list, h)
    <3>1. TimeLeft(Remove(list, h), 0) = [g \in DOMAIN TimeLeft(list, 0) \ {h} |-> TimeLeft(list, 0)[g]]
      BY <1>1, <2>5, RemovedLeft
    <3>2. w = TimeLeft(list, 0) /\ w' = TimeLeft(Remove(list, h), 0) BY <2>1, <2>3
    <3> HIDE DEF w
    <3>3. w' = [g \in DOMAIN w \ {h} |-> w[g]] BY <3>1, <3>2
    <3>4. Service!Cancel(h) BY <2>1, <2>3, <3>3 DEF Service!Cancel, Service!Armed, w, Credit
    <3> QED BY <2>2, <3>4 DEF Service!Next
  <2> QED BY <2>4, <2>5
<1>14. CASE Tick \/ TcpGone
  <2>1. UNCHANGED <<list, diff, tmp, pc>> BY <1>14 DEF Tick, TcpGone
  <2> QED BY <1>4, <2>1
<1>15. CASE TcpOpen
  <2>1. pc' = pc /\ diff' = diff /\ tmp' = tmp BY <1>15 DEF TcpOpen
  <2>2. CASE list' = list
    BY <1>4, <2>1, <2>2
  <2>3. CASE list' # list
    <3>1. ~tcpActive /\ Arm(TcpTimer) /\ free # 0 BY <1>15, <2>3 DEF TcpOpen, Arm
    <3>2. TcpTimer \in Handlers /\ ~InList(list, TcpTimer) /\ Msecs[TcpTimer] \in Nat
      BY <1>3, <3>1, SizesAre DEF TcpKnown
    <3>3. CASE pc # "unlink"
      <4>1. Service!Arm(TcpTimer) \/ Service!Return \/ UNCHANGED Service!svars
        BY <2>1, <3>1, <3>2, <3>3, ServiceArm
      <4> QED BY <3>2, <4>1 DEF Service!Next
    <3>4. CASE pc = "unlink"
      <4> DEFINE h == TcpTimer
                 ms == Msecs[TcpTimer]
                 b == Before(list, ms)
                 m == Insert(list, h, ms)
      <4>1. list' = m BY <3>1 DEF Arm
      <4>2. PICK e \in 1 .. Len(list) : e = Expired /\ e = Place(list, tmp) /\ InList(list, tmp)
        BY <1>1, <3>4
      <4>3. h \in Handlers /\ ~InList(list, h) /\ ms \in Nat BY <3>2
      <4>4. Expired' = Place(m, tmp) BY <1>2, <2>1, <3>4, <4>1
      <4> HIDE DEF h, ms
      <4>5. b \in 0 .. Len(list) BY <1>1, <4>3, BeforeIs
      <4>6. Place(m, tmp) = IF e <= b THEN e ELSE e + 1
        <5>1. PICK n \in Seq(Timer) :
             /\ n = Insert(list, h, ms) /\ Len(n) = Len(list) + 1 /\ Once(n)
             /\ \A g : InList(n, g) <=> (g = h \/ InList(list, g))
             /\ Left(n, h) = ms /\ Place(n, h) = Before(list, ms) + 1
             /\ \A g : InList(list, g) => 
                  /\ Left(n, g) = Left(list, g)
                  /\ Place(n, g) = IF Place(list, g) <= Before(list, ms) THEN Place(list, g) ELSE Place(list, g) + 1
          BY <1>1, <4>3, InsertLeft
        <5> QED BY <4>2, <5>1
      <4>7. CASE e <= b
        <5>1. e \in 0 .. Len(list) OBVIOUS
        <5>2. Joined(TimeLeft(m, e), TimeLeft(list, e), h)
          BY <1>1, <4>3, <4>7, <5>1, ArmedLeft
        <5>3. Expired' = e BY <4>4, <4>6, <4>7
        <5>4. w = TimeLeft(list, e) /\ w' = TimeLeft(m, e) BY <4>1, <4>2, <5>3
        <5>5. m[Place(m, tmp)].time = list[Place(list, tmp)].time
          BY <1>1, <4>2, <4>3, <4>7, InsertTime
        <5>6. Credit' = Credit BY <1>1, <1>2, <2>1, <3>4, <4>1, <4>2, <4>4, <5>5
        <5> HIDE DEF w
        <5>7. Joined(w', w, h) BY <5>2, <5>4
        <5>8. Service!Arm(h) BY <2>1, <5>6, <5>7 DEF Joined, Service!Arm, Service!Armed, w, Credit
        <5> QED BY <4>3, <5>8 DEF Service!Next
      <4>8. CASE ~(e <= b)
        <5>1. b < e BY <4>5, <4>8
        <5>2. TimeLeft(m, e + 1) = TimeLeft(list, e)
          BY <1>1, <4>3, <5>1, ArmedBefore
        <5>3. Expired' = e + 1 BY <4>4, <4>6, <4>8
        <5>4. w' = w BY <4>1, <4>2, <5>2, <5>3
        <5>5. Service!Pass BY <1>2, <2>1, <5>4 DEF Service!Pass, Credit
        <5> QED BY <5>5 DEF Service!Next
      <4> QED BY <4>7, <4>8
    <3> QED BY <3>3, <3>4
  <2> QED BY <2>2, <2>3
<1> QED BY <1>6, <1>7, <1>8, <1>9, <1>10, <1>11, <1>12, <1>13, <1>14, <1>15 DEF Step, Check, App

\* The list of differences implements the timers' service: to arm or to cancel
\* a timer, from the main loop or from the interrupt, changes the time left to
\* no other timer, and timers expire in the order of the time left to them.
THEOREM Implements == Spec => ImplementsService
<1>1. Inv /\ Inv' /\ [Step]_timers => [Service!Next]_(Service!svars)
  BY ServiceStep
<1> QED BY <1>1, ServiceInit, NextIs, Invariance, PTL DEF Spec, ImplementsService, Service!Spec

----------------------------------------------------------------------------
(* The periodic handlers never run ahead of the clock. *)

\* The msecs that c calls of each handler stand for.
Done(c, h) == c[h] * Msecs[h]

\* The time that has passed since the moment the list counts from.
Elapsed == IF pc = "idle" THEN Since(last) ELSE Since(now) + diff

\* The history is still observed, and nothing was put before a timer being
\* unlinked.
Observed == ~torn /\ ticks # Horizon

HistoryTypes == ticks \in Nat /\ calls \in [Handlers -> Nat] /\ program \in Programs

\* timeouts_last_time is no further back than what diff stands for.
ClockKept ==
    /\ Since(now) <= MaxLag
    /\ pc # "idle" => Since(last) <= Since(now) + diff
    /\ pc \in {"unlink", "call"} => last = now

\* The timer of a periodic handler expires no earlier than its next period
\* ends; one being called does not come too early.
NoneEarly ==
    /\ pc = "unlink" => Place(list, tmp) = 1
    /\ \A h \in Periodic : InList(list, h) => Done(calls, h) + Msecs[h] + Elapsed <= ticks + Left(list, h)
    /\ pc = "call" /\ tmp \in Periodic => Done(calls, tmp) + Elapsed <= ticks
    /\ \A h \in Periodic : Done(calls, h) <= ticks

EarlyInv == Inv /\ HistoryTypes /\ ClockKept /\ (Observed => NoneEarly)

\* The time since t, for a clock that goes round.
LEMMA SinceIs ==
    ASSUME clock \in Time, NEW t \in Time
    PROVE  /\ Since(t) = IF t <= clock THEN clock - t ELSE (clock + TimeMod) - t
           /\ Since(t) \in Nat /\ Since(t) < TimeMod
<1>1. PICK m \in Nat \ {0} : m = TimeMod
  BY SizesAre
<1>2. PICK c \in 0 .. (m - 1) : c = clock
  BY <1>1 DEF Time
<1>3. PICK x \in 0 .. (m - 1) : x = t
  BY <1>1 DEF Time
<1>4. Since(t) = ((c + m) - x) % m
  BY <1>1, <1>2, <1>3 DEF Since
<1>5. (c + m) - x \in 0 .. (m + m - 1)
  OBVIOUS
<1>6. ((c + m) - x) % m = IF (c + m) - x < m THEN (c + m) - x ELSE ((c + m) - x) - m
  BY <1>5, OneRound
<1>7. ((c + m) - x) % m = (IF x <= c THEN c - x ELSE (c + m) - x) /\ (IF x <= c THEN c - x ELSE (c + m) - x) \in 0 .. (m - 1)
  <2>1. (c + m) - x < m <=> ~(x <= c) OBVIOUS
  <2>2. ((c + m) - x) - m = c - x OBVIOUS
  <2>3. (IF x <= c THEN c - x ELSE (c + m) - x) \in 0 .. (m - 1) OBVIOUS
  <2> QED BY <1>6, <2>1, <2>2, <2>3
<1>8. Since(t) \in 0 .. (m - 1)
  BY <1>4, <1>7
<1> QED BY <1>1, <1>2, <1>3, <1>4, <1>7, <1>8

LEMMA SinceClock ==
    ASSUME clock \in Time
    PROVE  Since(clock) = 0
<1>1. clock <= clock /\ clock - clock = 0
  BY SizesAre DEF Time
<1> QED BY <1>1, SinceIs

\* A tick adds one, unless the clock has come round to t.
LEMMA TickSince ==
    ASSUME clock \in Time, NEW t \in Time, clock' = (clock + 1) % TimeMod
    PROVE  (clock' + TimeMod - t) % TimeMod = IF Since(t) + 1 = TimeMod THEN 0 ELSE Since(t) + 1
<1>1. PICK m \in Nat \ {0, 1} : m = TimeMod
  BY SizesAre
<1>2. PICK c \in 0 .. (m - 1) : c = clock
  BY <1>1 DEF Time
<1>3. PICK x \in 0 .. (m - 1) : x = t
  BY <1>1 DEF Time
<1>4. Since(t) = IF x <= c THEN c - x ELSE (c + m) - x
  BY <1>1, <1>2, <1>3, SinceIs
<1>5. PICK d \in 0 .. (m - 1) : d = clock' /\ d = IF c + 1 < m THEN c + 1 ELSE 0
  <2>1. c + 1 \in 0 .. (m + m - 1) OBVIOUS
  <2>2. (c + 1) % m = IF c + 1 < m THEN c + 1 ELSE (c + 1) - m BY <2>1, OneRound
  <2>3. c + 1 < m \/ c + 1 = m OBVIOUS
  <2>4. (c + 1) % m = IF c + 1 < m THEN c + 1 ELSE 0 BY <2>2, <2>3
  <2>5. (IF c + 1 < m THEN c + 1 ELSE 0) \in 0 .. (m - 1) OBVIOUS
  <2> QED BY <1>1, <1>2, <2>4, <2>5
<1>6. ((d + m) - x) % m = IF (d + m) - x < m THEN (d + m) - x ELSE ((d + m) - x) - m
  <2>1. (d + m) - x \in 0 .. (m + m - 1) OBVIOUS
  <2> QED BY <2>1, OneRound
<1>7. PICK s \in Nat : s = Since(t) /\ s = IF x <= c THEN c - x ELSE (c + m) - x
  <2>1. (IF x <= c THEN c - x ELSE (c + m) - x) \in Nat OBVIOUS
  <2> QED BY <1>4, <2>1
<1>8. (IF (d + m) - x < m THEN (d + m) - x ELSE ((d + m) - x) - m) = IF s + 1 = m THEN 0 ELSE s + 1
  <2>1. d = (IF c + 1 < m THEN c + 1 ELSE 0) /\ s = (IF x <= c THEN c - x ELSE (c + m) - x)
    BY <1>5, <1>7
  <2> QED BY <2>1
<1> QED BY <1>1, <1>3, <1>5, <1>6, <1>7, <1>8

\* sys_timeout leaves the msecs of the other timers alone.
LEMMA ArmKeeps ==
    ASSUME list \in Seq(Timer), Once(list), NEW h \in Handlers, ~InList(list, h), Arm(h)
    PROVE  /\ \A g : InList(list, g) => InList(list', g) /\ Left(list', g) = Left(list, g)
           /\ \A g : InList(list', g) => InList(list, g) \/ g = h
           /\ free # 0 => /\ InList(list', h) /\ Left(list', h) = Msecs[h]
                          /\ Len(list') = Len(list) + 1 /\ free' = free - 1
           /\ free = 0 => list' = list /\ free' = free
<1>1. CASE free = 0
  BY <1>1 DEF Arm
<1>2. CASE free # 0
  <2>1. list' = Insert(list, h, Msecs[h]) /\ Msecs[h] \in Nat /\ free' = free - 1 BY <1>2, SizesAre DEF Arm
  <2>2. PICK m \in Seq(Timer) :
             /\ m = Insert(list, h, Msecs[h]) /\ Len(m) = Len(list) + 1 /\ Once(m)
             /\ \A g : InList(m, g) <=> (g = h \/ InList(list, g))
             /\ Left(m, h) = Msecs[h] /\ Place(m, h) = Before(list, Msecs[h]) + 1
             /\ \A g : InList(list, g) => 
                  /\ Left(m, g) = Left(list, g)
                  /\ Place(m, g) = IF Place(list, g) <= Before(list, Msecs[h]) THEN Place(list, g) ELSE Place(list, g) + 1
    BY <2>1, InsertLeft
  <2>3. list' = m BY <2>1, <2>2
  <2> QED BY <1>2, <2>1, <2>2, <2>3
<1> QED BY <1>1, <1>2

\* How each step moves the moment the list counts from.
LEMMA ElapsedStep ==
    ASSUME Inv, ClockKept, Step
    PROVE  /\ ClockKept' /\ Elapsed \in Nat /\ Elapsed' \in Nat
           /\ Tick => Elapsed' <= Elapsed + 1
           /\ Unlink => Elapsed' = Elapsed - list[Place(list, tmp)].time
           /\ ~Tick /\ ~Unlink => Elapsed' <= Elapsed
           /\ ~Tick /\ ~Unlink /\ ~Leave /\ last' = last => Elapsed' = Elapsed
           /\ Test => Elapsed' = Elapsed
<1>1. /\ clock \in Time /\ last \in Time /\ now \in Time /\ diff \in Nat
      /\ Expiring /\ list \in Seq(Timer) /\ Once(list)
  BY SizesAre DEF Inv, Typed, Time, Timer
<1>2. PICK m \in Nat \ {0, 1}, lag \in Nat : m = TimeMod /\ lag = MaxLag /\ lag < m
  BY SizesAre
<1>3. PICK sn \in Nat, sl \in Nat : sn = Since(now) /\ sl = Since(last) /\ sn < m /\ sl < m
  BY <1>1, <1>2, SinceIs
<1>4. /\ sn <= lag /\ (pc # "idle" => sl <= sn + diff)
      /\ pc \in {"unlink", "call"} => last = now
  BY <1>2, <1>3 DEF ClockKept
<1>5. Elapsed = IF pc = "idle" THEN sl ELSE sn + diff
  BY <1>3 DEF Elapsed
<1>6. Elapsed \in Nat
  <2>1. sn + diff \in Nat BY <1>1
  <2> QED BY <1>5, <2>1
<1>7. ASSUME clock' = clock PROVE /\ now' = now => Since(now)' = sn
                                  /\ last' = last => Since(last)' = sl
                                  /\ now' = clock => Since(now)' = 0
                                  /\ last' = clock => Since(last)' = 0
                                  /\ last' = now => Since(last)' = sn
  <2>1. Since(clock) = 0 BY <1>1, SinceClock
  <2> QED BY <1>3, <1>7, <2>1 DEF Since
<1>8. CASE Look
  <2>1. pc = "idle" /\ pc' = "loop" /\ now' = clock /\ diff' = sl /\ last' = last /\ clock' = clock
    BY <1>3, <1>8 DEF Look
  <2>2. Since(now)' = 0 /\ Since(last)' = sl BY <1>7, <2>1
  <2>3. Elapsed' = 0 + sl BY <2>1, <2>2 DEF Elapsed
  <2>4. 0 <= lag /\ sl <= 0 + sl /\ 0 + sl = sl OBVIOUS
  <2>5. ClockKept' BY <1>2, <2>1, <2>2, <2>4 DEF ClockKept
  <2>6. ~Unlink /\ ~Tick /\ ~Leave /\ ~Test
    BY <2>1 DEF Unlink, Leave, Test, Tick
  <2> QED BY <1>5, <1>6, <2>1, <2>3, <2>4, <2>5, <2>6
<1>9. CASE Test
  <2>1. pc = "loop" /\ pc' = "unlink" /\ now' = now /\ diff' = diff /\ last' = now /\ clock' = clock
    BY <1>9 DEF Test
  <2>2. Since(now)' = sn /\ Since(last)' = sn BY <1>7, <2>1
  <2>3. Elapsed' = sn + diff BY <2>1, <2>2 DEF Elapsed
  <2>4. sn <= sn + diff /\ sn + diff <= sn + diff /\ sn + diff \in Nat BY <1>1
  <2>5. ClockKept' BY <1>2, <1>4, <2>1, <2>2, <2>4 DEF ClockKept
  <2>6. ~Unlink /\ ~Tick
    BY <2>1 DEF Unlink, Tick
  <2> QED BY <1>5, <1>6, <2>1, <2>3, <2>4, <2>5, <2>6
<1>10. CASE Unlink
  <2>1. /\ pc = "unlink" /\ pc' = "call" /\ now' = now /\ last' = last /\ clock' = clock
        /\ diff' = diff - list[Place(list, tmp)].time
    BY <1>10 DEF Unlink
  <2>2. PICK t \in Nat : t = list[Place(list, tmp)].time /\ t <= diff
    <3>1. InList(list, tmp) /\ list[Place(list, tmp)].time <= diff BY <1>1, <2>1 DEF Expiring
    <3> QED BY <1>1, <3>1, LeftIs
  <2>3. Since(now)' = sn /\ Since(last)' = sl /\ sl = sn BY <1>3, <1>4, <1>7, <2>1
  <2>4. Elapsed' = sn + (diff - t) /\ diff' = diff - t BY <2>1, <2>2, <2>3 DEF Elapsed
  <2>5. /\ sn <= sn + (diff - t) /\ sn + (diff - t) = (sn + diff) - t /\ sn + (diff - t) \in Nat
        /\ sn + (diff - t) <= sn + diff
    BY <1>1, <2>2
  <2>6. ClockKept' BY <1>2, <1>4, <2>1, <2>3, <2>4, <2>5 DEF ClockKept
  <2>7. ~Tick /\ ~Test
    BY <2>1 DEF Tick, Test
  <2> QED BY <1>5, <1>6, <1>10, <2>1, <2>2, <2>4, <2>5, <2>6, <2>7
<1>11. CASE Leave
  <2>1. pc = "loop" /\ pc' = "idle" /\ now' = now /\ last' = last /\ clock' = clock BY <1>11 DEF Leave
  <2>2. Since(now)' = sn /\ Since(last)' = sl BY <1>7, <2>1
  <2>3. Elapsed' = sl /\ Elapsed = sn + diff BY <1>5, <2>1, <2>2 DEF Elapsed
  <2>4. sl <= sn + diff BY <1>4, <2>1
  <2>5. ClockKept' BY <1>2, <1>4, <2>1, <2>2 DEF ClockKept
  <2>6. ~Tick /\ ~Test /\ ~Unlink
    BY <2>1 DEF Tick, Test, Unlink
  <2> QED BY <1>6, <1>11, <2>3, <2>4, <2>5, <2>6
<1>12. CASE Tick
  <2>1. /\ UNCHANGED <<pc, now, last, diff>> /\ clock' = (clock + 1) % TimeMod /\ sn < lag
    BY <1>2, <1>3, <1>12 DEF Tick
  <2>2. Since(now)' = sn + 1
    <3>1. Since(now)' = IF sn + 1 = m THEN 0 ELSE sn + 1 BY <1>1, <1>2, <1>3, <2>1, TickSince DEF Since
    <3>2. sn + 1 # m BY <1>2, <2>1
    <3> QED BY <3>1, <3>2
  <2>3. PICK k \in Nat : k = Since(last)' /\ k <= sl + 1
    <3>1. Since(last)' = IF sl + 1 = m THEN 0 ELSE sl + 1 BY <1>1, <1>2, <1>3, <2>1, TickSince DEF Since
    <3>2. (IF sl + 1 = m THEN 0 ELSE sl + 1) \in Nat /\ (IF sl + 1 = m THEN 0 ELSE sl + 1) <= sl + 1
      OBVIOUS
    <3> QED BY <3>1, <3>2
  <2>4. Elapsed' = IF pc = "idle" THEN k ELSE (sn + 1) + diff BY <2>1, <2>2, <2>3 DEF Elapsed
  <2>5. pc # "idle" => k <= (sn + 1) + diff BY <1>1, <1>4, <2>3
  <2>6. ClockKept'
    <3>1. sn + 1 <= lag BY <2>1
    <3> QED BY <1>2, <1>4, <2>1, <2>2, <2>3, <2>5, <3>1 DEF ClockKept
  <2>7. ~Test /\ ~Unlink
    <3>1. pc' = pc BY <2>1
    <3> QED BY <3>1 DEF Test, Unlink
  <2>8. (sn + 1) + diff \in Nat /\ (sn + 1) + diff <= (sn + diff) + 1 BY <1>1
  <2>9. Elapsed' \in Nat /\ Elapsed' <= Elapsed + 1 BY <1>5, <2>3, <2>4, <2>8
  <2> QED BY <1>6, <1>12, <2>6, <2>7, <2>9
<1>13. CASE AppRestart
  <2>1. pc = "idle" /\ pc' = "idle" /\ now' = now /\ last' = clock /\ clock' = clock BY <1>13 DEF AppRestart
  <2>2. Since(now)' = sn /\ Since(last)' = 0 BY <1>7, <2>1
  <2>3. Elapsed' = 0 /\ Elapsed = sl BY <1>5, <2>1, <2>2 DEF Elapsed
  <2>4. ClockKept' BY <1>2, <1>4, <2>1, <2>2 DEF ClockKept
  <2>5. ~Test /\ ~Unlink /\ 0 <= sl
    BY <2>1 DEF Test, Unlink
  <2>6. last' = last => sl = 0
    <3>1. Since(clock) = 0 BY <1>1, SinceClock
    <3> QED BY <1>3, <2>1, <3>1
  <2>7. ~Tick \/ Elapsed' <= Elapsed + 1 BY <2>3
  <2> QED BY <1>6, <2>3, <2>4, <2>5, <2>6, <2>7
<1>14. CASE Call \/ TcpOpen \/ TcpGone \/ \E h \in OneShot : AppTimeout(h) \/ AppUntimeout(h)
  <2>1. /\ UNCHANGED <<now, last, clock, diff>>
        /\ pc' = pc \/ (pc = "call" /\ pc' = "loop")
    BY <1>14 DEF Call, TcpOpen, TcpGone, AppTimeout, AppUntimeout
  <2>2. Since(now)' = sn /\ Since(last)' = sl BY <1>7, <2>1
  <2>3. Elapsed' = Elapsed BY <1>5, <2>1, <2>2 DEF Elapsed
  <2>4. ClockKept'
    <3>1. pc' # "idle" => pc # "idle" BY <2>1
    <3>2. pc' \in {"unlink", "call"} => pc' = pc BY <2>1
    <3> QED BY <1>2, <1>4, <2>1, <2>2, <3>1, <3>2 DEF ClockKept
  <2>5. ~Unlink /\ ~Test
    BY <2>1 DEF Unlink, Test
  <2>6. Elapsed <= Elapsed /\ Elapsed <= Elapsed + 1 BY <1>6
  <2> QED BY <1>6, <2>3, <2>4, <2>5, <2>6
<1> QED BY <1>8, <1>9, <1>10, <1>11, <1>12, <1>13, <1>14 DEF Step, Check, App

LEMMA OnceMore ==
    ASSUME NEW c \in Nat, NEW k \in Nat
    PROVE  c * k \in Nat /\ (c + 1) * k = c * k + k
OBVIOUS

LEMMA DoneIs ==
    ASSUME HistoryTypes, NEW h \in Handlers
    PROVE  /\ calls[h] \in Nat /\ Msecs[h] \in Nat /\ Done(calls, h) \in Nat
           /\ (calls[h] + 1) * Msecs[h] = Done(calls, h) + Msecs[h]
<1>1. calls[h] \in Nat /\ Msecs[h] \in Nat
  BY SizesAre DEF HistoryTypes
<1>2. PICK c \in Nat, k \in Nat : c = calls[h] /\ k = Msecs[h]
  BY <1>1
<1>3. c * k \in Nat /\ (c + 1) * k = c * k + k
  BY OnceMore
<1> QED BY <1>1, <1>2, <1>3 DEF Done

\* SysTick always moves the clock.
LEMMA TickMoves ==
    ASSUME clock \in Time, Tick
    PROVE  clock' # clock
<1>1. PICK m \in Nat \ {0, 1} : m = TimeMod BY SizesAre
<1>2. PICK c \in 0 .. (m - 1) : c = clock BY <1>1 DEF Time
<1>3. c + 1 \in 0 .. (m + m - 1) OBVIOUS
<1>4. (c + 1) % m = IF c + 1 < m THEN c + 1 ELSE (c + 1) - m BY <1>3, OneRound
<1>5. (IF c + 1 < m THEN c + 1 ELSE (c + 1) - m) # c OBVIOUS
<1>6. clock' = (c + 1) % m BY <1>1, <1>2 DEF Tick
<1> QED BY <1>2, <1>4, <1>5, <1>6

\* A step of the timers, with what the history records of it.
Watches == Step /\ Recorded

\* What the history records of a step while it is observed.
LEMMA HistoryIs ==
    ASSUME Inv, HistoryTypes, Watches
    PROVE  /\ HistoryTypes'
           /\ Observed' =>
                /\ Observed
                /\ ticks' = IF Tick THEN ticks + 1 ELSE ticks
                /\ calls' = IF Unlink THEN [calls EXCEPT ![tmp] = @ + 1] ELSE calls
                /\ pc = "unlink" /\ pc' = "unlink" => list' = list
                /\ ~late' => ~late /\ ~Lags /\ ~SetBack /\ \A h \in Handlers : ~ArmedDue(h)
<1>1. /\ Step /\ ticks \in Nat /\ calls \in [Handlers -> Nat] /\ program \in Programs
      /\ clock \in Time /\ tmp \in Handlers \cup {NoHandler}
      /\ pc \in {"unlink", "call"} <=> tmp # NoHandler
  BY DEF Watches, Recorded, HistoryTypes, Inv, Typed, Expiring
<1>2. ticks' = IF clock' = clock \/ ticks = Horizon THEN ticks ELSE ticks + 1
  BY DEF Watches, Recorded
<1>3. CASE ticks' = Horizon
  <2>1. calls' = NoCalls BY <1>3 DEF Watches, Recorded
  <2>2. calls' \in [Handlers -> Nat] BY <2>1 DEF NoCalls
  <2>3. program' = program
    BY <1>1 DEF Step, Check, App, Look, Test, Unlink, Call, Leave, AppRestart, AppTimeout, AppUntimeout,
                Tick, TcpOpen, TcpGone, tcpVars
  <2>4. HistoryTypes' BY <1>1, <1>2, <2>2, <2>3 DEF HistoryTypes
  <2> QED BY <1>3, <2>4 DEF Observed
<1>4. CASE ticks' # Horizon
  <2>1. /\ calls' = IF pc = "unlink" /\ pc' = "call" THEN [calls EXCEPT ![tmp] = @ + 1] ELSE calls
        /\ torn' = (torn \/ (pc = "unlink" /\ pc' = "unlink" /\ list' # list))
        /\ late' = (late \/ Lags \/ SetBack \/ \E h \in Handlers : ArmedDue(h))
    BY <1>4 DEF Watches, Recorded
  <2>2. ticks # Horizon BY <1>2, <1>4
  <2>3. Unlink <=> pc = "unlink" /\ pc' = "call"
    <3>1. Unlink => pc = "unlink" /\ pc' = "call" BY DEF Unlink
    <3>2. pc = "unlink" /\ pc' = "call" => Unlink
      BY <1>1 DEF Step, Check, App, Look, Test, Call, Leave, AppRestart, AppTimeout, AppUntimeout,
                  Tick, TcpOpen, TcpGone
    <3> QED BY <3>1, <3>2
  <2>4. Tick <=> clock' # clock
    <3>1. clock' # clock => Tick
      BY <1>1 DEF Step, Check, App, Look, Test, Unlink, Call, Leave, AppRestart, AppTimeout, AppUntimeout,
                  TcpOpen, TcpGone
    <3>2. Tick => clock' # clock BY <1>1, TickMoves
    <3> QED BY <3>1, <3>2
  <2>5. program' = program
    BY <1>1 DEF Step, Check, App, Look, Test, Unlink, Call, Leave, AppRestart, AppTimeout, AppUntimeout,
                Tick, TcpOpen, TcpGone, tcpVars
  <2>6. HistoryTypes'
    <3>1. ticks' \in Nat BY <1>1, <1>2
    <3>2. calls' \in [Handlers -> Nat]
      <4>1. CASE Unlink
        <5>1. tmp \in Handlers BY <1>1, <2>3, <4>1
        <5>2. calls' = [calls EXCEPT ![tmp] = @ + 1] BY <2>1, <2>3, <4>1
        <5>3. calls[tmp] + 1 \in Nat BY <1>1, <5>1
        <5> QED BY <1>1, <5>2, <5>3
      <4>2. CASE ~Unlink BY <1>1, <2>1, <2>3, <4>2
      <4> QED BY <4>1, <4>2
    <3> QED BY <1>1, <2>5, <3>1, <3>2 DEF HistoryTypes
  <2>7. ticks' = IF Tick THEN ticks + 1 ELSE ticks BY <1>2, <2>2, <2>4
  <2>8. calls' = IF Unlink THEN [calls EXCEPT ![tmp] = @ + 1] ELSE calls BY <2>1, <2>3
  <2>9. Observed' => Observed BY <2>1, <2>2 DEF Observed
  <2>10. Observed' /\ pc = "unlink" /\ pc' = "unlink" => list' = list BY <2>1 DEF Observed
  <2>11. ~late' => ~late /\ ~Lags /\ ~SetBack /\ \A h \in Handlers : ~ArmedDue(h) BY <2>1
  <2> QED BY <2>6, <2>7, <2>8, <2>9, <2>10, <2>11
<1> QED BY <1>3, <1>4

\* While nothing is put before it, the first timer is the one unlinked.
LEMMA FirstUnlinked ==
    ASSUME list \in Seq(Timer), Once(list), Unlink, InList(list, tmp), Place(list, tmp) = 1
    PROVE  /\ list[1].time \in Nat /\ list[1].time = Left(list, tmp)
           /\ diff' = diff - list[1].time
           /\ Len(list') = Len(list) - 1 /\ Len(list) \in Nat \ {0}
           /\ \A g : InList(list', g) <=> InList(list, g) /\ g # tmp
           /\ \A g : InList(list', g) => Left(list', g) = Left(list, g) - list[1].time
           /\ \A g : InList(list, g) => Left(list, g) \in Nat /\ list[1].time <= Left(list, g)
<1>1. PICK i \in 1 .. Len(list) : i = 1 /\ list[i].h = tmp /\ i \in 0 .. Len(list)
  BY PlaceIs
<1>2. Len(list) \in Nat \ {0} /\ list # <<>>
  <2>1. Len(list) \in Nat BY AheadIs
  <2> QED BY <1>1, <2>1
<1>3. list[1].time \in Nat /\ Ahead(list, 1) = list[1].time
  BY <1>2, FirstIs
<1>4. list' = SubSeq(list, i + 1, Len(list)) /\ diff' = diff - list[1].time
  BY <1>1 DEF Unlink
<1>5. PICK m \in Seq(Timer) :
         /\ m = SubSeq(list, i + 1, Len(list)) /\ Len(m) = Len(list) - i /\ Once(m)
         /\ \A g : InList(m, g) <=> (InList(list, g) /\ Place(list, g) > i)
         /\ \A g : InList(m, g) => Left(m, g) = Left(list, g) - Ahead(list, i)
  BY <1>1, DropLeft
<1>6. ASSUME NEW g, InList(list, g)
      PROVE  (Place(list, g) > i <=> g # tmp) /\ Left(list, g) \in Nat /\ list[1].time <= Left(list, g)
  <2>1. PICK j \in 1 .. Len(list) : j = Place(list, g) /\ list[j].h = g /\ Left(list, g) = Ahead(list, j) /\ Left(list, g) \in Nat
    BY <1>6, LeftIs
  <2>2. j > i <=> j # 1 BY <1>1
  <2>3. j # 1 <=> g # tmp BY <1>1, <2>1 DEF Once
  <2>4. j \in 0 .. Len(list) /\ i <= j BY <1>1
  <2>5. Ahead(list, i) <= Ahead(list, j) BY <1>1, <2>4, AheadIs
  <2> QED BY <1>1, <1>3, <2>1, <2>2, <2>3, <2>5
<1>7. Left(list, tmp) = list[1].time
  BY <1>3 DEF Left
<1> QED BY <1>1, <1>2, <1>3, <1>4, <1>5, <1>6, <1>7

LEMMA EarlyStep ==
    ASSUME EarlyInv, Inv', [Watches]_<<timers, history>>
    PROVE  EarlyInv'
<1>1. CASE UNCHANGED <<timers, history>>
  <2>1. HistoryTypes' BY <1>1 DEF EarlyInv, HistoryTypes, timers, history, tcpVars
  <2>2. ClockKept' BY <1>1 DEF EarlyInv, ClockKept, timers, Since
  <2>3. Observed' => Observed BY <1>1 DEF Observed, history
  <2>4. Elapsed' = Elapsed BY <1>1 DEF Elapsed, timers, Since
  <2>5. /\ \A h : (InList(list, h)' <=> InList(list, h)) /\ Left(list, h)' = Left(list, h) /\ Done(calls', h) = Done(calls, h)
        /\ Place(list, tmp)' = Place(list, tmp) /\ Done(calls', tmp') = Done(calls, tmp)
    BY <1>1 DEF timers, history, InList, Left, Place, Done
  <2>6. NoneEarly => NoneEarly' BY <1>1, <2>4, <2>5 DEF NoneEarly, timers, history
  <2> QED BY <2>1, <2>2, <2>3, <2>6 DEF EarlyInv
<1>2. CASE Watches
  <2>1. /\ Inv /\ HistoryTypes /\ ClockKept /\ Step
    BY <1>2 DEF EarlyInv, Watches, Recorded
  <2>2. /\ HistoryTypes'
        /\ Observed' =>
             /\ Observed
             /\ ticks' = IF Tick THEN ticks + 1 ELSE ticks
             /\ calls' = IF Unlink THEN [calls EXCEPT ![tmp] = @ + 1] ELSE calls
             /\ pc = "unlink" /\ pc' = "unlink" => list' = list
    BY <1>2, <2>1, HistoryIs
  <2>3. /\ ClockKept' /\ Elapsed \in Nat /\ Elapsed' \in Nat
        /\ Tick => Elapsed' <= Elapsed + 1
        /\ Unlink => Elapsed' = Elapsed - list[Place(list, tmp)].time
        /\ ~Tick /\ ~Unlink => Elapsed' <= Elapsed
    BY <2>1, ElapsedStep
  <2> SUFFICES ASSUME Observed' PROVE NoneEarly'
    BY <2>2, <2>3 DEF EarlyInv
  <2>4. /\ Observed /\ NoneEarly
        /\ ticks' = IF Tick THEN ticks + 1 ELSE ticks
        /\ calls' = IF Unlink THEN [calls EXCEPT ![tmp] = @ + 1] ELSE calls
        /\ pc = "unlink" /\ pc' = "unlink" => list' = list
    BY <2>2 DEF EarlyInv
  <2>5. /\ list \in Seq(Timer) /\ Once(list) /\ Expiring /\ TcpKnown /\ ticks \in Nat
        /\ tmp \in Handlers \cup {NoHandler} /\ ticks' \in Nat /\ diff \in Nat /\ clock \in Time
    BY <2>1, <2>2, SizesAre DEF Inv, Typed, Timer, HistoryTypes, Time
  <2>6. \A h \in Handlers : Done(calls, h) \in Nat /\ Msecs[h] \in Nat /\ Msecs[h] # 0
    BY <2>1, DoneIs, SizesAre
  <2>7. \A h : InList(list, h) => h \in Handlers /\ Left(list, h) \in Nat
    BY <2>5, LeftIs
  <2>8. Periodic \subseteq Handlers /\ TcpTimer \notin Periodic
    BY HandlerAssumption DEF Handlers
  <2>9. PICK t \in Nat, u \in Nat, e \in Nat, f \in Nat : t = ticks /\ u = ticks' /\ e = Elapsed /\ f = Elapsed'
    BY <2>3, <2>5
  <2>10. /\ pc = "unlink" => Place(list, tmp) = 1
         /\ \A h \in Periodic : InList(list, h) => Done(calls, h) + Msecs[h] + e <= t + Left(list, h)
         /\ pc = "call" /\ tmp \in Periodic => Done(calls, tmp) + e <= t
         /\ \A h \in Periodic : Done(calls, h) <= t
    BY <2>4, <2>9 DEF NoneEarly
  <2>11. SUFFICES
           /\ pc' = "unlink" => Place(list', tmp') = 1
           /\ \A h \in Periodic : InList(list', h) => Done(calls', h) + Msecs[h] + f <= u + Left(list', h)
           /\ pc' = "call" /\ tmp' \in Periodic => Done(calls', tmp') + f <= u
           /\ \A h \in Periodic : Done(calls', h) <= u
    BY <2>9 DEF NoneEarly, InList, Left, Place, Done
  <2> HIDE DEF Done, Elapsed, Left, InList, Place
  \* Steps that call no handler and move no timer of a periodic one.
  <2>12. ASSUME ~Unlink, t + f <= u + e, t <= u
         PROVE  /\ \A h \in Periodic : InList(list, h) /\ Left(list', h) = Left(list, h) =>
                      Done(calls', h) + Msecs[h] + f <= u + Left(list', h)
                /\ \A h \in Periodic : Done(calls', h) <= u
                /\ \A h \in Periodic : Done(calls', h) = Done(calls, h)
                /\ tmp \in Periodic /\ Done(calls, tmp) + e <= t => Done(calls', tmp) + f <= u
    <3>1. \A h : Done(calls', h) = Done(calls, h) BY <2>4, <2>12 DEF Done
    <3>2. ASSUME NEW h \in Periodic, InList(list, h), Left(list', h) = Left(list, h)
          PROVE  Done(calls', h) + Msecs[h] + f <= u + Left(list', h)
      <4>1. Done(calls, h) + Msecs[h] + e <= t + Left(list, h)
        BY <2>10, <3>2
      <4>2. PICK d \in Nat, k \in Nat, x \in Nat : d = Done(calls, h) /\ k = Msecs[h] /\ x = Left(list, h)
        BY <2>6, <2>7, <2>8, <3>2
      <4>3. d + k + e <= t + x BY <4>1, <4>2
      <4>4. d + k + f <= u + x BY <2>12, <4>3
      <4> QED BY <3>1, <3>2, <4>2, <4>4
    <3>3. ASSUME NEW h \in Periodic PROVE Done(calls', h) <= u
      <4>1. PICK d \in Nat : d = Done(calls, h) /\ d <= t BY <2>6, <2>8, <2>10
      <4>2. d <= u BY <2>12, <4>1
      <4> QED BY <3>1, <4>1, <4>2
    <3>4. ASSUME tmp \in Periodic, Done(calls, tmp) + e <= t PROVE Done(calls', tmp) + f <= u
      <4>1. PICK d \in Nat : d = Done(calls, tmp)
        BY <2>6, <2>8, <3>4
      <4>2. d + e <= t BY <3>4, <4>1
      <4>3. d + f <= u BY <2>12, <4>2
      <4> QED BY <3>1, <4>1, <4>3
    <3> QED BY <3>1, <3>2, <3>3, <3>4
  <2>13. ASSUME clock' = clock, ~Unlink PROVE u = t /\ t + f <= u + e /\ t <= u
    <3>1. ~Tick BY <2>5, <2>13, TickMoves
    <3>2. f <= e /\ u = t BY <2>3, <2>4, <2>9, <2>13, <3>1
    <3> QED BY <3>2
  <2>14. ASSUME list' = list, ~Unlink, t + f <= u + e, t <= u,
                pc' = "unlink" => pc = "unlink" /\ tmp' = tmp, pc' = "call" => pc = "call" /\ tmp' = tmp
         PROVE  /\ pc' = "unlink" => Place(list', tmp') = 1
                /\ \A h \in Periodic : InList(list', h) => Done(calls', h) + Msecs[h] + f <= u + Left(list', h)
                /\ pc' = "call" /\ tmp' \in Periodic => Done(calls', tmp') + f <= u
                /\ \A h \in Periodic : Done(calls', h) <= u
    BY <2>10, <2>12, <2>14
  <2>15. CASE Look \/ Leave \/ AppRestart \/ TcpGone
    <3>1. /\ list' = list /\ tmp' = tmp /\ ~Unlink /\ clock' = clock
          /\ pc' = "unlink" => pc = "unlink"
          /\ pc' = "call" => pc = "call"
      <4>1. CASE Look BY <4>1 DEF Look, Unlink
      <4>2. CASE Leave BY <4>2 DEF Leave, Unlink
      <4>3. CASE AppRestart BY <4>3 DEF AppRestart, Unlink
      <4>4. CASE TcpGone BY <4>4 DEF TcpGone, Unlink
      <4> QED BY <2>15, <4>1, <4>2, <4>3, <4>4
    <3> QED BY <2>13, <2>14, <3>1
  <2>16. CASE Tick
    <3>1. /\ list' = list /\ tmp' = tmp /\ pc' = pc /\ ~Unlink
      BY <2>16 DEF Tick, Unlink
    <3>2. u = t + 1 /\ f <= e + 1 BY <2>3, <2>4, <2>9, <2>16
    <3>3. t + f <= u + e /\ t <= u BY <3>2
    <3> QED BY <2>14, <3>1, <3>3
  <2>17. CASE Test
    <3>1. /\ list' = list /\ pc' = "unlink" /\ tmp' = Head(list).h /\ list # <<>> /\ ~Unlink /\ clock' = clock
      BY <2>17 DEF Test, Unlink
    <3>2. Place(list', tmp') = 1
      <4>1. 1 \in 1 .. Len(list) /\ Head(list) = list[1] BY <2>5, <3>1, FirstIs
      <4>2. Place(list, list[1].h) = 1 BY <2>5, <4>1, PlaceOfItsHandler
      <4> QED BY <3>1, <4>1, <4>2
    <3>3. \A h \in Periodic : InList(list', h) => Done(calls', h) + Msecs[h] + f <= u + Left(list', h)
      BY <2>12, <2>13, <3>1
    <3> QED BY <2>12, <2>13, <3>1, <3>2, <3>3
  <2>18. CASE Unlink
    <3>1. /\ pc = "unlink" /\ pc' = "call" /\ tmp' = tmp /\ clock' = clock BY <2>18 DEF Unlink
    <3>2. InList(list, tmp) /\ Place(list, tmp) = 1 /\ tmp \in Handlers
      BY <2>5, <2>7, <2>10, <3>1 DEF Expiring
    <3>3. PICK x \in Nat :
             /\ x = list[1].time /\ x = Left(list, tmp)
             /\ \A g : InList(list', g) <=> InList(list, g) /\ g # tmp
             /\ \A g : InList(list', g) => Left(list', g) = Left(list, g) - x
             /\ \A g : InList(list, g) => Left(list, g) \in Nat /\ x <= Left(list, g)
      BY <2>5, <2>18, <3>2, FirstUnlinked
    <3>4. u = t /\ f = e - x BY <2>3, <2>4, <2>5, <2>9, <2>18, <3>1, <3>2, <3>3, TickMoves
    <3>5. \A h : h # tmp => Done(calls', h) = Done(calls, h)
      BY <2>1, <2>4, <2>18 DEF Done, HistoryTypes
    <3>6. ASSUME tmp \in Periodic
          PROVE  Done(calls', tmp) = Done(calls, tmp) + Msecs[tmp] /\ Done(calls, tmp) + Msecs[tmp] + f <= u /\ Done(calls, tmp) + Msecs[tmp] <= u
      <4>1. Done(calls', tmp) = (calls[tmp] + 1) * Msecs[tmp]
        BY <2>1, <2>4, <2>18, <3>1, <3>2 DEF Done, HistoryTypes
      <4>2. Done(calls, tmp) + Msecs[tmp] + e <= t + Left(list, tmp)
        BY <2>10, <3>2, <3>6
      <4>3. PICK d \in Nat, k \in Nat : d = Done(calls, tmp) /\ k = Msecs[tmp]
        BY <2>6, <3>2
      <4>4. d + k + e <= t + x BY <3>3, <4>2, <4>3
      <4>5. d + k + f <= u /\ d + k <= u BY <3>4, <4>4
      <4> QED BY <2>1, <3>2, <4>1, <4>3, <4>5, DoneIs
    <3>7. ASSUME NEW h \in Periodic, h # tmp, InList(list', h)
          PROVE  Done(calls', h) + Msecs[h] + f <= u + Left(list', h)
      <4>1. Done(calls, h) + Msecs[h] + e <= t + Left(list, h) BY <2>10, <3>3, <3>7
      <4>2. PICK d \in Nat, k \in Nat, y \in Nat : d = Done(calls, h) /\ k = Msecs[h] /\ y = Left(list, h) /\ x <= y
        BY <2>6, <2>8, <3>3, <3>7
      <4>3. d + k + e <= t + y BY <4>1, <4>2
      <4>4. d + k + f <= u + (y - x) BY <3>4, <4>2, <4>3
      <4> QED BY <3>3, <3>5, <3>7, <4>2, <4>4
    <3>8. ASSUME NEW h \in Periodic PROVE Done(calls', h) <= u
      <4>1. CASE h = tmp BY <3>6, <4>1
      <4>2. CASE h # tmp BY <2>10, <3>4, <3>5, <4>2
      <4> QED BY <4>1, <4>2
    <3>9. tmp \in Periodic => Done(calls', tmp) + f <= u BY <3>6
    <3>10. \A h \in Periodic : InList(list', h) => h # tmp BY <3>3
    <3> QED BY <3>1, <3>7, <3>8, <3>9, <3>10
  <2>19. CASE Call
    <3>1. /\ pc = "call" /\ pc' = "loop" /\ ~Unlink /\ clock' = clock
          /\ list' = list \/ (tmp \in Handlers /\ Arm(tmp))
      BY <2>5, <2>8, <2>19, SizesAre DEF Call, Unlink
    <3>2. ~InList(list, tmp) BY <2>5, <3>1 DEF Expiring
    <3>3. CASE list' = list BY <2>13, <2>14, <3>1, <3>3
    <3>4. CASE tmp \in Handlers /\ Arm(tmp)
      <4>1. /\ \A g : InList(list, g) => Left(list', g) = Left(list, g)
            /\ \A g : InList(list', g) => InList(list, g) \/ g = tmp
            /\ free # 0 => Left(list', tmp) = Msecs[tmp]
            /\ free = 0 => list' = list
        BY <2>5, <3>2, <3>4, ArmKeeps
      <4>2. CASE free = 0 BY <2>13, <2>14, <3>1, <4>1, <4>2
      <4>3. CASE free # 0
        <5>1. ASSUME tmp \in Periodic PROVE Done(calls', tmp) + Msecs[tmp] + f <= u + Left(list', tmp)
          <6>1. Done(calls', tmp) + f <= u BY <2>10, <2>12, <2>13, <3>1, <5>1
          <6>2. PICK d \in Nat, k \in Nat : d = Done(calls', tmp) /\ k = Msecs[tmp]
            BY <2>6, <2>8, <2>12, <2>13, <3>1, <5>1
          <6>3. d + f <= u BY <6>1, <6>2
          <6>4. d + k + f <= u + k BY <6>3
          <6> QED BY <4>1, <4>3, <6>2, <6>4
        <5> QED BY <2>12, <2>13, <3>1, <4>1, <5>1
      <4> QED BY <4>2, <4>3
    <3> QED BY <3>1, <3>3, <3>4
  <2>20. ASSUME NEW h \in OneShot, AppTimeout(h) \/ AppUntimeout(h)
         PROVE  /\ pc' = "unlink" => Place(list', tmp') = 1
                /\ \A g \in Periodic : InList(list', g) => Done(calls', g) + Msecs[g] + f <= u + Left(list', g)
                /\ pc' = "call" /\ tmp' \in Periodic => Done(calls', tmp') + f <= u
                /\ \A g \in Periodic : Done(calls', g) <= u
    <3>1. pc' = "idle" /\ ~Unlink /\ clock' = clock BY <2>20 DEF AppTimeout, AppUntimeout, Unlink
    <3>2. h \in Handlers /\ h \notin Periodic BY HandlerAssumption DEF Handlers
    <3>3. \A g \in Periodic : InList(list', g) => InList(list, g) /\ Left(list', g) = Left(list, g)
      <4>1. CASE AppTimeout(h)
        <5>1. ~InList(list, h) /\ Arm(h) BY <4>1 DEF AppTimeout
        <5> QED BY <2>5, <3>2, <5>1, ArmKeeps
      <4>2. CASE AppUntimeout(h)
        <5>1. list' = Remove(list, h) BY <4>2 DEF AppUntimeout
        <5>2. CASE ~InList(list, h)
          <6>1. list' = list BY <5>1, <5>2 DEF Remove
          <6> QED BY <6>1
        <5>3. CASE InList(list, h) BY <2>5, <5>1, <5>3, RemoveLeft
        <5> QED BY <5>2, <5>3
      <4> QED BY <2>20, <4>1, <4>2
    <3> QED BY <2>12, <2>13, <3>1, <3>3
  <2>21. CASE TcpOpen
    <3>1. /\ pc' = pc /\ tmp' = tmp /\ ~Unlink /\ clock' = clock
          /\ IF tcpActive THEN list' = list ELSE Arm(TcpTimer)
      BY <2>21 DEF TcpOpen, Unlink
    <3>2. CASE list' = list BY <2>13, <2>14, <3>1, <3>2
    <3>3. CASE ~tcpActive /\ list' # list
      <4>1. ~InList(list, TcpTimer) BY <2>5, <3>3 DEF TcpKnown
      <4>2. /\ \A g : InList(list, g) => Left(list', g) = Left(list, g)
            /\ \A g : InList(list', g) => InList(list, g) \/ g = TcpTimer
        BY <2>5, <3>1, <3>3, <4>1, SizesAre, ArmKeeps
      <4>3. pc' # "unlink" BY <2>4, <3>1, <3>3
      <4>4. \A g \in Periodic : InList(list', g) => InList(list, g) /\ Left(list', g) = Left(list, g)
        BY <2>8, <4>2
      <4> QED BY <2>10, <2>12, <2>13, <3>1, <4>3, <4>4
    <3> QED BY <3>1, <3>2, <3>3
  <2> QED BY <2>1, <2>15, <2>16, <2>17, <2>18, <2>19, <2>20, <2>21 DEF Step, Check, App
<1> QED BY <1>1, <1>2
LEMMA EarlyInit == HistoryInit => EarlyInv
<1> SUFFICES ASSUME HistoryInit PROVE EarlyInv
  OBVIOUS
<1>1. /\ Init /\ ticks = 0 /\ calls = NoCalls /\ pc = "idle" /\ clock = 0 /\ now = 0 /\ last = 0 /\ program \in Programs
  BY DEF HistoryInit, Init
<1>2. Inv
  BY <1>1, InvInit
<1>3. HistoryTypes
  BY <1>1 DEF HistoryTypes, NoCalls
<1>4. Since(now) = 0 /\ Since(last) = 0
  BY <1>1, <1>2, SinceClock DEF Inv, Typed
<1>5. ClockKept
  BY <1>1, <1>4, SizesAre DEF ClockKept
<1>6. Elapsed = 0
  BY <1>1, <1>4 DEF Elapsed
<1>7. \A h \in Handlers : Done(calls, h) = 0
  <2>1. ASSUME NEW h \in Handlers PROVE Done(calls, h) = 0
    <3>1. Msecs[h] \in Nat BY SizesAre
    <3>2. calls[h] = 0 BY <1>1 DEF NoCalls
    <3>3. PICK k \in Nat : k = Msecs[h] BY <3>1
    <3>4. 0 * k = 0 OBVIOUS
    <3> QED BY <3>2, <3>3, <3>4 DEF Done
  <2> QED BY <2>1
<1>8. ASSUME NEW h \in Periodic
      PROVE  /\ Done(calls, h) <= ticks
             /\ InList(list, h) => Done(calls, h) + Msecs[h] + Elapsed <= ticks + Left(list, h)
  <2>1. h \in Handlers /\ Done(calls, h) = 0 BY <1>7 DEF Handlers
  <2>2. PICK k \in Nat : k = Msecs[h] BY <2>1, SizesAre
  <2>3. InList(list, h) => Left(list, h) = k BY <1>1, <2>2, InitIs
  <2>4. 0 + k + 0 <= 0 + k /\ 0 <= 0 OBVIOUS
  <2> QED BY <1>1, <1>6, <2>1, <2>2, <2>3, <2>4
<1>9. NoneEarly
  BY <1>1, <1>8 DEF NoneEarly
<1> QED BY <1>2, <1>3, <1>5, <1>9 DEF EarlyInv

\* The history only watches, until the model ends: what holds of the timers
\* holds with it.
LEMMA HistoryStep == [HistoryNext]_<<vars, history>> => [Watches]_<<timers, history>>
BY DEF HistoryNext, Next, TcpInside, Watches, vars

LEMMA HistoryInv == HistorySpec => []Inv
<1>1. HistoryInit => Init
  BY DEF HistoryInit
<1>2. [Watches]_<<timers, history>> => [Step]_timers
  BY DEF Watches
<1> QED BY <1>1, <1>2, InvInit, InvStep, HistoryStep, PTL DEF HistorySpec

LEMMA EarlyAlways == HistorySpec => []EarlyInv
<1>1. EarlyInv /\ Inv' /\ [Watches]_<<timers, history>> => EarlyInv'
  BY EarlyStep
<1> QED BY <1>1, EarlyInit, HistoryInv, HistoryStep, PTL DEF HistorySpec

LEMMA Early == EarlyInv => NeverAhead
<1> SUFFICES ASSUME EarlyInv, ~torn, ticks < Horizon, NEW h \in Periodic
             PROVE  calls[h] * Msecs[h] <= ticks
  BY DEF NeverAhead
<1>1. ticks # Horizon
  BY DEF EarlyInv, HistoryTypes
<1>2. NoneEarly
  BY <1>1 DEF EarlyInv, Observed
<1> QED BY <1>2 DEF NoneEarly, Done

\* sys_check_timeouts never runs ahead of the clock: while nothing is armed
\* between its test and its unlinking, a periodic handler is called at most
\* once for every msecs that have passed, whatever an application arms and
\* cancels, however late the main loop is, and when lwip_localtime goes round.
THEOREM NoneAhead == HistorySpec => []NeverAhead
BY EarlyAlways, Early, PTL
----------------------------------------------------------------------------
(* Nor does it come too late. *)

\* The time from timeouts_last_time to the last look at the clock.
Gone == (now + TimeMod - last) % TimeMod

\* The timers a program may have.
Own == Periodic \cup program.timers \cup {h \in {TcpTimer} : program.tcp}

Wait ==
    /\ \A h : InList(list, h) => Left(list, h) <= Msecs[h] /\ h \in Own
    /\ pc \in {"unlink", "call"} => tmp \in Own

\* Nothing is lost: the structures of the pool, the periodic handlers.
NoneLost ==
    /\ free + Len(list) = PoolSize
    /\ pc = "call" /\ ~program.tcp => free # 0
    /\ \A h \in Periodic : InList(list, h) \/ (pc = "call" /\ tmp = h)

\* Without a reason to be late every timer is still to expire when the main
\* loop is done, expires when the loop comes to it, and takes all of diff.
NoneLate ==
    /\ Since(now) <= 1
    /\ pc = "idle" => \A h : InList(list, h) => Gone < Left(list, h)
    /\ pc = "loop" => diff = Gone /\ \A h : InList(list, h) => diff <= Left(list, h)
    /\ pc = "unlink" => diff = Left(list, tmp)
    /\ pc = "call" => diff = 0
    /\ \A h \in Periodic : InList(list, h) => Done(calls, h) + Msecs[h] + Elapsed >= ticks + Left(list, h)
    /\ pc = "call" /\ tmp \in Periodic => Done(calls, tmp) + Elapsed >= ticks

LateInv == EarlyInv /\ Wait /\ (Observed => NoneLost) /\ (Observed /\ ~late => NoneLate)

\* A list with each handler once is no longer than the set of its handlers.
LEMMA Counted ==
    ASSUME NEW l \in Seq(Timer), Once(l), NEW S, IsFiniteSet(S), \A h : InList(l, h) => h \in S
    PROVE  /\ Cardinality(S) \in Nat /\ Len(l) \in Nat /\ Len(l) <= Cardinality(S)
           /\ Len(l) = Cardinality(S) => \A h \in S : InList(l, h)
<1> DEFINE f == [i \in 1 .. Len(l) |-> l[i].h]
<1>1. Len(l) \in Nat /\ Cardinality(S) \in Nat
  BY FS_CardinalityType
<1>2. IsFiniteSet(1 .. Len(l)) /\ Cardinality(1 .. Len(l)) = Len(l)
  <2>1. PICK n \in Nat : n = Len(l) BY <1>1
  <2>2. 1 \in Int /\ n \in Int /\ (IF 1 > n THEN 0 ELSE n - 1 + 1) = n OBVIOUS
  <2>3. IsFiniteSet(1 .. n) /\ Cardinality(1 .. n) = IF 1 > n THEN 0 ELSE n - 1 + 1 BY <2>2, FS_Interval
  <2> QED BY <2>1, <2>2, <2>3
<1>3. f \in Injection(1 .. Len(l), S)
  <2>1. ASSUME NEW i \in 1 .. Len(l) PROVE l[i].h \in S
    BY <2>1 DEF InList
  <2>2. \A i, j \in 1 .. Len(l) : f[i] = f[j] => i = j
    BY DEF Once
  <2>3. f \in [1 .. Len(l) -> S] BY <2>1
  <2>4. DOMAIN f = 1 .. Len(l) OBVIOUS
  <2> HIDE DEF f
  <2> QED BY <2>2, <2>3, <2>4 DEF Injection, IsInjective
<1> HIDE DEF f
<1>4. /\ Cardinality(1 .. Len(l)) <= Cardinality(S)
      /\ Cardinality(1 .. Len(l)) = Cardinality(S) <=> f \in Surjection(1 .. Len(l), S)
  BY <1>3, FS_Injection
<1>5. f \in Surjection(1 .. Len(l), S) => \A h \in S : InList(l, h)
  BY DEF Surjection, InList, f
<1> QED BY <1>1, <1>2, <1>4, <1>5

\* The time since timeouts_last_time, as long as it does not go round.
LEMMA GoneIs ==
    ASSUME clock \in Time, now \in Time, last \in Time
    PROVE  /\ Gone \in Nat /\ Since(last) <= Gone + Since(now)
           /\ Gone + Since(now) < TimeMod => Since(last) = Gone + Since(now)
           /\ now = last => Gone = 0
           /\ now = clock => Gone = Since(last)
<1>1. PICK m \in Nat \ {0} : m = TimeMod
  BY SizesAre
<1>2. PICK c \in 0 .. (m - 1), n \in 0 .. (m - 1), l \in 0 .. (m - 1) : c = clock /\ n = now /\ l = last
  BY <1>1 DEF Time
<1>3. Since(now) = (IF n <= c THEN c - n ELSE (c + m) - n) /\ Since(last) = (IF l <= c THEN c - l ELSE (c + m) - l)
  BY <1>1, <1>2, SinceIs
<1>4. Gone = IF l <= n THEN n - l ELSE (n + m) - l
  <2>1. Gone = ((n + m) - l) % m BY <1>1, <1>2 DEF Gone
  <2>2. (n + m) - l \in 0 .. (m + m - 1) OBVIOUS
  <2>3. ((n + m) - l) % m = IF (n + m) - l < m THEN (n + m) - l ELSE ((n + m) - l) - m BY <2>2, OneRound
  <2>4. (IF (n + m) - l < m THEN (n + m) - l ELSE ((n + m) - l) - m) = IF l <= n THEN n - l ELSE (n + m) - l
    OBVIOUS
  <2> QED BY <2>1, <2>3, <2>4
<1>5. PICK g \in Nat : g = Gone /\ g = IF l <= n THEN n - l ELSE (n + m) - l
  <2>1. (IF l <= n THEN n - l ELSE (n + m) - l) \in Nat OBVIOUS
  <2> QED BY <1>4, <2>1
<1>6. PICK sn \in Nat : sn = Since(now) /\ sn = IF n <= c THEN c - n ELSE (c + m) - n
  BY <1>3
<1>7. PICK sl \in Nat : sl = Since(last) /\ sl = IF l <= c THEN c - l ELSE (c + m) - l
  BY <1>3
<1>8. g = (IF l <= n THEN n - l ELSE (n + m) - l) /\ sn = (IF n <= c THEN c - n ELSE (c + m) - n)
      /\ sl = (IF l <= c THEN c - l ELSE (c + m) - l)
  BY <1>5, <1>6, <1>7
<1>9. sl <= g + sn
  BY <1>8
<1>10. g + sn < m => sl = g + sn
  BY <1>8
<1>11. (n = l => g = 0) /\ (n = c => g = sl)
  BY <1>8
<1> QED BY <1>1, <1>2, <1>5, <1>6, <1>7, <1>9, <1>10, <1>11
\* A timer waits no longer than its msecs, and only the program's are armed.
LEMMA WaitStep ==
    ASSUME Inv, HistoryTypes, Wait, Step
    PROVE  Wait'
<1>1. /\ list \in Seq(Timer) /\ Once(list) /\ program \in Programs /\ Expiring /\ TcpKnown
      /\ tmp \in Handlers \cup {NoHandler}
  BY DEF Inv, Typed, Timer, HistoryTypes
<1>2. program' = program
  BY DEF Step, Check, App, Look, Test, Unlink, Call, Leave, AppRestart, AppTimeout, AppUntimeout,
         Tick, TcpOpen, TcpGone, tcpVars
<1>3. program.timers \subseteq OneShot /\ Own \subseteq Handlers
  BY <1>1, BoundAssumption DEF Own, Handlers
<1>4. \A h : InList(list, h) => Left(list, h) \in Nat /\ Left(list, h) <= Msecs[h] /\ h \in Own
  BY <1>1, LeftIs DEF Wait
<1>5. pc \in {"unlink", "call"} => tmp \in Own
  BY DEF Wait
<1>6. \A h \in Handlers : Msecs[h] \in Nat
  BY SizesAre
<1>7. SUFFICES /\ \A h : InList(list', h) => Left(list', h) <= Msecs[h] /\ h \in Own
               /\ pc' \in {"unlink", "call"} => tmp' \in Own
  BY <1>2 DEF Wait, Own, InList, Left, Place
<1> HIDE DEF Left, InList, Place, Own
<1>8. ASSUME NEW h \in Own, ~InList(list, h), Arm(h)
      PROVE  \A g : InList(list', g) => Left(list', g) <= Msecs[g] /\ g \in Own
  <2>1. h \in Handlers BY <1>3, <1>8
  <2>2. /\ \A g : InList(list, g) => InList(list', g) /\ Left(list', g) = Left(list, g)
        /\ \A g : InList(list', g) => InList(list, g) \/ g = h
        /\ free # 0 => InList(list', h) /\ Left(list', h) = Msecs[h]
        /\ free = 0 => list' = list
    BY <1>1, <1>8, <2>1, ArmKeeps
  <2>3. Msecs[h] <= Msecs[h] BY <1>6, <2>1
  <2> QED BY <1>4, <1>8, <2>2, <2>3
<1>9. CASE Look \/ Leave \/ AppRestart \/ Tick \/ TcpGone
  <2>1. list' = list /\ tmp' = tmp /\ (pc' \in {"unlink", "call"} => pc' = pc)
    BY <1>9 DEF Look, Leave, AppRestart, Tick, TcpGone
  <2> QED BY <1>4, <1>5, <2>1
<1>10. CASE Test
  <2>1. list' = list /\ list # <<>> /\ tmp' = Head(list).h BY <1>10 DEF Test
  <2>2. InList(list, tmp')
    <3>1. 1 \in 1 .. Len(list) /\ Head(list) = list[1] BY <1>1, <2>1, FirstIs
    <3> QED BY <2>1, <3>1 DEF InList
  <2> QED BY <1>4, <2>1, <2>2
<1>11. CASE Unlink
  <2>1. pc = "unlink" /\ tmp' = tmp /\ list' = SubSeq(list, Place(list, tmp) + 1, Len(list))
    BY <1>11 DEF Unlink
  <2>2. InList(list, tmp) BY <1>1, <2>1 DEF Expiring
  <2>3. PICK i \in 1 .. Len(list) : i = Place(list, tmp) BY <1>1, <2>2, PlaceIs
  <2>4. i \in 0 .. Len(list) BY <2>3
  <2>5. PICK m \in Seq(Timer) :
           /\ m = SubSeq(list, i + 1, Len(list)) /\ Len(m) = Len(list) - i /\ Once(m)
           /\ \A g : InList(m, g) <=> (InList(list, g) /\ Place(list, g) > i)
           /\ \A g : InList(m, g) => Left(m, g) = Left(list, g) - Ahead(list, i)
    BY <1>1, <2>4, DropLeft
  <2>6. m = list' BY <2>1, <2>3, <2>5
  <2>7. Ahead(list, i) \in Nat BY <1>1, <2>4, AheadIs
  <2>8. ASSUME NEW g, InList(list', g) PROVE Left(list', g) <= Msecs[g] /\ g \in Own
    <3>1. InList(list, g) /\ Left(list', g) = Left(list, g) - Ahead(list, i) BY <2>5, <2>6, <2>8
    <3>2. PICK x \in Nat, a \in Nat, k \in Nat : x = Left(list, g) /\ a = Ahead(list, i) /\ k = Msecs[g] /\ x <= k
      BY <1>3, <1>4, <1>6, <2>7, <3>1
    <3>3. x - a <= k BY <3>2
    <3> QED BY <1>4, <3>1, <3>2, <3>3
  <2> QED BY <1>5, <2>1, <2>8
<1>12. CASE Call
  <2>1. pc = "call" /\ pc' = "loop" /\ (list' = list \/ Arm(tmp)) BY <1>12 DEF Call
  <2>2. tmp \in Own /\ ~InList(list, tmp) BY <1>1, <1>5, <2>1 DEF Expiring
  <2> QED BY <1>4, <1>8, <2>1, <2>2
<1>13. ASSUME NEW h \in OneShot, AppTimeout(h) \/ AppUntimeout(h)
       PROVE  /\ \A g : InList(list', g) => Left(list', g) <= Msecs[g] /\ g \in Own
              /\ pc' \in {"unlink", "call"} => tmp' \in Own
  <2>1. pc' = "idle" BY <1>13 DEF AppTimeout, AppUntimeout
  <2>2. CASE AppTimeout(h)
    <3>1. h \in Own /\ ~InList(list, h) /\ Arm(h) BY <2>2 DEF AppTimeout, Own
    <3> QED BY <1>8, <2>1, <3>1
  <2>3. CASE AppUntimeout(h)
    <3>1. list' = Remove(list, h) BY <2>3 DEF AppUntimeout
    <3>2. CASE ~InList(list, h)
      <4>1. list' = list BY <3>1, <3>2 DEF Remove
      <4> QED BY <1>4, <2>1, <4>1
    <3>3. CASE InList(list, h)
      <4>1. PICK m \in Seq(Timer) :
               /\ m = Remove(list, h) /\ Len(m) = Len(list) - 1 /\ Once(m)
               /\ \A g : InList(m, g) <=> (g # h /\ InList(list, g))
               /\ \A g : InList(m, g) => Left(m, g) = Left(list, g)
        BY <1>1, <3>3, RemoveLeft
      <4>2. m = list' BY <3>1, <4>1
      <4> QED BY <1>4, <2>1, <4>1, <4>2
    <3> QED BY <3>2, <3>3
  <2> QED BY <1>13, <2>2, <2>3
<1>14. CASE TcpOpen
  <2>1. /\ pc' = pc /\ tmp' = tmp /\ program.tcp
        /\ IF tcpActive THEN list' = list ELSE Arm(TcpTimer)
    BY <1>14 DEF TcpOpen
  <2>2. TcpTimer \in Own BY <2>1 DEF Own
  <2>3. ~tcpActive => ~InList(list, TcpTimer) BY <1>1 DEF TcpKnown
  <2> QED BY <1>4, <1>5, <1>8, <2>1, <2>2, <2>3
<1> QED BY <1>9, <1>10, <1>11, <1>12, <1>13, <1>14 DEF Step, Check, App

\* A periodic handler that is called finds a structure for its timer.
LEMMA RoomForIt ==
    ASSUME Inv, HistoryTypes, Wait, NoneLost, pc = "call", tmp \in Periodic
    PROVE  free # 0
<1>1. CASE ~program.tcp
  BY <1>1 DEF NoneLost
<1>2. CASE program.tcp
  <2>1. list \in Seq(Timer) /\ Once(list) /\ program \in Programs /\ free \in 0 .. PoolSize /\ ~InList(list, tmp)
    BY DEF Inv, Typed, Timer, HistoryTypes, Expiring
  <2>2. IsFiniteSet(program.timers) /\ Cardinality(Periodic) + Cardinality(program.timers) + 1 <= PoolSize
    BY <1>2, <2>1, RoomAssumption
  <2> DEFINE A == Periodic \cup program.timers
             B == A \cup {TcpTimer}
             C == B \ {tmp}
  <2>3. PICK p \in Nat, t \in Nat, s \in Nat :
           p = Cardinality(Periodic) /\ t = Cardinality(program.timers) /\ s = PoolSize /\ p + t + 1 <= s
    BY <2>2, BoundAssumption, FS_CardinalityType
  <2>4. PICK a \in Nat : IsFiniteSet(A) /\ a = Cardinality(A) /\ a <= p + t
    <3>1. IsFiniteSet(A) /\ Cardinality(A) = Cardinality(Periodic) + Cardinality(program.timers) - Cardinality(Periodic \cap program.timers)
      BY <2>2, BoundAssumption, FS_Union
    <3>2. PICK i \in Nat : i = Cardinality(Periodic \cap program.timers)
      BY BoundAssumption, FS_Intersection, FS_CardinalityType
    <3>3. PICK a \in Nat : a = Cardinality(A) BY <3>1, FS_CardinalityType
    <3>4. a = p + t - i BY <2>3, <3>1, <3>2, <3>3
    <3>5. a <= p + t BY <3>4
    <3> QED BY <3>1, <3>3, <3>5
  <2> HIDE DEF A
  <2>5. PICK b \in Nat : IsFiniteSet(B) /\ b = Cardinality(B) /\ b <= a + 1
    <3>1. IsFiniteSet(B) /\ Cardinality(B) = IF TcpTimer \in A THEN Cardinality(A) ELSE Cardinality(A) + 1
      BY <2>4, FS_AddElement
    <3> QED BY <2>4, <3>1
  <2>6. tmp \in B BY DEF A
  <2> HIDE DEF B
  <2>7. IsFiniteSet(C) /\ Cardinality(C) = b - 1
    BY <2>5, <2>6, FS_RemoveElement
  <2>8. \A h : InList(list, h) => h \in C
    BY <2>1 DEF Wait, Own, A, B
  <2>9. Len(list) \in Nat /\ Len(list) <= Cardinality(C)
    BY <2>1, <2>7, <2>8, Counted
  <2>10. PICK n \in Nat : n = Len(list) /\ n <= b - 1
    BY <2>7, <2>9
  <2>11. n < s BY <2>3, <2>4, <2>5, <2>10
  <2>12. PICK f \in Nat : f = free /\ f + n = s
    BY <2>1, <2>3, <2>10 DEF NoneLost
  <2>13. f # 0 BY <2>11, <2>12
  <2> QED BY <2>12, <2>13
<1> QED BY <1>1, <1>2
\* No structure of the pool is lost, and no periodic handler.
LEMMA LostStep ==
    ASSUME Inv, HistoryTypes, Wait, NoneLost, Step, pc = "unlink" => Place(list, tmp) = 1
    PROVE  NoneLost'
<1>1. /\ list \in Seq(Timer) /\ Once(list) /\ program \in Programs /\ Expiring /\ TcpKnown
      /\ tmp \in Handlers \cup {NoHandler} /\ free \in 0 .. PoolSize /\ PoolSize \in Nat
  BY SizesAre DEF Inv, Typed, Timer, HistoryTypes
<1>2. program' = program
  BY DEF Step, Check, App, Look, Test, Unlink, Call, Leave, AppRestart, AppTimeout, AppUntimeout,
         Tick, TcpOpen, TcpGone, tcpVars
<1>3. /\ pc = "call" /\ ~program.tcp => free # 0
      /\ \A h \in Periodic : InList(list, h) \/ (pc = "call" /\ tmp = h)
  BY DEF NoneLost
<1>4. PICK f \in Nat, n \in Nat, s \in Nat : f = free /\ n = Len(list) /\ s = PoolSize /\ f + n = s
  <2>1. free \in Nat /\ Len(list) \in Nat /\ free + Len(list) = PoolSize BY <1>1, AheadIs DEF NoneLost
  <2> QED BY <1>1, <2>1
<1>5. SUFFICES /\ free' + Len(list') = PoolSize
               /\ pc' = "call" /\ ~program.tcp => free' # 0
               /\ \A h \in Periodic : InList(list', h) \/ (pc' = "call" /\ tmp' = h)
  BY <1>2 DEF NoneLost, InList
<1> HIDE DEF InList, Place, Left
<1>6. ASSUME NEW h \in Handlers, ~InList(list, h), Arm(h)
      PROVE  /\ free' + Len(list') = PoolSize
             /\ \A g : InList(list, g) => InList(list', g)
             /\ free # 0 => InList(list', h)
  <2>1. /\ \A g : InList(list, g) => InList(list', g)
        /\ free # 0 => InList(list', h) /\ Len(list') = Len(list) + 1 /\ free' = free - 1
        /\ free = 0 => list' = list /\ free' = free
    BY <1>1, <1>6, ArmKeeps
  <2>2. CASE f = 0 BY <1>4, <2>1, <2>2
  <2>3. CASE f # 0
    <3>1. (f - 1) + (n + 1) = s BY <1>4
    <3> QED BY <1>4, <2>1, <2>3, <3>1
  <2> QED BY <2>1, <2>2, <2>3
<1>7. CASE Look \/ Leave \/ AppRestart \/ Tick \/ TcpGone \/ Test
  <2>1. list' = list /\ free' = free /\ (pc' = "call" => pc = "call") /\ (pc = "call" => pc' = "call" /\ tmp' = tmp)
    BY <1>7 DEF Look, Leave, AppRestart, Tick, TcpGone, Test
  <2> QED BY <1>3, <1>4, <2>1
<1>8. CASE Unlink
  <2>1. pc = "unlink" /\ pc' = "call" /\ tmp' = tmp /\ free' = free + 1 BY <1>8 DEF Unlink
  <2>2. InList(list, tmp) BY <1>1, <2>1 DEF Expiring
  <2>3. /\ Len(list') = Len(list) - 1
        /\ \A g : InList(list', g) <=> InList(list, g) /\ g # tmp
    BY <1>1, <1>8, <2>1, <2>2, FirstUnlinked
  <2>4. (f + 1) + (n - 1) = s /\ f + 1 # 0 BY <1>4
  <2> QED BY <1>3, <1>4, <2>1, <2>3, <2>4
<1>9. CASE Call
  <2>1. /\ pc = "call" /\ pc' = "loop"
        /\ IF tmp \in Periodic \/ (tmp = TcpTimer /\ tcpUp) THEN Arm(tmp) ELSE list' = list /\ free' = free
    BY <1>9 DEF Call
  <2>2. tmp \in Handlers /\ ~InList(list, tmp) BY <1>1, <2>1, SizesAre DEF Expiring
  <2>3. tmp \in Periodic => free # 0 BY <2>1, RoomForIt
  <2>4. CASE Arm(tmp)
    BY <1>3, <1>6, <2>1, <2>2, <2>3, <2>4
  <2>5. CASE tmp \notin Periodic /\ list' = list /\ free' = free
    BY <1>3, <1>4, <2>1, <2>5
  <2> QED BY <2>1, <2>4, <2>5
<1>10. ASSUME NEW h \in OneShot, AppTimeout(h) \/ AppUntimeout(h)
       PROVE  /\ free' + Len(list') = PoolSize
              /\ pc' = "call" /\ ~program.tcp => free' # 0
              /\ \A g \in Periodic : InList(list', g) \/ (pc' = "call" /\ tmp' = g)
  <2>1. pc = "idle" /\ pc' = "idle" /\ h \in Handlers /\ h \notin Periodic
    BY <1>10, HandlerAssumption DEF AppTimeout, AppUntimeout, Handlers
  <2>2. CASE AppTimeout(h)
    <3>1. ~InList(list, h) /\ Arm(h) BY <2>2 DEF AppTimeout
    <3> QED BY <1>3, <1>6, <2>1, <3>1
  <2>3. CASE AppUntimeout(h)
    <3>1. list' = Remove(list, h) /\ free' = IF InList(list, h) THEN free + 1 ELSE free BY <2>3 DEF AppUntimeout
    <3>2. CASE ~InList(list, h)
      <4>1. list' = list BY <3>1, <3>2 DEF Remove
      <4> QED BY <1>3, <1>4, <2>1, <3>1, <3>2, <4>1
    <3>3. CASE InList(list, h)
      <4>1. PICK m \in Seq(Timer) :
               /\ m = Remove(list, h) /\ Len(m) = Len(list) - 1 /\ Once(m)
               /\ \A g : InList(m, g) <=> (g # h /\ InList(list, g))
               /\ \A g : InList(m, g) => Left(m, g) = Left(list, g)
        BY <1>1, <3>3, RemoveLeft
      <4>2. m = list' BY <3>1, <4>1
      <4>3. (f + 1) + (n - 1) = s BY <1>4
      <4> QED BY <1>3, <1>4, <2>1, <3>1, <3>3, <4>1, <4>2, <4>3
    <3> QED BY <3>2, <3>3
  <2> QED BY <1>10, <2>2, <2>3
<1>11. CASE TcpOpen
  <2>1. /\ pc' = pc /\ tmp' = tmp /\ program.tcp
        /\ IF tcpActive THEN list' = list /\ free' = free ELSE Arm(TcpTimer)
    BY <1>11 DEF TcpOpen
  <2>2. ~tcpActive => ~InList(list, TcpTimer) BY <1>1 DEF TcpKnown
  <2>3. CASE tcpActive BY <1>3, <1>4, <2>1, <2>3
  <2>4. CASE ~tcpActive BY <1>3, <1>6, <2>1, <2>2, <2>4, SizesAre
  <2> QED BY <2>3, <2>4
<1> QED BY <1>7, <1>8, <1>9, <1>10, <1>11 DEF Step, Check, App
\* Without a reason to be late a step makes no timer late.
LEMMA LateStep ==
    ASSUME Inv, Inv', HistoryTypes, HistoryTypes', ClockKept, Wait, NoneEarly, NoneLate, Step,
           ticks' = IF Tick THEN ticks + 1 ELSE ticks,
           calls' = IF Unlink THEN [calls EXCEPT ![tmp] = @ + 1] ELSE calls,
           pc = "unlink" /\ pc' = "unlink" => list' = list,
           ~Lags, ~SetBack, \A h \in Handlers : ~ArmedDue(h)
    PROVE  NoneLate'
<1>1. /\ list \in Seq(Timer) /\ Once(list) /\ Expiring /\ TcpKnown
      /\ tmp \in Handlers \cup {NoHandler} /\ clock \in Time /\ now \in Time /\ last \in Time
      /\ ticks \in Nat /\ ticks' \in Nat
  BY SizesAre DEF Inv, Typed, Timer, HistoryTypes
<1>2. /\ Elapsed \in Nat /\ Elapsed' \in Nat
      /\ Unlink => Elapsed' = Elapsed - list[Place(list, tmp)].time
      /\ ~Tick /\ ~Unlink /\ ~Leave /\ last' = last => Elapsed' = Elapsed
      /\ Test => Elapsed' = Elapsed
  BY ElapsedStep
<1>3. PICK t \in Nat, u \in Nat, e \in Nat, f \in Nat : t = ticks /\ u = ticks' /\ e = Elapsed /\ f = Elapsed'
  BY <1>1, <1>2
<1>4. PICK g \in Nat, sn \in Nat, sl \in Nat, m \in Nat :
         /\ g = Gone /\ sn = Since(now) /\ sl = Since(last) /\ m = TimeMod /\ m # 0 /\ m # 1
         /\ sl <= g + sn
         /\ g + sn < m => sl = g + sn
         /\ now = last => g = 0
  BY <1>1, GoneIs, SinceIs, SizesAre
<1>5. /\ sn <= 1
      /\ pc = "idle" => \A h : InList(list, h) => g < Left(list, h)
      /\ pc = "loop" => diff = g /\ \A h : InList(list, h) => g <= Left(list, h)
      /\ pc = "unlink" => diff = Left(list, tmp)
      /\ pc = "call" => diff = 0
      /\ \A h \in Periodic : InList(list, h) => Done(calls, h) + Msecs[h] + e >= t + Left(list, h)
      /\ pc = "call" /\ tmp \in Periodic => Done(calls, tmp) + e >= t
  BY <1>3, <1>4 DEF NoneLate
<1>6. \A h \in Handlers : Done(calls, h) \in Nat /\ Msecs[h] \in Nat /\ Msecs[h] + 1 < m
  <2>1. ASSUME NEW h \in Handlers PROVE Msecs[h] + 1 < m
    <3>1. PICK k \in Nat, a \in Nat : k = Msecs[h] /\ a = MaxLag /\ a # 0 /\ k + a < m BY <1>4, SizesAre
    <3>2. k + 1 < m BY <3>1
    <3> QED BY <3>1, <3>2
  <2> QED BY <2>1, DoneIs
<1>7. \A h : InList(list, h) => h \in Handlers /\ Left(list, h) \in Nat /\ Left(list, h) <= Msecs[h]
  BY <1>1, LeftIs DEF Wait
<1>8. Periodic \subseteq Handlers /\ TcpTimer \notin Periodic /\ TcpTimer \in Handlers
  BY HandlerAssumption DEF Handlers
<1>9. SUFFICES
        /\ Since(now)' <= 1
        /\ pc' = "idle" => \A h : InList(list', h) => Gone' < Left(list', h)
        /\ pc' = "loop" => diff' = Gone' /\ \A h : InList(list', h) => diff' <= Left(list', h)
        /\ pc' = "unlink" => diff' = Left(list', tmp')
        /\ pc' = "call" => diff' = 0
        /\ \A h \in Periodic : InList(list', h) => Done(calls', h) + Msecs[h] + f >= u + Left(list', h)
        /\ pc' = "call" /\ tmp' \in Periodic => Done(calls', tmp') + f >= u
  BY <1>3 DEF NoneLate, InList, Left, Place, Done
<1>10. /\ clock' = clock /\ now' = now => Since(now)' = sn
       /\ now' = now /\ last' = last => Gone' = g
  BY <1>4 DEF Since, Gone
<1> HIDE DEF Done, Elapsed, Left, InList, Place, Gone, Since
\* Steps that call no handler and move no timer of a periodic one.
<1>11. ASSUME ~Unlink, u + e <= t + f
       PROVE  /\ \A h \in Periodic : InList(list, h) /\ Left(list', h) = Left(list, h) =>
                    Done(calls', h) + Msecs[h] + f >= u + Left(list', h)
              /\ \A h \in Periodic : Done(calls', h) = Done(calls, h)
              /\ tmp \in Periodic /\ Done(calls, tmp) + e >= t => Done(calls', tmp) + f >= u
  <2>1. \A h : Done(calls', h) = Done(calls, h) BY <1>11 DEF Done
  <2>2. ASSUME NEW h \in Periodic, InList(list, h), Left(list', h) = Left(list, h)
        PROVE  Done(calls', h) + Msecs[h] + f >= u + Left(list', h)
    <3>1. Done(calls, h) + Msecs[h] + e >= t + Left(list, h)
      BY <1>5, <2>2
    <3>2. PICK d \in Nat, k \in Nat, x \in Nat : d = Done(calls, h) /\ k = Msecs[h] /\ x = Left(list, h)
      BY <1>6, <1>7, <1>8, <2>2
    <3>3. d + k + e >= t + x BY <3>1, <3>2
    <3>4. d + k + f >= u + x BY <1>11, <3>3
    <3> QED BY <2>1, <2>2, <3>2, <3>4
  <2>3. ASSUME tmp \in Periodic, Done(calls, tmp) + e >= t PROVE Done(calls', tmp) + f >= u
    <3>1. PICK d \in Nat : d = Done(calls, tmp)
      BY <1>6, <1>8, <2>3
    <3>2. d + e >= t BY <2>3, <3>1
    <3>3. d + f >= u BY <1>11, <3>2
    <3> QED BY <2>1, <3>1, <3>3
  <2> QED BY <2>1, <2>2, <2>3
<1>12. ASSUME clock' = clock, ~Unlink, ~Leave, last' = last \/ Test PROVE u = t /\ f = e /\ u + e <= t + f
  <2>1. ~Tick BY <1>1, <1>12, TickMoves
  <2>2. f = e /\ u = t BY <1>2, <1>3, <1>12, <2>1
  <2> QED BY <2>2
\* A timer armed outside sys_check_timeouts or in it is still to expire.
<1>13. ASSUME NEW h \in Handlers, ~InList(list, h), Arm(h), now' = now, last' = last
       PROVE  /\ \A x : InList(list', x) => (InList(list, x) /\ Left(list', x) = Left(list, x)) \/ (x = h /\ g < Left(list', x))
              /\ \A x : InList(list, x) => Left(list', x) = Left(list, x)
              /\ InList(list', h) => Left(list', h) = Msecs[h]
  <2>1. /\ \A x : InList(list, x) => InList(list', x) /\ Left(list', x) = Left(list, x)
        /\ \A x : InList(list', x) => InList(list, x) \/ x = h
        /\ free # 0 => InList(list', h) /\ Left(list', h) = Msecs[h]
        /\ free = 0 => list' = list
    BY <1>1, <1>13, ArmKeeps
  <2>2. InList(list', h) => Left(list', h) = Msecs[h] BY <1>13, <2>1
  <2>3. InList(list', h) => g < Left(list', h)
    <3>1. ~(Msecs[h] <= (now + TimeMod - last) % TimeMod) \/ ~InList(list', h)
      BY <1>13 DEF ArmedDue
    <3>2. ~(Msecs[h] <= g) \/ ~InList(list', h)
      BY <1>4, <3>1 DEF Gone
    <3>3. PICK k \in Nat : k = Msecs[h] BY <1>6
    <3>4. ~(k <= g) => g < k OBVIOUS
    <3> QED BY <2>2, <3>2, <3>3, <3>4
  <2> QED BY <2>1, <2>2, <2>3
<1>14. CASE Look
  <2>1. /\ pc = "idle" /\ pc' = "loop" /\ now' = clock /\ diff' = sl /\ list' = list /\ last' = last
        /\ clock' = clock /\ tmp' = tmp /\ ~Unlink /\ ~Leave
    BY <1>4, <1>14 DEF Look, Unlink, Leave
  <2>2. Since(now)' = 0 BY <1>1, <2>1, SinceClock DEF Since
  <2>3. Gone' = diff' BY <1>4, <2>1 DEF Gone, Since
  <2>4. ASSUME NEW h, InList(list', h) PROVE diff' <= Left(list', h)
    <3>1. PICK x \in Nat : x = Left(list, h) /\ g < x BY <1>5, <1>7, <2>1, <2>4
    <3>2. sl <= x BY <1>4, <1>5, <3>1
    <3> QED BY <2>1, <3>1, <3>2
  <2>5. 0 <= 1 OBVIOUS
  <2> QED BY <1>11, <1>12, <2>1, <2>2, <2>3, <2>4, <2>5
<1>15. CASE Leave
  <2>1. /\ pc = "loop" /\ pc' = "idle" /\ now' = now /\ list' = list /\ last' = last
        /\ clock' = clock /\ tmp' = tmp /\ (list = <<>> \/ Head(list).time > diff) /\ ~Unlink /\ ~Tick
    BY <1>1, <1>15, TickMoves DEF Unlink, Leave
  <2>2. ASSUME NEW h, InList(list', h) PROVE g < Left(list', h)
    <3>1. PICK i \in 1 .. Len(list) : Left(list, h) = Ahead(list, i) BY <1>1, <2>1, <2>2, LeftIs
    <3>2. list # <<>> BY <2>1, <2>2 DEF InList
    <3>3. Ahead(list, 1) = Head(list).time /\ 1 \in 1 .. Len(list) BY <1>1, <3>2, FirstIs
    <3>4. 1 <= i /\ 1 \in 0 .. Len(list) /\ i \in 0 .. Len(list) BY <3>1, <3>3
    <3>5. Ahead(list, 1) <= Ahead(list, i) /\ Ahead(list, 1) \in Nat /\ Ahead(list, i) \in Nat
      BY <1>1, <3>4, AheadIs
    <3>6. PICK x \in Nat, y \in Nat : x = Ahead(list, 1) /\ y = Ahead(list, i) /\ x <= y /\ g < x
      BY <1>5, <2>1, <3>2, <3>3, <3>5
    <3>7. g < y BY <3>6
    <3> QED BY <2>1, <3>1, <3>6, <3>7
  <2>3. ASSUME NEW h \in Periodic, InList(list', h)
        PROVE  Done(calls', h) + Msecs[h] + f >= u + Left(list', h)
    <3>1. PICK x \in Nat, k \in Nat : x = Left(list, h) /\ k = Msecs[h] /\ x <= k /\ g <= x /\ k + 1 < m
      BY <1>5, <1>6, <1>7, <2>1, <2>3
    <3>2. g + sn < m BY <1>5, <3>1
    <3>3. e = sn + g BY <1>3, <1>4, <1>5, <2>1 DEF Elapsed
    <3>4. f = sl BY <1>3, <1>4, <2>1 DEF Elapsed, Since
    <3>5. u = t BY <1>3, <2>1
    <3>6. u + e <= t + f BY <1>4, <3>2, <3>3, <3>4, <3>5
    <3> QED BY <1>11, <2>1, <2>3, <3>6
  <2> QED BY <1>5, <1>10, <2>1, <2>2, <2>3
<1>16. CASE Test
  <2>1. /\ pc = "loop" /\ pc' = "unlink" /\ list # <<>> /\ Head(list).time <= diff /\ tmp' = Head(list).h
        /\ now' = now /\ list' = list /\ clock' = clock /\ diff' = diff /\ ~Unlink /\ ~Leave
    BY <1>16 DEF Test, Unlink, Leave
  <2>2. diff' = Left(list', tmp')
    <3>1. 1 \in 1 .. Len(list) /\ Head(list) = list[1] /\ Ahead(list, 1) = Head(list).time /\ list[1].time \in Nat
      BY <1>1, <2>1, FirstIs
    <3>2. InList(list, tmp') /\ Left(list, tmp') = Head(list).time
      BY <1>1, <2>1, <3>1, PlaceOfItsHandler DEF Left
    <3>3. PICK x \in Nat : x = Head(list).time /\ x <= g /\ g <= x BY <1>5, <2>1, <3>1, <3>2
    <3>4. x = g BY <3>3
    <3> QED BY <1>5, <2>1, <3>2, <3>3, <3>4
  <2> QED BY <1>5, <1>10, <1>11, <1>12, <1>16, <2>1, <2>2
<1>17. CASE Unlink
  <2>1. /\ pc = "unlink" /\ pc' = "call" /\ tmp' = tmp /\ clock' = clock /\ now' = now /\ last' = last
        /\ Place(list, tmp) = 1 /\ ~Tick
    BY <1>1, <1>17, TickMoves DEF Unlink, NoneEarly
  <2>2. InList(list, tmp) /\ tmp \in Handlers BY <1>1, <1>7, <2>1 DEF Expiring
  <2>3. PICK x \in Nat :
           /\ x = list[1].time /\ x = Left(list, tmp) /\ diff' = diff - x
           /\ \A h : InList(list', h) <=> InList(list, h) /\ h # tmp
           /\ \A h : InList(list', h) => Left(list', h) = Left(list, h) - x
           /\ \A h : InList(list, h) => Left(list, h) \in Nat /\ x <= Left(list, h)
    BY <1>1, <1>17, <2>1, <2>2, FirstUnlinked
  <2>4. u = t /\ f = e - x BY <1>2, <1>3, <1>17, <2>1, <2>3
  <2>5. diff' = 0
    <3>1. diff' = x - x BY <1>5, <2>1, <2>3
    <3> QED BY <3>1
  <2>6. \A h : h # tmp => Done(calls', h) = Done(calls, h)
    BY <1>17 DEF Done, HistoryTypes
  <2>7. ASSUME tmp \in Periodic PROVE Done(calls', tmp) + f >= u
    <3>1. Done(calls', tmp) = (calls[tmp] + 1) * Msecs[tmp]
      BY <1>17, <2>2 DEF Done, HistoryTypes
    <3>2. PICK d \in Nat, k \in Nat : d = Done(calls, tmp) /\ k = Msecs[tmp] BY <1>6, <2>2
    <3>3. d + k + e >= t + x BY <1>5, <2>2, <2>3, <2>7, <3>2
    <3>4. d + k + f >= u
      <4>1. f = e - x /\ u = t BY <2>4
      <4> QED BY <3>3, <4>1
    <3> QED BY <2>2, <3>1, <3>2, <3>4, DoneIs
  <2>8. ASSUME NEW h \in Periodic, InList(list', h)
        PROVE  Done(calls', h) + Msecs[h] + f >= u + Left(list', h)
    <3>1. h # tmp /\ InList(list, h) BY <2>3, <2>8
    <3>2. PICK d \in Nat, k \in Nat, y \in Nat : d = Done(calls, h) /\ k = Msecs[h] /\ y = Left(list, h) /\ x <= y
      BY <1>6, <1>8, <2>3, <3>1
    <3>3. d + k + e >= t + y BY <1>5, <3>1, <3>2
    <3>4. d + k + f >= u + (y - x)
      <4>1. f = e - x /\ u = t BY <2>4
      <4> QED BY <3>2, <3>3, <4>1
    <3> QED BY <2>3, <2>6, <2>8, <3>1, <3>2, <3>4
  <2> QED BY <1>5, <1>10, <2>1, <2>5, <2>7, <2>8
<1>18. CASE Call
  <2>1. /\ pc = "call" /\ pc' = "loop" /\ now' = now /\ last' = last /\ clock' = clock /\ diff' = diff
        /\ (list' = list \/ (tmp \in Handlers /\ Arm(tmp))) /\ ~Unlink /\ ~Leave
    BY <1>1, <1>8, <1>18 DEF Call, Unlink, Leave
  <2>2. ~InList(list, tmp) /\ last = now BY <1>1, <2>1 DEF Expiring, ClockKept
  <2>3. ~Unlink /\ ~Leave BY <2>1 DEF Unlink, Leave
  <2>4. diff' = 0 /\ Gone' = 0 BY <1>4, <1>5, <1>10, <2>1, <2>2
  <2>5. \A h : InList(list', h) => 0 <= Left(list', h)
    <3>1. list' \in Seq(Timer) /\ Once(list') BY DEF Inv, Typed, Timer, Once
    <3> QED BY <3>1, LeftIs
  <2>6. CASE list' = list
    BY <1>5, <1>10, <1>11, <1>12, <2>1, <2>3, <2>4, <2>5, <2>6
  <2>7. CASE tmp \in Handlers /\ Arm(tmp)
    <3>1. /\ \A x : InList(list', x) => (InList(list, x) /\ Left(list', x) = Left(list, x)) \/ x = tmp
          /\ InList(list', tmp) => Left(list', tmp) = Msecs[tmp]
      BY <1>13, <2>1, <2>2, <2>7
    <3>2. ASSUME tmp \in Periodic PROVE Done(calls', tmp) + Msecs[tmp] + f >= u + Msecs[tmp]
      <4>1. Done(calls', tmp) + f >= u BY <1>5, <1>11, <1>12, <2>1, <2>3, <3>2
      <4>2. PICK d \in Nat, k \in Nat : d = Done(calls', tmp) /\ k = Msecs[tmp]
        BY <1>6, <1>8, <1>11, <1>12, <2>1, <2>3, <3>2
      <4>3. d + f >= u BY <4>1, <4>2
      <4>4. d + k + f >= u + k BY <4>3
      <4> QED BY <4>2, <4>4
    <3> QED BY <1>5, <1>10, <1>11, <1>12, <2>1, <2>3, <2>4, <2>5, <3>1, <3>2
  <2> QED BY <2>1, <2>6, <2>7
<1>19. CASE Tick
  <2>1. /\ now' = now /\ last' = last /\ list' = list /\ pc' = pc /\ diff' = diff /\ tmp' = tmp
        /\ clock' = (clock + 1) % TimeMod
    BY <1>19 DEF Tick
  <2>2. ~Unlink BY <2>1 DEF Unlink
  <2>3. sn = 0
    <3>1. ~(sn > 0) BY <1>1, <1>4, <1>19, TickMoves DEF Lags
    <3> QED BY <3>1
  <2>4. Since(now)' = IF sn + 1 = m THEN 0 ELSE sn + 1
    BY <1>1, <1>4, <2>1, TickSince DEF Since
  <2>5. Since(now)' = 1 BY <1>4, <2>3, <2>4
  <2>6. u = t + 1 BY <1>3, <1>19
  <2>7. pc # "idle" => u + e <= t + f
    <3>1. ASSUME pc # "idle" PROVE u + e <= t + f
      <4>1. diff \in Nat BY SizesAre DEF Inv, Typed, Time
      <4>2. PICK d \in Nat : d = diff BY <4>1
      <4>3. e = sn + d /\ f = 1 + d BY <1>3, <1>4, <2>1, <2>5, <3>1, <4>2 DEF Elapsed
      <4> QED BY <2>3, <2>6, <4>3
    <3> QED BY <3>1
  <2>8. ASSUME pc = "idle", NEW h \in Periodic, InList(list, h) PROVE u + e <= t + f
    <3>1. PICK x \in Nat, k \in Nat : x = Left(list, h) /\ k = Msecs[h] /\ x <= k /\ g < x /\ k + 1 < m
      BY <1>5, <1>6, <1>7, <1>8, <2>8
    <3>2. sl + 1 # m BY <1>4, <2>3, <3>1
    <3>3. Since(last)' = IF sl + 1 = m THEN 0 ELSE sl + 1
      BY <1>1, <1>4, <2>1, TickSince DEF Since
    <3>4. e = sl /\ f = sl + 1 BY <1>3, <1>4, <2>1, <2>8, <3>2, <3>3 DEF Elapsed
    <3> QED BY <2>6, <3>4
  <2>9. \A h \in Periodic : InList(list, h) => u + e <= t + f BY <2>7, <2>8
  <2>10. \A h \in Periodic : InList(list', h) => Done(calls', h) + Msecs[h] + f >= u + Left(list', h)
    BY <1>11, <2>1, <2>2, <2>9
  <2>11. pc' = "call" /\ tmp' \in Periodic => Done(calls', tmp') + f >= u
    BY <1>5, <1>11, <2>1, <2>2, <2>7
  <2>12. 1 <= 1 OBVIOUS
  <2> QED BY <1>5, <1>10, <2>1, <2>5, <2>10, <2>11, <2>12
<1>20. CASE AppRestart \/ TcpGone
  <2>1. /\ now' = now /\ list' = list /\ pc' = pc /\ diff' = diff /\ tmp' = tmp /\ clock' = clock
        /\ last' = last
    <3>1. CASE AppRestart BY <3>1 DEF AppRestart, SetBack
    <3>2. CASE TcpGone BY <3>2 DEF TcpGone
    <3> QED BY <1>20, <3>1, <3>2
  <2>2. ~Unlink /\ ~Leave BY <2>1 DEF Unlink, Leave
  <2> QED BY <1>5, <1>10, <1>11, <1>12, <2>1, <2>2
<1>21. ASSUME NEW h \in OneShot, AppTimeout(h) \/ AppUntimeout(h)
       PROVE  /\ Since(now)' <= 1
              /\ pc' = "idle" => \A x : InList(list', x) => Gone' < Left(list', x)
              /\ pc' = "loop" => diff' = Gone' /\ \A x : InList(list', x) => diff' <= Left(list', x)
              /\ pc' = "unlink" => diff' = Left(list', tmp')
              /\ pc' = "call" => diff' = 0
              /\ \A x \in Periodic : InList(list', x) => Done(calls', x) + Msecs[x] + f >= u + Left(list', x)
              /\ pc' = "call" /\ tmp' \in Periodic => Done(calls', tmp') + f >= u
  <2>1. /\ pc = "idle" /\ pc' = "idle" /\ h \in Handlers /\ h \notin Periodic
        /\ now' = now /\ last' = last /\ clock' = clock
    BY <1>21, HandlerAssumption DEF AppTimeout, AppUntimeout, Handlers
  <2>2. ~Unlink /\ ~Leave BY <2>1 DEF Unlink, Leave
  <2>3. \A x : InList(list', x) => (InList(list, x) /\ Left(list', x) = Left(list, x)) \/ (x = h /\ g < Left(list', x))
    <3>1. CASE AppTimeout(h)
      <4>1. ~InList(list, h) /\ Arm(h) BY <3>1 DEF AppTimeout
      <4> QED BY <1>13, <2>1, <4>1
    <3>2. CASE AppUntimeout(h)
      <4>1. list' = Remove(list, h) BY <3>2 DEF AppUntimeout
      <4>2. CASE ~InList(list, h)
        <5>1. list' = list BY <4>1, <4>2 DEF Remove
        <5> QED BY <5>1
      <4>3. CASE InList(list, h)
        <5>1. PICK n \in Seq(Timer) :
                 /\ n = Remove(list, h) /\ Len(n) = Len(list) - 1 /\ Once(n)
                 /\ \A x : InList(n, x) <=> (x # h /\ InList(list, x))
                 /\ \A x : InList(n, x) => Left(n, x) = Left(list, x)
          BY <1>1, <4>3, RemoveLeft
        <5>2. n = list' BY <4>1, <5>1
        <5> QED BY <5>1, <5>2
      <4> QED BY <4>2, <4>3
    <3> QED BY <1>21, <3>1, <3>2
  <2> QED BY <1>5, <1>10, <1>11, <1>12, <2>1, <2>2, <2>3
<1>22. CASE TcpOpen
  <2>1. /\ pc' = pc /\ tmp' = tmp /\ now' = now /\ last' = last /\ clock' = clock /\ diff' = diff
        /\ IF tcpActive THEN list' = list ELSE Arm(TcpTimer)
    BY <1>22 DEF TcpOpen
  <2>2. ~Unlink /\ ~Leave BY <2>1 DEF Unlink, Leave
  <2>3. CASE list' = list BY <1>5, <1>10, <1>11, <1>12, <2>1, <2>2, <2>3
  <2>4. CASE ~tcpActive /\ list' # list
    <3>1. ~InList(list, TcpTimer) BY <1>1, <2>4 DEF TcpKnown
    <3>2. \A x : InList(list', x) => (InList(list, x) /\ Left(list', x) = Left(list, x)) \/ (x = TcpTimer /\ g < Left(list', x))
      BY <1>8, <1>13, <2>1, <2>4, <3>1
    <3>3. pc # "unlink" BY <2>1, <2>4
    <3>4. \A x : InList(list', x) => Left(list', x) \in Nat
      <4>1. list' \in Seq(Timer) /\ Once(list') BY DEF Inv, Typed, Timer, Once
      <4> QED BY <4>1, LeftIs
    <3>5. ASSUME pc = "loop", NEW x, InList(list', x) PROVE diff' <= Left(list', x)
      <4>1. PICK y \in Nat : y = Left(list', x) /\ (g <= y \/ g < y) BY <1>5, <3>2, <3>4, <3>5
      <4>2. g <= y BY <4>1
      <4> QED BY <1>5, <2>1, <3>5, <4>1, <4>2
    <3> QED BY <1>5, <1>8, <1>10, <1>11, <1>12, <2>1, <2>2, <3>2, <3>3, <3>5
  <2> QED BY <2>1, <2>3, <2>4
<1> QED BY <1>14, <1>15, <1>16, <1>17, <1>18, <1>19, <1>20, <1>21, <1>22 DEF Step, Check, App
LEMMA LateInit == HistoryInit => LateInv
<1> SUFFICES ASSUME HistoryInit PROVE LateInv
  OBVIOUS
<1>1. /\ Init /\ ticks = 0 /\ calls = NoCalls /\ pc = "idle" /\ clock = 0 /\ now = 0 /\ last = 0
      /\ free = PoolSize - Cardinality(Periodic)
  BY DEF HistoryInit, Init
<1>2. EarlyInv
  BY EarlyInit
<1>3. /\ list \in Seq(Timer) /\ Once(list) /\ Len(list) = Cardinality(Periodic) /\ Cardinality(Periodic) \in Nat
      /\ \A h : InList(list, h) => h \in Periodic /\ Left(list, h) = Msecs[h]
  BY <1>1, InitIs
<1>4. \A h \in Periodic : InList(list, h) /\ Left(list, h) = Msecs[h]
  BY <1>3, BoundAssumption, Counted
<1>5. \A h \in Periodic : h \in Handlers /\ Msecs[h] \in Nat \ {0}
  BY SizesAre DEF Handlers
<1>6. Wait
  <2>1. \A h \in Periodic : Msecs[h] <= Msecs[h] BY <1>5
  <2> QED BY <1>1, <1>3, <2>1 DEF Wait, Own
<1>7. NoneLost
  <2>1. PICK s \in Nat, n \in Nat : s = PoolSize /\ n = Cardinality(Periodic) BY <1>3, SizesAre
  <2>2. (s - n) + n = s BY <2>1
  <2> QED BY <1>1, <1>3, <1>4, <2>1, <2>2 DEF NoneLost
<1>8. clock \in Time /\ now \in Time /\ last \in Time
  BY <1>2 DEF EarlyInv, Inv, Typed
<1>9. Since(now) = 0 /\ Since(last) = 0 /\ Gone = 0 /\ Elapsed = 0
  BY <1>1, <1>8, SinceClock, GoneIs DEF Elapsed
<1>10. ASSUME NEW h \in Periodic
       PROVE  /\ Gone < Left(list, h)
              /\ Done(calls, h) + Msecs[h] + Elapsed >= ticks + Left(list, h)
  <2>1. PICK k \in Nat : k = Msecs[h] /\ k # 0 BY <1>5
  <2>2. calls[h] = 0 BY <1>1, <1>5 DEF NoCalls
  <2>3. Done(calls, h) = 0
    <3>1. 0 * k = 0 OBVIOUS
    <3> QED BY <2>1, <2>2, <3>1 DEF Done
  <2>4. Left(list, h) = k BY <1>4, <2>1
  <2>5. 0 < k /\ 0 + k + 0 >= 0 + k BY <2>1
  <2> QED BY <1>1, <1>9, <2>1, <2>3, <2>4, <2>5
<1>11. NoneLate
  <2>1. 0 <= 1 OBVIOUS
  <2> QED BY <1>1, <1>3, <1>9, <1>10, <2>1 DEF NoneLate
<1> QED BY <1>2, <1>6, <1>7, <1>11 DEF LateInv

LEMMA LateNext ==
    ASSUME LateInv, EarlyInv', [Watches]_<<timers, history>>
    PROVE  LateInv'
<1>1. CASE UNCHANGED <<timers, history>>
  <2>1. Wait' BY <1>1 DEF LateInv, Wait, Own, timers, InList, Left, Place
  <2>2. NoneLost => NoneLost' BY <1>1 DEF NoneLost, timers, InList
  <2>3. Elapsed' = Elapsed /\ Gone' = Gone /\ Since(now)' = Since(now)
    BY <1>1 DEF Elapsed, Gone, timers, Since
  <2>4. NoneLate => NoneLate'
    <3>1. /\ \A h : (InList(list, h)' <=> InList(list, h)) /\ Left(list, h)' = Left(list, h)
          /\ \A h : Done(calls, h)' = Done(calls, h)
          /\ Left(list, tmp)' = Left(list, tmp) /\ Done(calls, tmp)' = Done(calls, tmp)
      BY <1>1 DEF timers, history, InList, Left, Place, Done
    <3> QED BY <1>1, <2>3, <3>1 DEF NoneLate, timers, history
  <2>5. (Observed' => Observed) /\ late' = late BY <1>1 DEF Observed, history
  <2> QED BY <2>1, <2>2, <2>4, <2>5 DEF LateInv
<1>2. CASE Watches
  <2>1. /\ Inv /\ HistoryTypes /\ ClockKept /\ Step /\ Wait /\ Inv' /\ HistoryTypes'
        /\ Observed => NoneEarly /\ NoneLost
        /\ Observed /\ ~late => NoneLate
    BY <1>2 DEF EarlyInv, LateInv, Watches, Recorded
  <2>2. Observed' =>
          /\ Observed
          /\ ticks' = IF Tick THEN ticks + 1 ELSE ticks
          /\ calls' = IF Unlink THEN [calls EXCEPT ![tmp] = @ + 1] ELSE calls
          /\ pc = "unlink" /\ pc' = "unlink" => list' = list
          /\ ~late' => ~late /\ ~Lags /\ ~SetBack /\ \A h \in Handlers : ~ArmedDue(h)
    BY <1>2, <2>1, HistoryIs
  <2>3. Wait' BY <2>1, WaitStep
  <2>4. Observed' => NoneLost'
    <3>1. NoneEarly => (pc = "unlink" => Place(list, tmp) = 1) BY DEF NoneEarly
    <3> QED BY <2>1, <2>2, <3>1, LostStep
  <2>5. ASSUME Observed', ~late' PROVE NoneLate'
    BY <2>1, <2>2, <2>5, LateStep
  <2> QED BY <2>3, <2>4, <2>5 DEF LateInv
<1> QED BY <1>1, <1>2

LEMMA LateAlways == HistorySpec => []LateInv
<1>1. LateInv /\ EarlyInv' /\ [Watches]_<<timers, history>> => LateInv'
  BY LateNext
<1> QED BY <1>1, LateInit, EarlyAlways, HistoryStep, PTL DEF HistorySpec

LEMMA Late == LateInv => OnTime
<1> SUFFICES ASSUME LateInv, ~late, ~torn, ticks < Horizon, pc = "idle", now = clock, NEW h \in Periodic
             PROVE  (calls[h] + 1) * Msecs[h] > ticks
  BY DEF OnTime
<1>1. /\ HistoryTypes /\ Inv /\ ticks # Horizon
  BY DEF LateInv, EarlyInv, HistoryTypes
<1>2. NoneLost /\ NoneLate
  BY <1>1 DEF LateInv, Observed
<1>3. InList(list, h)
  BY <1>2 DEF NoneLost
<1>4. h \in Handlers /\ list \in Seq(Timer) /\ Once(list) /\ clock \in Time /\ now \in Time /\ last \in Time
  BY <1>1 DEF Handlers, Inv, Typed, Timer
<1>5. PICK t \in Nat, g \in Nat, x \in Nat, d \in Nat, k \in Nat :
         t = ticks /\ g = Gone /\ x = Left(list, h) /\ d = Done(calls, h) /\ k = Msecs[h]
  BY <1>1, <1>3, <1>4, GoneIs, LeftIs, DoneIs DEF HistoryTypes
<1>6. Elapsed = g
  BY <1>4, <1>5, GoneIs DEF Elapsed
<1>7. g < x /\ d + k + g >= t + x
  BY <1>2, <1>3, <1>5, <1>6 DEF NoneLate
<1>8. d + k > t
  BY <1>7
<1> QED BY <1>1, <1>4, <1>5, <1>8, DoneIs

\* A periodic handler is called neither too often nor, as long as the main
\* loop looks at the clock at every tick and no timer is armed that is due
\* already, too late.
THEOREM Keeps == HistorySpec => []KeepsTime
<1>1. LateInv => KeepsTime
  BY Early, Late DEF LateInv, KeepsTime
<1> QED BY <1>1, LateAlways, PTL

=============================================================================
