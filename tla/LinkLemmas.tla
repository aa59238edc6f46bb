------------------------------ MODULE LinkLemmas ------------------------------
(***************************************************************************)
(* Lemmas the proofs about the links share: counters that wrap, sequences, *)
(* a pair of priority queues, and the numbers a queue carries in order.    *)
(***************************************************************************)
EXTENDS Integers, Sequences, TLAPS

-----------------------------------------------------------------------------
(* Counters that wrap.                                                      *)

LEMMA Remainder ==
  ASSUME NEW m \in Nat, NEW x \in 0..(2 * m - 1), m > 0
  PROVE  x % m = IF x < m THEN x ELSE x - m
<1>1. CASE x < m
  BY <1>1
<1>2. CASE x >= m
  BY <1>2
<1> QED
  BY <1>1, <1>2

LEMMA Distance ==
  ASSUME NEW m \in Nat, NEW a \in 0..(m - 1), NEW c \in 0..(m - 1)
  PROVE  (a + m - c) % m = IF a < c THEN a + m - c ELSE a - c
<1>1. a + m - c \in 0..(2 * m - 1) /\ m > 0
  OBVIOUS
<1>2. (a + m - c) % m = IF a + m - c < m THEN a + m - c ELSE a + m - c - m
  BY <1>1, Remainder
<1> QED
  BY <1>2

LEMMA Wrapped ==
  ASSUME NEW m \in Nat, NEW c \in 0..(m - 1), NEW k \in 0..(m - 1)
  PROVE  /\ (c + k) % m \in 0..(m - 1)
         /\ (c + k) % m = IF c + k < m THEN c + k ELSE c + k - m
<1>1. c + k \in 0..(2 * m - 1) /\ m > 0
  OBVIOUS
<1>2. (c + k) % m = IF c + k < m THEN c + k ELSE c + k - m
  BY <1>1, Remainder
<1> QED
  BY <1>2

\* The counter that is ahead moves on.
LEMMA AheadMoves ==
  ASSUME NEW m \in Nat, NEW a \in 0..(m - 1), NEW c \in 0..(m - 1), NEW k \in 0..(m - 1),
         NEW d \in Nat, (a + m - c) % m = d, d + k < m,
         NEW b, b = (a + k) % m
  PROVE  b \in 0..(m - 1) /\ (b + m - c) % m = d + k
<1>1. b \in 0..(m - 1) /\ b = IF a + k < m THEN a + k ELSE a + k - m
  BY Wrapped
<1>2. d = IF a < c THEN a + m - c ELSE a - c
  BY Distance
<1> DEFINE y == (b + m - c) % m
<1>3. y = IF b < c THEN b + m - c ELSE b - c
  BY <1>1, Distance
<1> HIDE DEF y
<1>4. y = d + k
  BY <1>1, <1>2, <1>3
<1> QED
  BY <1>1, <1>4 DEF y

LEMMA AheadFromZero ==
  ASSUME NEW m \in Nat, NEW a \in 0..(m - 1), NEW c \in 0..(m - 1), NEW k \in 0..(m - 1),
         (a + m - c) % m = 0, NEW b, b = (a + k) % m
  PROVE  b \in 0..(m - 1) /\ (b + m - c) % m = k
<1>1. 0 \in Nat /\ 0 + k < m /\ 0 + k = k
  OBVIOUS
<1> QED
  BY <1>1, AheadMoves

\* The counter that is behind catches up.
LEMMA BehindMoves ==
  ASSUME NEW m \in Nat, NEW a \in 0..(m - 1), NEW c \in 0..(m - 1), NEW k \in 0..(m - 1),
         NEW d \in Nat, (a + m - c) % m = d, k <= d,
         NEW b, b = (c + k) % m
  PROVE  b \in 0..(m - 1) /\ (a + m - b) % m = d - k
<1>1. b \in 0..(m - 1) /\ b = IF c + k < m THEN c + k ELSE c + k - m
  BY Wrapped
<1>2. d = IF a < c THEN a + m - c ELSE a - c
  BY Distance
<1> DEFINE y == (a + m - b) % m
<1>3. y = IF a < b THEN a + m - b ELSE a - b
  BY <1>1, Distance
<1> HIDE DEF y
<1>4. y = d - k
  BY <1>1, <1>2, <1>3
<1> QED
  BY <1>1, <1>4 DEF y

\* Whole turns of m.
LEMMA Multiple ==
  ASSUME NEW m \in Nat, m > 0, NEW k \in Int, NEW r \in 0..(m - 1), NEW t \in 0..(m - 1),
         t = m * k + r
  PROVE  k = 0 /\ t = r
<1>1. CASE k >= 1
  <2>1. PICK j \in Nat : k = j + 1
    BY <1>1
  <2>2. m * k = m * j + m
    BY <2>1
  <2>3. m * j >= 0
    OBVIOUS
  <2> QED
    BY <2>2, <2>3
<1>2. CASE k <= -1
  <2>1. PICK j \in Nat : k = -1 - j
    <3>1. -1 - k \in Nat /\ k = -1 - (-1 - k)
      BY <1>2
    <3> QED
      BY <3>1
  <2>2. m * k = -m - m * j
    BY <2>1
  <2>3. m * j >= 0
    OBVIOUS
  <2> QED
    BY <2>2, <2>3
<1>3. CASE k = 0
  BY <1>3
<1> QED
  BY <1>1, <1>2, <1>3

LEMMA Divided ==
  ASSUME NEW m \in Nat, m > 0, NEW a \in Int
  PROVE  a % m \in 0..(m - 1) /\ a \div m \in Int /\ a = m * (a \div m) + (a % m)
<1>1. a % m \in 0..(m - 1)
  OBVIOUS
<1>2. a \div m \in Int
  OBVIOUS
<1>3. a = m * (a \div m) + (a % m)
  OBVIOUS
<1> QED
  BY <1>1, <1>2, <1>3

\* The remainder is the one number below m that leaves whole turns.
LEMMA RemainderOf ==
  ASSUME NEW m \in Nat, m > 0, NEW a \in Nat, NEW k \in Int, NEW r \in 0..(m - 1),
         a = m * k + r
  PROVE  a % m = r
<1> DEFINE d == a \div m t == a % m
<1>1. t \in 0..(m - 1) /\ d \in Int /\ a = m * d + t
  BY Divided
<1> HIDE DEF d, t
<1>2. t = m * (k - d) + r
  <2>1. m * (k - d) = m * k - m * d
    BY <1>1
  <2> QED
    BY <1>1, <2>1
<1>3. k - d \in Int
  BY <1>1
<1>4. t = r
  BY <1>1, <1>2, <1>3, Multiple
<1> QED
  BY <1>4 DEF t

LEMMA WholeTurns ==
  ASSUME NEW m \in Nat, m > 0, NEW a \in Nat, NEW j \in 0..(m - 1)
  PROVE  /\ (a + m) % m = a % m
         /\ a % m = 0 => (a + j) % m = j
         /\ j % m = j
<1> DEFINE d == a \div m t == a % m
<1>1. t \in 0..(m - 1) /\ d \in Int /\ a = m * d + t
  BY Divided
<1> HIDE DEF d, t
<1>2. (a + m) % m = t
  <2>1. a + m = m * (d + 1) + t
    BY <1>1
  <2>2. a + m \in Nat /\ d + 1 \in Int
    BY <1>1
  <2> QED
    BY <1>1, <2>1, <2>2, RemainderOf
<1>3. ASSUME t = 0 PROVE (a + j) % m = j
  <2>1. a + j = m * d + j /\ a + j \in Nat
    BY <1>1, <1>3
  <2> QED
    BY <1>1, <2>1, RemainderOf
<1>4. j % m = j
  <2>1. j = m * 0 + j /\ j \in Nat /\ 0 \in Int
    OBVIOUS
  <2> QED
    BY <2>1, RemainderOf
<1> QED
  BY <1>2, <1>3, <1>4 DEF t

-----------------------------------------------------------------------------
(* Sequences.                                                               *)

LEMMA AppendFacts ==
  ASSUME NEW S, NEW s \in Seq(S), NEW p \in S
  PROVE  Append(s, p) \in Seq(S) /\ Len(Append(s, p)) = Len(s) + 1
  OBVIOUS

LEMMA TailFacts ==
  ASSUME NEW S, NEW s \in Seq(S), s # << >>
  PROVE  Head(s) \in S /\ Tail(s) \in Seq(S) /\ Len(Tail(s)) = Len(s) - 1
  OBVIOUS

LEMMA JoinFacts ==
  ASSUME NEW S, NEW s \in Seq(S), NEW t \in Seq(S)
  PROVE  s \o t \in Seq(S) /\ Len(s \o t) = Len(s) + Len(t)
  OBVIOUS

LEMMA EmptyFacts ==
  ASSUME NEW S, NEW s \in Seq(S)
  PROVE  Len(s) \in Nat /\ (s = << >> <=> Len(s) = 0)
  OBVIOUS

\* A sequence that holds one element or none, and holds one.
LEMMA OnlyFacts ==
  ASSUME NEW S, NEW s \in Seq(S), s # << >>, Len(s) <= 1
  PROVE  Len(s) = 1 /\ s[1] \in S
<1>1. Len(s) \in Nat /\ Len(s) # 0
  BY EmptyFacts, Zenon
<1>2. Len(s) = 1
  BY <1>1
<1> QED
  BY <1>2

LEMMA OneFacts ==
  ASSUME NEW S, NEW x \in S
  PROVE  <<x>> \in Seq(S) /\ Len(<<x>>) = 1 /\ <<x>> # << >>
  OBVIOUS

LEMMA SumShift ==
  ASSUME NEW m \in Int, NEW n \in Int, NEW d \in Int
  PROVE  (m + d) + n = (m + n) + d /\ m + (n + d) = (m + n) + d
  OBVIOUS

-----------------------------------------------------------------------------
(* The two priority queues of a link and how many packets wait in them.     *)

Lanes == {"serial", "others"}
Total(f) == Len(f["serial"]) + Len(f["others"])

\* One packet more, or less, in one of the queues.
LEMMA TotalChange ==
  ASSUME NEW S, NEW f \in [Lanes -> Seq(S)], NEW g \in [Lanes -> Seq(S)],
         NEW q \in Lanes, NEW d \in Int, Len(g[q]) = Len(f[q]) + d,
         \A r \in Lanes : r # q => g[r] = f[r]
  PROVE  Total(g) = Total(f) + d
<1>1. /\ Len(f["serial"]) \in Nat /\ Len(f["others"]) \in Nat
      /\ Len(g["serial"]) \in Nat /\ Len(g["others"]) \in Nat
  BY EmptyFacts DEF Lanes
<1>2. /\ (Len(f["serial"]) + d) + Len(f["others"]) = Total(f) + d
      /\ Len(f["serial"]) + (Len(f["others"]) + d) = Total(f) + d
  <2>1. Len(f["serial"]) \in Int /\ Len(f["others"]) \in Int
    BY <1>1
  <2> QED
    BY <2>1, SumShift, Zenon DEF Total
<1>3. Total(g) = Len(g["serial"]) + Len(g["others"])
  BY Zenon DEF Total
<1>4. CASE q = "serial"
  <2>1. g["others"] = f["others"]
    BY <1>4 DEF Lanes
  <2> QED
    BY <1>2, <1>3, <1>4, <2>1, Zenon
<1>5. CASE q = "others"
  <2>1. g["serial"] = f["serial"]
    BY <1>5 DEF Lanes
  <2> QED
    BY <1>2, <1>3, <1>5, <2>1, Zenon
<1> QED
  BY <1>4, <1>5 DEF Lanes

LEMMA TotalFacts ==
  ASSUME NEW S, NEW f \in [Lanes -> Seq(S)]
  PROVE  /\ Total(f) \in Nat
         /\ \A q \in Lanes : Len(f[q]) \in Nat /\ Len(f[q]) <= Total(f)
         /\ Total(f) > 0 => f["serial"] # << >> \/ f["others"] # << >>
<1>1. f["serial"] \in Seq(S) /\ f["others"] \in Seq(S)
  BY DEF Lanes
<1>2. Len(f["serial"]) \in Nat /\ Len(f["others"]) \in Nat
  BY <1>1, EmptyFacts
<1>3. Total(f) \in Nat /\ \A q \in Lanes : Len(f[q]) \in Nat /\ Len(f[q]) <= Total(f)
  BY <1>2 DEF Total, Lanes
<1>4. ASSUME f["serial"] = << >>, f["others"] = << >> PROVE Total(f) = 0
  BY <1>1, <1>4, EmptyFacts DEF Total
<1> QED
  BY <1>3, <1>4

LEMMA PutTotal ==
  ASSUME NEW S, NEW f \in [Lanes -> Seq(S)], NEW q \in Lanes, NEW p \in S
  PROVE  LET g == [f EXCEPT ![q] = Append(f[q], p)]
         IN  /\ g \in [Lanes -> Seq(S)]
             /\ Total(g) = Total(f) + 1
             /\ \A size \in Nat :
                  Len(f[q]) < size /\ (\A r \in Lanes : Len(f[r]) <= size)
                    => \A r \in Lanes : Len(g[r]) <= size
<1> DEFINE s == Append(f[q], p)
           g == [f EXCEPT ![q] = s]
<1>3. s \in Seq(S) /\ Len(s) = Len(f[q]) + 1 /\ Len(f[q]) \in Nat
  BY AppendFacts
<1> HIDE DEF s
<1>4. g \in [Lanes -> Seq(S)] /\ g[q] = s /\ \A r \in Lanes : r # q => g[r] = f[r]
  BY <1>3
<1> HIDE DEF g
<1>5. 1 \in Int /\ Len(g[q]) = Len(f[q]) + 1
  BY <1>3, <1>4
<1>6. Total(g) = Total(f) + 1
  BY <1>4, <1>5, TotalChange, Zenon
<1>7. ASSUME NEW size \in Nat, Len(f[q]) < size, \A r \in Lanes : Len(f[r]) <= size
      PROVE  \A r \in Lanes : Len(g[r]) <= size
  <2>1. Len(g[q]) <= size
    BY <1>3, <1>4, <1>7
  <2> QED
    BY <1>4, <1>7, <2>1, Zenon
<1> QED
  BY <1>4, <1>6, <1>7 DEF g, s

LEMMA TakeTotal ==
  ASSUME NEW S, NEW f \in [Lanes -> Seq(S)], NEW q \in Lanes, f[q] # << >>
  PROVE  LET g == [f EXCEPT ![q] = Tail(f[q])]
         IN  /\ Head(f[q]) \in S
             /\ g \in [Lanes -> Seq(S)]
             /\ Total(g) = Total(f) - 1
             /\ \A r \in Lanes : Len(g[r]) <= Len(f[r])
<1> DEFINE s == Tail(f[q])
           g == [f EXCEPT ![q] = s]
<1>2. Head(f[q]) \in S /\ s \in Seq(S) /\ Len(s) = Len(f[q]) - 1 /\ Len(f[q]) \in Nat
  BY TailFacts
<1> HIDE DEF s
<1>3. g \in [Lanes -> Seq(S)] /\ g[q] = s /\ \A r \in Lanes : r # q => g[r] = f[r]
  BY <1>2
<1> HIDE DEF g
<1>4. -1 \in Int /\ Len(g[q]) = Len(f[q]) + (-1)
  BY <1>2, <1>3
<1>5. Total(g) = Total(f) + (-1)
  BY <1>3, <1>4, TotalChange, Zenon
<1>6. Total(g) = Total(f) - 1
  BY <1>5, TotalFacts
<1>7. \A r \in Lanes : Len(g[r]) <= Len(f[r])
  <2>1. Len(g[q]) <= Len(f[q])
    BY <1>2, <1>4
  <2>2. ASSUME NEW r \in Lanes, r # q PROVE Len(g[r]) <= Len(f[r])
    <3>1. g[r] = f[r] /\ Len(f[r]) \in Nat
      BY <1>3, <2>2, EmptyFacts
    <3> QED
      BY <3>1
  <2> QED
    BY <2>1, <2>2, Zenon
<1> QED
  BY <1>2, <1>3, <1>6, <1>7 DEF g, s

-----------------------------------------------------------------------------
(* What a stage of a link carries for one queue: the packets of interfaces  *)
(* ifs in it have growing numbers above a, up to b.                         *)

Numbered(P) == \A p \in P : p.n \in Nat

InOrder(s, ifs, a, b) ==
    /\ a \in Nat /\ b \in Nat /\ a <= b
    /\ \A i \in 1..Len(s) : s[i].if \in ifs => a < s[i].n /\ s[i].n <= b
    /\ \A i, j \in 1..Len(s) :
          i < j /\ s[i].if \in ifs /\ s[j].if \in ifs => s[i].n < s[j].n

\* None of the numbers is missing.
Complete(s, ifs, a, b) ==
    \A n \in (a + 1)..b : \E i \in 1..Len(s) : s[i].if \in ifs /\ s[i].n = n

LEMMA EmptyInOrder ==
  ASSUME NEW ifs, NEW a \in Nat, NEW b \in Nat, a <= b
  PROVE  InOrder(<< >>, ifs, a, b) /\ Complete(<< >>, ifs, a, a)
  BY DEF InOrder, Complete

LEMMA InOrderWider ==
  ASSUME NEW s, NEW ifs, NEW a \in Nat, NEW b \in Nat, InOrder(s, ifs, a, b),
         NEW c \in Nat, c <= a, NEW d \in Nat, b <= d,
         \A i \in 1..Len(s) : s[i].n \in Nat
  PROVE  InOrder(s, ifs, c, d)
  BY DEF InOrder

LEMMA AppendElements ==
  ASSUME NEW P, NEW s \in Seq(P), NEW p \in P
  PROVE  /\ Len(s) \in Nat /\ Len(Append(s, p)) = Len(s) + 1
         /\ \A i \in 1..Len(s) : Append(s, p)[i] = s[i]
         /\ Append(s, p)[Len(s) + 1] = p
  OBVIOUS

LEMMA TailElements ==
  ASSUME NEW P, NEW s \in Seq(P), s # << >>
  PROVE  /\ Len(s) \in Nat \ {0} /\ Len(Tail(s)) = Len(s) - 1
         /\ Head(s) = s[1] /\ \A i \in 1..(Len(s) - 1) : Tail(s)[i] = s[i + 1]
  OBVIOUS

\* A packet that is put behind the others has a higher number.
LEMMA AppendInOrder ==
  ASSUME NEW P, Numbered(P), NEW s \in Seq(P), NEW p \in P, NEW ifs,
         NEW a \in Nat, NEW b \in Nat, InOrder(s, ifs, a, b),
         NEW c \in Nat, b <= c, p.if \in ifs => b < p.n /\ p.n <= c
  PROVE  InOrder(Append(s, p), ifs, a, c)
<1> DEFINE t == Append(s, p) k == Len(s)
<1>1. /\ k \in Nat /\ Len(t) = k + 1 /\ t[k + 1] = p
      /\ \A i \in 1..k : t[i] = s[i] /\ s[i] \in P /\ s[i].n \in Nat
  BY AppendElements DEF Numbered
<1>2. p.n \in Nat /\ a <= b
  BY DEF Numbered, InOrder
<1>3. /\ \A i \in 1..k : s[i].if \in ifs => a < s[i].n /\ s[i].n <= b
      /\ \A i, j \in 1..k :
            i < j /\ s[i].if \in ifs /\ s[j].if \in ifs => s[i].n < s[j].n
  BY DEF InOrder
<1> HIDE DEF t, k
<1>4. ASSUME NEW i \in 1..(k + 1), t[i].if \in ifs PROVE a < t[i].n /\ t[i].n <= c
  <2>1. CASE i = k + 1
    BY <1>1, <1>2, <1>4, <2>1
  <2>2. CASE i \in 1..k
    <3>1. t[i] = s[i] /\ a < s[i].n /\ s[i].n <= b /\ s[i].n \in Nat
      BY <1>1, <1>3, <1>4, <2>2
    <3> QED
      BY <3>1
  <2> QED
    BY <1>1, <2>1, <2>2
<1>5. ASSUME NEW i \in 1..(k + 1), NEW j \in 1..(k + 1), i < j, t[i].if \in ifs,
             t[j].if \in ifs
      PROVE  t[i].n < t[j].n
  <2>1. i \in 1..k /\ t[i] = s[i]
    BY <1>1, <1>5
  <2>2. CASE j = k + 1
    <3>1. t[i].n \in Nat /\ t[i].n <= b /\ t[j] = p /\ b < p.n
      BY <1>1, <1>3, <1>5, <2>1, <2>2
    <3> QED
      BY <1>2, <3>1
  <2>3. CASE j \in 1..k
    BY <1>1, <1>3, <1>5, <2>1, <2>3
  <2> QED
    BY <1>1, <2>2, <2>3
<1>6. a <= c
  BY <1>2
<1> QED
  BY <1>1, <1>4, <1>5, <1>6 DEF InOrder, t

\* Whoever takes the first packet of a queue takes its lowest number.
LEMMA TailInOrder ==
  ASSUME NEW P, Numbered(P), NEW s \in Seq(P), s # << >>, NEW ifs,
         NEW a \in Nat, NEW b \in Nat, InOrder(s, ifs, a, b)
  PROVE  LET c == IF Head(s).if \in ifs THEN Head(s).n ELSE a
         IN  /\ c \in Nat /\ a <= c /\ c <= b
             /\ Head(s).if \in ifs => a < Head(s).n
             /\ InOrder(Tail(s), ifs, c, b)
<1> DEFINE t == Tail(s) k == Len(s) - 1 h == Head(s)
           c == IF h.if \in ifs THEN h.n ELSE a
<1>1. /\ k \in Nat /\ Len(t) = k /\ Len(s) = k + 1 /\ h = s[1]
      /\ \A i \in 1..k : t[i] = s[i + 1]
  BY TailElements
<1>2. \A i \in 1..(k + 1) : s[i].n \in Nat
  BY <1>1 DEF Numbered
<1>3. /\ \A i \in 1..(k + 1) : s[i].if \in ifs => a < s[i].n /\ s[i].n <= b
      /\ \A i, j \in 1..(k + 1) :
            i < j /\ s[i].if \in ifs /\ s[j].if \in ifs => s[i].n < s[j].n
      /\ a <= b
  BY <1>1 DEF InOrder
<1> HIDE DEF t, k, h
<1>4. 1 \in 1..(k + 1) /\ \A i \in 1..k : i + 1 \in 1..(k + 1) /\ 1 < i + 1
  BY <1>1
<1>5. c \in Nat /\ a <= c /\ c <= b /\ (h.if \in ifs => a < h.n)
  BY <1>1, <1>2, <1>3, <1>4
<1>6. ASSUME NEW i \in 1..k, t[i].if \in ifs PROVE c < t[i].n /\ t[i].n <= b
  BY <1>1, <1>3, <1>4, <1>6
<1>7. ASSUME NEW i \in 1..k, NEW j \in 1..k, i < j, t[i].if \in ifs, t[j].if \in ifs
      PROVE  t[i].n < t[j].n
  <2>1. i + 1 < j + 1
    BY <1>1, <1>7
  <2> QED
    BY <1>1, <1>3, <1>4, <1>7, <2>1
<1> HIDE DEF c
<1>8. InOrder(t, ifs, c, b)
  BY <1>1, <1>5, <1>6, <1>7 DEF InOrder
<1> QED
  BY <1>5, <1>8 DEF t, h, c

\* A queue that misses no number still misses none with the next one behind it.
LEMMA AppendComplete ==
  ASSUME NEW P, NEW s \in Seq(P), NEW p \in P, NEW ifs,
         NEW a \in Nat, NEW b \in Nat, Complete(s, ifs, a, b)
  PROVE  /\ Complete(Append(s, p), ifs, a, b)
         /\ p.if \in ifs /\ p.n = b + 1 => Complete(Append(s, p), ifs, a, b + 1)
<1> DEFINE t == Append(s, p) k == Len(s)
<1>1. k \in Nat /\ Len(t) = k + 1 /\ t[k + 1] = p /\ \A i \in 1..k : t[i] = s[i]
  BY AppendElements
<1>2. \A n \in (a + 1)..b : \E i \in 1..k : s[i].if \in ifs /\ s[i].n = n
  BY DEF Complete
<1> HIDE DEF t, k
<1>3. (1..k) \subseteq 1..(k + 1) /\ k + 1 \in 1..(k + 1)
  BY <1>1
<1>4. \A n \in (a + 1)..b : \E i \in 1..(k + 1) : t[i].if \in ifs /\ t[i].n = n
  <2> TAKE n \in (a + 1)..b
  <2>1. PICK i \in 1..k : s[i].if \in ifs /\ s[i].n = n
    BY <1>2
  <2> QED
    BY <1>1, <1>3, <2>1
<1>5. p.if \in ifs /\ p.n = b + 1
        => \A n \in (a + 1)..(b + 1) : \E i \in 1..(k + 1) : t[i].if \in ifs /\ t[i].n = n
  <2> HAVE p.if \in ifs /\ p.n = b + 1
  <2> TAKE n \in (a + 1)..(b + 1)
  <2>1. CASE n = b + 1
    BY <1>1, <1>3, <2>1
  <2>2. CASE n \in (a + 1)..b
    BY <1>4, <2>2
  <2> QED
    BY <2>1, <2>2
<1> QED
  BY <1>1, <1>4, <1>5 DEF Complete, t

\* A queue that misses no number begins with the lowest.
LEMMA TailComplete ==
  ASSUME NEW P, Numbered(P), NEW s \in Seq(P), s # << >>, NEW ifs,
         NEW a \in Nat, NEW b \in Nat, InOrder(s, ifs, a, b), Complete(s, ifs, a, b)
  PROVE  /\ Head(s).if \in ifs
              => Head(s).n = a + 1 /\ Complete(Tail(s), ifs, a + 1, b)
         /\ Head(s).if \notin ifs => Complete(Tail(s), ifs, a, b)
<1> DEFINE t == Tail(s) k == Len(s) - 1 h == Head(s)
<1>1. /\ k \in Nat /\ Len(t) = k /\ Len(s) = k + 1 /\ h = s[1]
      /\ \A i \in 1..k : t[i] = s[i + 1]
  BY TailElements
<1>2. \A i \in 1..(k + 1) : s[i].n \in Nat
  BY <1>1 DEF Numbered
<1>3. /\ \A i \in 1..(k + 1) : s[i].if \in ifs => a < s[i].n /\ s[i].n <= b
      /\ \A i, j \in 1..(k + 1) :
            i < j /\ s[i].if \in ifs /\ s[j].if \in ifs => s[i].n < s[j].n
  BY <1>1 DEF InOrder
<1>4. \A n \in (a + 1)..b : \E i \in 1..(k + 1) : s[i].if \in ifs /\ s[i].n = n
  BY <1>1 DEF Complete
<1> HIDE DEF t, k, h
<1>5. 1 \in 1..(k + 1)
  BY <1>1
<1>6. ASSUME h.if \in ifs PROVE h.n = a + 1
  <2>1. h.n \in Nat /\ a < h.n /\ h.n <= b
    BY <1>1, <1>2, <1>3, <1>5, <1>6
  <2>2. a + 1 \in (a + 1)..b
    BY <2>1
  <2>3. PICK i \in 1..(k + 1) : s[i].if \in ifs /\ s[i].n = a + 1
    BY <1>4, <2>2
  <2>4. CASE i = 1
    BY <1>1, <2>3, <2>4
  <2>5. CASE i # 1
    <3>1. 1 < i
      BY <1>1, <2>5
    <3>2. h.n < a + 1
      BY <1>1, <1>3, <1>5, <1>6, <2>3, <3>1
    <3> QED
      BY <2>1, <3>2
  <2> QED
    BY <2>4, <2>5
<1>7. ASSUME NEW c \in Nat, a <= c, h.if \in ifs => h.n <= c
      PROVE  \A n \in (c + 1)..b : \E i \in 1..k : t[i].if \in ifs /\ t[i].n = n
  <2> TAKE n \in (c + 1)..b
  <2>1. n \in (a + 1)..b
    BY <1>7
  <2>2. PICK i \in 1..(k + 1) : s[i].if \in ifs /\ s[i].n = n
    BY <1>4, <2>1
  <2>3. i # 1
    <3> SUFFICES ASSUME i = 1 PROVE FALSE
      OBVIOUS
    <3>1. h.if \in ifs /\ h.n = n
      BY <1>1, <2>2
    <3> QED
      BY <1>7, <3>1
  <2>4. i - 1 \in 1..k /\ (i - 1) + 1 = i
    BY <1>1, <2>3
  <2>5. t[i - 1] = s[i]
    BY <1>1, <2>4
  <2> QED
    BY <2>2, <2>4, <2>5
<1>8. h.if \in ifs => Complete(t, ifs, a + 1, b)
  <2> HAVE h.if \in ifs
  <2>1. a + 1 \in Nat /\ a <= a + 1 /\ h.n <= a + 1
    BY <1>6
  <2> QED
    BY <1>1, <1>7, <2>1 DEF Complete
<1>9. h.if \notin ifs => Complete(t, ifs, a, b)
  <2> HAVE h.if \notin ifs
  <2>1. a <= a
    OBVIOUS
  <2> QED
    BY <1>1, <1>7, <2>1 DEF Complete
<1> QED
  BY <1>6, <1>8, <1>9 DEF t, h

-----------------------------------------------------------------------------
(* A link is its stages joined, what is handed over next at the front: a    *)
(* packet that goes from one stage to the next leaves it as it is.          *)

LEMMA EmptyJoin ==
  ASSUME NEW S, NEW s \in Seq(S)
  PROVE  << >> \o s = s /\ s \o << >> = s
  OBVIOUS

LEMMA JoinJoin ==
  ASSUME NEW S, NEW s \in Seq(S), NEW t \in Seq(S), NEW u \in Seq(S)
  PROVE  (s \o t) \o u = s \o (t \o u)
  OBVIOUS

LEMMA HeadMoves ==
  ASSUME NEW S, NEW s \in Seq(S), s # << >>
  PROVE  <<Head(s)>> \o Tail(s) = s
  OBVIOUS

LEMMA AppendJoin ==
  ASSUME NEW S, NEW s \in Seq(S), NEW t \in Seq(S), NEW p \in S
  PROVE  Append(s, p) \o t = s \o (<<p>> \o t)
  OBVIOUS

LEMMA JoinAppend ==
  ASSUME NEW S, NEW s \in Seq(S), NEW t \in Seq(S), NEW p \in S
  PROVE  s \o Append(t, p) = Append(s \o t, p)
  OBVIOUS

LEMMA JoinTail ==
  ASSUME NEW S, NEW s \in Seq(S), NEW t \in Seq(S), s # << >>
  PROVE  s \o t # << >> /\ Head(s \o t) = Head(s) /\ Tail(s \o t) = Tail(s) \o t
  OBVIOUS

\* A packet between two others.
LEMMA MiddleElements ==
  ASSUME NEW P, NEW s \in Seq(P), NEW t \in Seq(P), NEW p \in P
  PROVE  LET u == s \o (<<p>> \o t)
             v == s \o t
         IN  /\ Len(s) \in Nat /\ Len(t) \in Nat
             /\ Len(v) = Len(s) + Len(t) /\ Len(u) = Len(v) + 1
             /\ u[Len(s) + 1] = p
             /\ \A i \in 1..Len(s) : u[i] = v[i]
             /\ \A i \in (Len(s) + 1)..Len(v) : u[i + 1] = v[i]
             /\ \A i \in 1..Len(v) : v[i] \in P
  OBVIOUS

\* A packet that is dropped on the way leaves the others in order.
LEMMA DroppedInOrder ==
  ASSUME NEW P, NEW s \in Seq(P), NEW t \in Seq(P), NEW p \in P,
         NEW ifs, NEW a, NEW b, InOrder(s \o (<<p>> \o t), ifs, a, b)
  PROVE  InOrder(s \o t, ifs, a, b)
<1> DEFINE u == s \o (<<p>> \o t) v == s \o t k == Len(s) m == Len(v)
           at(i) == IF i <= k THEN i ELSE i + 1
<1>1. k \in Nat /\ m \in Nat /\ k <= m /\ Len(u) = m + 1
  BY MiddleElements
<1>2. \A i \in 1..m : at(i) \in 1..(m + 1) /\ v[i] = u[at(i)]
  <2> TAKE i \in 1..m
  <2>1. CASE i <= k
    BY <1>1, <2>1, MiddleElements
  <2>2. CASE i > k
    BY <1>1, <2>2, MiddleElements
  <2> QED
    BY <1>1, <2>1, <2>2
<1>3. \A i, j \in 1..m : i < j => at(i) < at(j)
  BY <1>1
<1>4. /\ a \in Nat /\ b \in Nat /\ a <= b
      /\ \A i \in 1..(m + 1) : u[i].if \in ifs => a < u[i].n /\ u[i].n <= b
      /\ \A i, j \in 1..(m + 1) :
            i < j /\ u[i].if \in ifs /\ u[j].if \in ifs => u[i].n < u[j].n
  BY <1>1 DEF InOrder
<1> HIDE DEF u, v, at
<1>5. \A i \in 1..m : v[i].if \in ifs => a < v[i].n /\ v[i].n <= b
  BY <1>2, <1>4
<1>6. \A i, j \in 1..m : i < j /\ v[i].if \in ifs /\ v[j].if \in ifs => v[i].n < v[j].n
  BY <1>2, <1>3, <1>4
<1> QED
  BY <1>4, <1>5, <1>6, Zenon DEF InOrder, v, m

\* A packet of another queue does not matter.
LEMMA ForeignInOrder ==
  ASSUME NEW P, NEW s \in Seq(P), NEW t \in Seq(P), NEW p \in P,
         NEW ifs, p.if \notin ifs, NEW a, NEW b
  PROVE  /\ InOrder(s \o (<<p>> \o t), ifs, a, b) <=> InOrder(s \o t, ifs, a, b)
         /\ Complete(s \o (<<p>> \o t), ifs, a, b) <=> Complete(s \o t, ifs, a, b)
<1> DEFINE u == s \o (<<p>> \o t) v == s \o t k == Len(s) m == Len(v)
           at(i) == IF i <= k THEN i ELSE i - 1
           to(i) == IF i <= k THEN i ELSE i + 1
<1>1. k \in Nat /\ m \in Nat /\ k <= m /\ Len(u) = m + 1 /\ u[k + 1] = p
  BY MiddleElements
<1>2. \A i \in 1..(m + 1) : i # k + 1 => at(i) \in 1..m /\ u[i] = v[at(i)]
  <2> TAKE i \in 1..(m + 1)
  <2>1. CASE i <= k
    BY <1>1, <2>1, MiddleElements
  <2>2. CASE i > k + 1
    <3>1. i - 1 \in (k + 1)..m /\ (i - 1) + 1 = i
      BY <1>1, <2>2
    <3>2. u[(i - 1) + 1] = v[i - 1]
      BY <3>1, MiddleElements
    <3> QED
      BY <1>1, <2>2, <3>1, <3>2
  <2> QED
    BY <1>1, <2>1, <2>2
<1>3. \A i, j \in 1..(m + 1) : i # k + 1 /\ j # k + 1 /\ i < j => at(i) < at(j)
  BY <1>1
<1>4. \A i \in 1..m : to(i) \in 1..(m + 1) /\ v[i] = u[to(i)]
  <2> TAKE i \in 1..m
  <2>1. CASE i <= k
    BY <1>1, <2>1, MiddleElements
  <2>2. CASE i > k
    BY <1>1, <2>2, MiddleElements
  <2> QED
    BY <1>1, <2>1, <2>2
<1> HIDE DEF u, v, at, to
<1>5. ASSUME NEW i \in 1..(m + 1), u[i].if \in ifs PROVE i # k + 1
  BY <1>1, <1>5
<1>6. ASSUME InOrder(v, ifs, a, b) PROVE InOrder(u, ifs, a, b)
  <2>1. /\ a \in Nat /\ b \in Nat /\ a <= b
        /\ \A i \in 1..m : v[i].if \in ifs => a < v[i].n /\ v[i].n <= b
        /\ \A i, j \in 1..m :
              i < j /\ v[i].if \in ifs /\ v[j].if \in ifs => v[i].n < v[j].n
    BY <1>6 DEF InOrder
  <2>2. \A i \in 1..(m + 1) : u[i].if \in ifs => a < u[i].n /\ u[i].n <= b
    BY <1>2, <1>5, <2>1
  <2>3. \A i, j \in 1..(m + 1) :
           i < j /\ u[i].if \in ifs /\ u[j].if \in ifs => u[i].n < u[j].n
    BY <1>2, <1>3, <1>5, <2>1
  <2> QED
    BY <1>1, <2>1, <2>2, <2>3 DEF InOrder
<1>7. InOrder(u, ifs, a, b) => InOrder(v, ifs, a, b)
  BY DroppedInOrder DEF u, v
<1>8. Complete(v, ifs, a, b) => Complete(u, ifs, a, b)
  BY <1>1, <1>4 DEF Complete
<1>9. Complete(u, ifs, a, b) => Complete(v, ifs, a, b)
  BY <1>1, <1>2, <1>5 DEF Complete
<1> QED
  BY <1>6, <1>7, <1>8, <1>9, Zenon DEF u, v

LEMMA JoinElements ==
  ASSUME NEW P, NEW s \in Seq(P), NEW t \in Seq(P)
  PROVE  /\ Len(s) \in Nat /\ Len(t) \in Nat /\ Len(s \o t) = Len(s) + Len(t)
         /\ \A i \in 1..Len(s) : (s \o t)[i] = s[i]
         /\ \A i \in 1..Len(t) : (s \o t)[Len(s) + i] = t[i]
<1>1. Len(s) \in Nat /\ Len(t) \in Nat /\ Len(s \o t) = Len(s) + Len(t)
  OBVIOUS
<1>2. \A i \in 1..Len(s) : (s \o t)[i] = s[i]
  OBVIOUS
<1>3. ASSUME NEW i \in 1..Len(t) PROVE (s \o t)[Len(s) + i] = t[i]
  <2>1. Len(s) + i \in 1..Len(s \o t) /\ Len(s) + i > Len(s) /\ (Len(s) + i) - Len(s) = i
    BY <1>1
  <2> QED
    BY <1>1, <2>1
<1> QED
  BY <1>1, <1>2, <1>3

LEMMA SameElements ==
  ASSUME NEW P, NEW s \in Seq(P), NEW t \in Seq(P), Len(s) = Len(t),
         \A i \in 1..Len(s) : s[i] = t[i]
  PROVE  s = t
  OBVIOUS

\* Packets f between others.
LEMMA BlockElements ==
  ASSUME NEW P, NEW s \in Seq(P), NEW t \in Seq(P), NEW f \in Seq(P)
  PROVE  LET u == s \o (f \o t)
             v == s \o t
         IN  /\ Len(s) \in Nat /\ Len(t) \in Nat /\ Len(f) \in Nat
             /\ Len(v) = Len(s) + Len(t) /\ Len(u) = Len(v) + Len(f)
             /\ \A i \in 1..Len(s) : u[i] = v[i]
             /\ \A i \in 1..Len(f) : u[Len(s) + i] = f[i]
             /\ \A i \in (Len(s) + 1)..Len(v) : u[i + Len(f)] = v[i]
<1> DEFINE g == f \o t u == s \o g v == s \o t
<1>1. /\ g \in Seq(P) /\ Len(s) \in Nat /\ Len(t) \in Nat /\ Len(f) \in Nat
      /\ Len(g) = Len(f) + Len(t)
      /\ \A i \in 1..Len(f) : g[i] = f[i]
      /\ \A i \in 1..Len(t) : g[Len(f) + i] = t[i]
  BY JoinFacts, JoinElements
<1> HIDE DEF g
<1>2. /\ Len(u) = Len(s) + Len(g)
      /\ \A i \in 1..Len(s) : u[i] = s[i]
      /\ \A i \in 1..Len(g) : u[Len(s) + i] = g[i]
  <2>1. g \in Seq(P)
    BY <1>1
  <2> QED
    BY <2>1, JoinElements
<1>3. /\ Len(v) = Len(s) + Len(t)
      /\ \A i \in 1..Len(s) : v[i] = s[i]
      /\ \A i \in 1..Len(t) : v[Len(s) + i] = t[i]
  BY JoinElements
<1> HIDE DEF u, v
<1>4. Len(u) = Len(v) + Len(f)
  BY <1>1, <1>2, <1>3
<1>5. \A i \in 1..Len(f) : u[Len(s) + i] = f[i]
  <2> TAKE i \in 1..Len(f)
  <2>1. i \in 1..Len(g)
    BY <1>1
  <2> QED
    BY <1>1, <1>2, <2>1
<1>6. \A i \in (Len(s) + 1)..Len(v) : u[i + Len(f)] = v[i]
  <2> TAKE i \in (Len(s) + 1)..Len(v)
  <2> DEFINE j == i - Len(s)
  <2>1. /\ j \in 1..Len(t) /\ Len(f) + j \in 1..Len(g) /\ Len(s) + j = i
        /\ Len(s) + (Len(f) + j) = i + Len(f)
    BY <1>1, <1>3
  <2> HIDE DEF j
  <2>2. v[i] = t[j]
    <3>1. v[Len(s) + j] = t[j]
      BY <1>3, <2>1, Zenon
    <3> QED
      BY <2>1, <3>1
  <2>3. u[i + Len(f)] = g[Len(f) + j]
    <3>1. u[Len(s) + (Len(f) + j)] = g[Len(f) + j]
      BY <1>2, <2>1, Zenon
    <3> QED
      BY <2>1, <3>1
  <2>4. g[Len(f) + j] = t[j]
    BY <1>1, <2>1
  <2> QED
    BY <2>2, <2>3, <2>4
<1>7. \A i \in 1..Len(s) : u[i] = v[i]
  BY <1>2, <1>3
<1>8. /\ Len(s) \in Nat /\ Len(t) \in Nat /\ Len(f) \in Nat
      /\ Len(v) = Len(s) + Len(t) /\ Len(u) = Len(v) + Len(f)
  BY <1>1, <1>3, <1>4
<1> QED
  BY <1>5, <1>6, <1>7, <1>8, Zenon DEF u, v, g

\* Packets that are dropped on the way leave the others in order.
LEMMA DroppedBlock ==
  ASSUME NEW P, NEW s \in Seq(P), NEW t \in Seq(P), NEW f \in Seq(P),
         NEW ifs, NEW a, NEW b, InOrder(s \o (f \o t), ifs, a, b)
  PROVE  InOrder(s \o t, ifs, a, b)
<1> DEFINE u == s \o (f \o t) v == s \o t k == Len(s) m == Len(v) d == Len(f)
           at(i) == IF i <= k THEN i ELSE i + d
<1>1. /\ k \in Nat /\ m \in Nat /\ d \in Nat /\ k <= m /\ Len(u) = m + d
      /\ \A i \in 1..k : u[i] = v[i]
      /\ \A j \in (k + 1)..m : u[j + d] = v[j]
  BY BlockElements
<1>2. ASSUME InOrder(u, ifs, a, b)
      PROVE  /\ a \in Nat /\ b \in Nat /\ a <= b
             /\ \A i \in 1..(m + d) : u[i].if \in ifs => a < u[i].n /\ u[i].n <= b
             /\ \A i, j \in 1..(m + d) :
                   i < j /\ u[i].if \in ifs /\ u[j].if \in ifs => u[i].n < u[j].n
  BY <1>1, <1>2 DEF InOrder
<1>3. \A i \in 1..m : at(i) \in 1..(m + d) /\ v[i] = u[at(i)]
  <2> TAKE i \in 1..m
  <2> HIDE DEF u, v, k, m, d
  <2>1. CASE i <= k
    BY <1>1, <2>1
  <2>2. CASE i > k
    <3>1. i \in (k + 1)..m /\ i + d \in 1..(m + d)
      BY <1>1, <2>2
    <3> QED
      BY <1>1, <2>2, <3>1
  <2> QED
    BY <1>1, <2>1, <2>2
<1>4. \A i, j \in 1..m : i < j => at(i) < at(j)
  BY <1>1
<1> HIDE DEF u, v, at, k, m, d
<1>5. InOrder(u, ifs, a, b)
  BY DEF u
<1>6. \A i \in 1..m : v[i].if \in ifs => a < v[i].n /\ v[i].n <= b
  BY <1>2, <1>3, <1>5
<1>7. \A i, j \in 1..m : i < j /\ v[i].if \in ifs /\ v[j].if \in ifs => v[i].n < v[j].n
  BY <1>2, <1>3, <1>4, <1>5
<1> QED
  BY <1>2, <1>5, <1>6, <1>7, Zenon DEF InOrder, v, m

\* Packets of other queues do not matter.
LEMMA ForeignBlock ==
  ASSUME NEW P, NEW s \in Seq(P), NEW t \in Seq(P), NEW f \in Seq(P), NEW ifs,
         \A i \in 1..Len(f) : f[i].if \notin ifs,
         NEW a, NEW b, InOrder(s \o t, ifs, a, b)
  PROVE  InOrder(s \o (f \o t), ifs, a, b)
<1> DEFINE u == s \o (f \o t) v == s \o t k == Len(s) m == Len(v) d == Len(f)
           at(i) == IF i <= k THEN i ELSE i - d
           mine(i) == i \in 1..k \/ i \in (k + d + 1)..(m + d)
<1>1. /\ k \in Nat /\ m \in Nat /\ d \in Nat /\ k <= m /\ Len(u) = m + d
      /\ \A i \in 1..k : u[i] = v[i]
      /\ \A j \in (k + 1)..m : u[j + d] = v[j]
      /\ \A i \in 1..d : u[k + i].if \notin ifs
  BY BlockElements
<1>2. ASSUME InOrder(v, ifs, a, b)
      PROVE  /\ a \in Nat /\ b \in Nat /\ a <= b
             /\ \A i \in 1..m : v[i].if \in ifs => a < v[i].n /\ v[i].n <= b
             /\ \A i, j \in 1..m :
                   i < j /\ v[i].if \in ifs /\ v[j].if \in ifs => v[i].n < v[j].n
  BY <1>2 DEF InOrder
<1> HIDE DEF u, v, k, m, d
<1>3. ASSUME NEW i \in 1..(m + d), u[i].if \in ifs PROVE mine(i)
  <2>1. CASE i \in (k + 1)..(k + d)
    <3>1. i - k \in 1..d /\ k + (i - k) = i
      BY <1>1, <2>1
    <3>2. u[k + (i - k)].if \notin ifs
      BY <1>1, <3>1
    <3> QED
      BY <1>3, <3>1, <3>2
  <2> QED
    BY <1>1, <2>1
<1>4. ASSUME NEW i \in 1..(m + d), mine(i) PROVE at(i) \in 1..m /\ u[i] = v[at(i)]
  <2>1. CASE i <= k
    BY <1>1, <2>1
  <2>2. CASE ~(i <= k)
    <3>1. i - d \in (k + 1)..m /\ (i - d) + d = i /\ i - d \in 1..m
      BY <1>1, <1>4, <2>2
    <3>2. u[(i - d) + d] = v[i - d]
      BY <1>1, <3>1
    <3> QED
      BY <2>2, <3>1, <3>2
  <2> QED
    BY <2>1, <2>2
<1>5. \A i, j \in 1..(m + d) : mine(i) /\ mine(j) /\ i < j => at(i) < at(j)
  BY <1>1
<1>6. InOrder(v, ifs, a, b)
  BY DEF v
<1> HIDE DEF at, mine
<1>7. \A i \in 1..(m + d) : u[i].if \in ifs => a < u[i].n /\ u[i].n <= b
  BY <1>2, <1>3, <1>4, <1>6
<1>8. \A i, j \in 1..(m + d) :
         i < j /\ u[i].if \in ifs /\ u[j].if \in ifs => u[i].n < u[j].n
  BY <1>2, <1>3, <1>4, <1>5, <1>6
<1>9. InOrder(u, ifs, a, b)
  BY <1>1, <1>2, <1>6, <1>7, <1>8, Zenon DEF InOrder
<1> QED
  BY <1>9 DEF u

-----------------------------------------------------------------------------
(* What happens inside a stage that other stages surround.                  *)

\* Part of it is lost.
LEMMA LostInside ==
  ASSUME NEW P, NEW s \in Seq(P), NEW c \in Seq(P), NEW f \in Seq(P), NEW d \in Seq(P),
         NEW t \in Seq(P), NEW ifs, NEW a, NEW b
  PROVE  InOrder(s \o ((c \o (f \o d)) \o t), ifs, a, b)
           => InOrder(s \o ((c \o d) \o t), ifs, a, b)
<1> DEFINE u == s \o c v == d \o t
<1>1. u \in Seq(P) /\ v \in Seq(P)
  BY JoinFacts
<1>2. s \o ((c \o (f \o d)) \o t) = u \o (f \o v)
  <2> DEFINE k == f \o d
  <2>1. k \in Seq(P)
    BY JoinFacts
  <2>2. k \o t = f \o v
    OBVIOUS
  <2> HIDE DEF k, v, u
  <2>3. s \o ((c \o k) \o t) = u \o (k \o t)
    <3> DEFINE w == k \o t
    <3>1. w \in Seq(P)
      BY <2>1
    <3>2. (c \o k) \o t = c \o w
      BY <2>1
    <3> HIDE DEF w
    <3>3. s \o (c \o w) = (s \o c) \o w
      BY <3>1
    <3> QED
      BY <3>2, <3>3 DEF u, w
  <2> QED
    BY <2>2, <2>3 DEF k
<1>3. s \o ((c \o d) \o t) = u \o v
  <2>1. (c \o d) \o t = c \o v
    OBVIOUS
  <2> HIDE DEF v
  <2>2. s \o (c \o v) = u \o v
    BY <1>1
  <2> QED
    BY <2>1, <2>2
<1> HIDE DEF u, v
<1>4. InOrder(u \o (f \o v), ifs, a, b) => InOrder(u \o v, ifs, a, b)
  BY <1>1, DroppedBlock
<1> QED
  BY <1>2, <1>3, <1>4, Zenon

\* It begins with packet p and what belongs to it, and p goes on alone.
LEMMA LeftInside ==
  ASSUME NEW P, NEW s \in Seq(P), NEW f \in Seq(P), NEW y \in Seq(P), NEW t \in Seq(P),
         NEW p \in P, NEW ifs, NEW a, NEW b
  PROVE  InOrder(s \o (((<<p>> \o f) \o y) \o t), ifs, a, b)
           => /\ InOrder(Append(s, p) \o (y \o t), ifs, a, b)
              /\ p.if \notin ifs => InOrder(s \o (y \o t), ifs, a, b)
<1> DEFINE one == <<p>> v == y \o t w == f \o v u == Append(s, p)
<1>1. one \in Seq(P) /\ v \in Seq(P) /\ u \in Seq(P)
  BY JoinFacts, AppendFacts
<1>2. ((one \o f) \o y) \o t = one \o w
  <2> HIDE DEF one
  <2> DEFINE k == one \o f
  <2>1. k \in Seq(P)
    BY <1>1, JoinFacts
  <2> HIDE DEF k
  <2>2. (k \o y) \o t = k \o v
    BY <2>1
  <2> HIDE DEF v
  <2>3. (one \o f) \o v = one \o w
    BY <1>1
  <2> QED
    BY <2>2, <2>3 DEF k
<1> HIDE DEF v
<1>3. w \in Seq(P)
  BY <1>1
<1> HIDE DEF w
<1>4. u \o w = s \o (one \o w)
  BY <1>3
<1> HIDE DEF u
<1>5. InOrder(u \o w, ifs, a, b) => InOrder(u \o v, ifs, a, b)
  BY <1>1, DroppedBlock DEF w
<1>6. p.if \notin ifs /\ InOrder(s \o (one \o w), ifs, a, b) => InOrder(s \o w, ifs, a, b)
  BY <1>3, ForeignInOrder
<1>7. InOrder(s \o w, ifs, a, b) => InOrder(s \o v, ifs, a, b)
  BY <1>1, DroppedBlock DEF w
<1>8. InOrder(s \o (((one \o f) \o y) \o t), ifs, a, b)
        => /\ InOrder(u \o v, ifs, a, b)
           /\ p.if \notin ifs => InOrder(s \o v, ifs, a, b)
  BY <1>2, <1>4, <1>5, <1>6, <1>7, Zenon
<1> QED
  BY <1>8 DEF u, v

\* Packet p comes to its end, with what belongs to it.
LEMMA AddedInside ==
  ASSUME NEW P, NEW s \in Seq(P), NEW x \in Seq(P), NEW f \in Seq(P), NEW t \in Seq(P),
         NEW p \in P, NEW ifs, NEW a, NEW b,
         \A i \in 1..Len(f) : f[i].if \notin ifs
  PROVE  InOrder((s \o x) \o (<<p>> \o t), ifs, a, b)
           => InOrder(s \o ((x \o (<<p>> \o f)) \o t), ifs, a, b)
<1> DEFINE one == <<p>> l == s \o x u == Append(l, p) v == f \o t
<1>1. one \in Seq(P) /\ l \in Seq(P) /\ v \in Seq(P)
  BY JoinFacts
<1>2. s \o ((x \o (one \o f)) \o t) = l \o (one \o v)
  <2> HIDE DEF one
  <2> DEFINE k == one \o f
  <2>1. k \in Seq(P)
    BY <1>1, JoinFacts
  <2>2. k \o t = one \o v
    BY <1>1
  <2> HIDE DEF k, l, v
  <2>3. s \o ((x \o k) \o t) = l \o (k \o t)
    <3> DEFINE w == k \o t
    <3>1. w \in Seq(P)
      BY <2>1
    <3>2. (x \o k) \o t = x \o w
      BY <2>1
    <3> HIDE DEF w
    <3>3. s \o (x \o w) = (s \o x) \o w
      BY <3>1
    <3> QED
      BY <3>2, <3>3 DEF l, w
  <2> QED
    BY <2>2, <2>3 DEF k
<1> HIDE DEF l, v
<1>3. u \in Seq(P) /\ u \o t = l \o (one \o t) /\ u \o v = l \o (one \o v)
  <2>1. u \in Seq(P)
    BY <1>1, AppendFacts
  <2>2. u \o t = l \o (one \o t)
    BY <1>1
  <2>3. u \o v = l \o (one \o v)
    BY <1>1
  <2> QED
    BY <2>1, <2>2, <2>3
<1> HIDE DEF u
<1>4. InOrder(u \o t, ifs, a, b) => InOrder(u \o v, ifs, a, b)
  BY <1>3, ForeignBlock DEF v
<1>5. InOrder(l \o (one \o t), ifs, a, b) => InOrder(s \o ((x \o (one \o f)) \o t), ifs, a, b)
  BY <1>2, <1>3, <1>4, Zenon
<1> QED
  BY <1>5 DEF l

-----------------------------------------------------------------------------
(* What is accepted, and what is handed over.                               *)

\* The packet accepted next has the next number.
LEMMA Accepted ==
  ASSUME NEW P, Numbered(P), NEW s \in Seq(P), NEW p \in P, NEW ifs,
         NEW a \in Nat, NEW b \in Nat, InOrder(s, ifs, a, b)
  PROVE  /\ p.if \in ifs /\ p.n = b + 1
              => /\ InOrder(Append(s, p), ifs, a, b + 1)
                 /\ Complete(s, ifs, a, b) => Complete(Append(s, p), ifs, a, b + 1)
         /\ p.if \notin ifs
              => /\ InOrder(Append(s, p), ifs, a, b)
                 /\ Complete(s, ifs, a, b) => Complete(Append(s, p), ifs, a, b)
<1>1. ASSUME p.if \in ifs, p.n = b + 1 PROVE InOrder(Append(s, p), ifs, a, b + 1)
  <2>1. b + 1 \in Nat /\ b <= b + 1 /\ b < p.n /\ p.n <= b + 1
    BY <1>1
  <2> QED
    BY <2>1, AppendInOrder
<1>2. ASSUME p.if \notin ifs PROVE InOrder(Append(s, p), ifs, a, b)
  <2>1. b <= b
    OBVIOUS
  <2> QED
    BY <1>2, <2>1, AppendInOrder
<1> QED
  BY <1>1, <1>2, AppendComplete

\* The packet handed over next is the first of the last stage.
LEMMA HandedOver ==
  ASSUME NEW P, Numbered(P), NEW s \in Seq(P), NEW t \in Seq(P), s # << >>, NEW ifs,
         Head(s).if \in ifs, NEW a \in Nat, NEW b \in Nat, InOrder(s \o t, ifs, a, b)
  PROVE  /\ Head(s).n \in (a + 1)..b
         /\ InOrder(Tail(s) \o t, ifs, Head(s).n, b)
         /\ Complete(s \o t, ifs, a, b)
              => Head(s).n = a + 1 /\ Complete(Tail(s) \o t, ifs, Head(s).n, b)
<1> DEFINE u == s \o t
<1>1. u \in Seq(P) /\ u # << >> /\ Head(u) = Head(s) /\ Tail(u) = Tail(s) \o t
  BY JoinTail, JoinFacts
<1>2. InOrder(u, ifs, a, b)
  OBVIOUS
<1> HIDE DEF u
<1>3. Head(u).if \in ifs
  BY <1>1
<1>4. /\ Head(u).n \in Nat /\ Head(u).n <= b /\ a < Head(u).n
      /\ InOrder(Tail(u), ifs, Head(u).n, b)
  BY <1>1, <1>2, <1>3, TailInOrder
<1>5. Complete(u, ifs, a, b)
        => Head(u).n = a + 1 /\ Complete(Tail(u), ifs, Head(u).n, b)
  BY <1>1, <1>2, <1>3, TailComplete
<1>6. Head(u).n \in (a + 1)..b
  BY <1>4
<1> QED
  BY <1>1, <1>4, <1>5, <1>6 DEF u

\* The number handed over last.
LastOf(g) == IF g = << >> THEN 0 ELSE g[Len(g)]

LEMMA LastFacts ==
  ASSUME NEW g \in Seq(Nat)
  PROVE  LastOf(g) \in Nat /\ \A n \in Nat : LastOf(Append(g, n)) = n
<1>1. LastOf(g) \in Nat
  <2>1. CASE g = << >>
    BY <2>1 DEF LastOf
  <2>2. CASE g # << >>
    <3>1. Len(g) \in 1..Len(g)
      BY <2>2
    <3> QED
      BY <2>2, <3>1 DEF LastOf
  <2> QED
    BY <2>1, <2>2
<1>2. ASSUME NEW n \in Nat PROVE LastOf(Append(g, n)) = n
  <2>1. Append(g, n) # << >> /\ Append(g, n)[Len(Append(g, n))] = n
    BY AppendElements, EmptyFacts
  <2> QED
    BY <2>1 DEF LastOf
<1> QED
  BY <1>1, <1>2

-----------------------------------------------------------------------------
(* The same with the join as a definition of its own, so that a proof       *)
(* treats it as a whole.                                                    *)

s ++ t == s \o t
One(p) == <<p>>

Exact(s, ifs, a, b) == InOrder(s, ifs, a, b) /\ Complete(s, ifs, a, b)

\* Joining sequences.
LEMMA Joined ==
  ASSUME NEW S, NEW s \in Seq(S), NEW t \in Seq(S)
  PROVE  s ++ t \in Seq(S)
  BY DEF ++

LEMMA JoinedTwice ==
  ASSUME NEW S, NEW s \in Seq(S), NEW t \in Seq(S), NEW u \in Seq(S)
  PROVE  s ++ (t ++ u) = (s ++ t) ++ u
  BY DEF ++

LEMMA JoinedEmpty ==
  ASSUME NEW S, NEW s \in Seq(S)
  PROVE  << >> ++ s = s
  BY DEF ++

LEMMA JoinedOne ==
  ASSUME NEW S, NEW s \in Seq(S), NEW t \in Seq(S), NEW p \in S
  PROVE  /\ One(p) \in Seq(S)
         /\ Append(s, p) ++ t = s ++ (One(p) ++ t)
         /\ s ++ Append(t, p) = Append(s ++ t, p)
  BY DEF ++, One

LEMMA JoinedHead ==
  ASSUME NEW S, NEW s \in Seq(S), s # << >>
  PROVE  One(Head(s)) ++ Tail(s) = s
  BY DEF ++, One

LEMMA JoinedNone ==
  ASSUME NEW S, NEW s \in Seq(S), NEW t \in Seq(S)
  PROVE  s ++ t = << >> <=> s = << >> /\ t = << >>
<1>1. Len(s \o t) = Len(s) + Len(t) /\ Len(s) \in Nat /\ Len(t) \in Nat /\ s \o t \in Seq(S)
  OBVIOUS
<1>2. /\ s \o t = << >> <=> Len(s \o t) = 0
      /\ s = << >> <=> Len(s) = 0
      /\ t = << >> <=> Len(t) = 0
  BY <1>1, EmptyFacts
<1> QED
  BY <1>1, <1>2 DEF ++

\* The first packet of a stage is the one in front of it.
LEMMA SplitFirst ==
  ASSUME NEW P, NEW t \in Seq(P), t # << >>, NEW y \in Seq(P)
  PROVE  /\ Head(t) \in P /\ Tail(t) \in Seq(P)
         /\ t ++ y = One(Head(t)) ++ (Tail(t) ++ y)
<1> DEFINE h == One(Head(t)) l == Tail(t)
<1>1. Head(t) \in P /\ l \in Seq(P) /\ h ++ l = t
  BY TailFacts, JoinedHead
<1>2. h \in Seq(P)
  BY <1>1, JoinedOne
<1> HIDE DEF h, l
<1>3. h ++ (l ++ y) = (h ++ l) ++ y
  BY <1>1, <1>2, JoinedTwice
<1>4. t ++ y = h ++ (l ++ y)
  BY <1>1, <1>3
<1> QED
  BY <1>1, <1>4 DEF h, l

\* The first packet goes behind those of the stage in front of it.
LEMMA HeadOver ==
  ASSUME NEW S, NEW u \in Seq(S), NEW v \in Seq(S), u # << >>
  PROVE  Append(v, Head(u)) ++ Tail(u) = v ++ u
<1> DEFINE h == Head(u) w == Tail(u)
<1>1. h \in S /\ w \in Seq(S) /\ One(h) ++ w = u
  BY TailFacts, JoinedHead
<1> HIDE DEF h, w
<1>2. Append(v, h) ++ w = v ++ (One(h) ++ w)
  BY <1>1, JoinedOne
<1> QED
  BY <1>1, <1>2 DEF h, w

\* Stages regrouped around the one that changes.
LEMMA BehindThree ==
  ASSUME NEW S, NEW s \in Seq(S), NEW t \in Seq(S), NEW u \in Seq(S), NEW x \in Seq(S)
  PROVE  s ++ (t ++ (u ++ x)) = (s ++ (t ++ u)) ++ x
<1>1. t ++ u \in Seq(S) /\ t ++ (u ++ x) = (t ++ u) ++ x
  BY Joined, JoinedTwice
<1>2. s ++ ((t ++ u) ++ x) = (s ++ (t ++ u)) ++ x
  BY <1>1, JoinedTwice
<1> QED
  BY <1>1, <1>2

LEMMA BehindTwo ==
  ASSUME NEW S, NEW s \in Seq(S), NEW t \in Seq(S), NEW u \in Seq(S), NEW x \in Seq(S)
  PROVE  s ++ (t ++ (u ++ x)) = (s ++ t) ++ (u ++ x)
<1>1. u ++ x \in Seq(S)
  BY Joined
<1> QED
  BY <1>1, JoinedTwice

\* A packet of another queue, or a dummy, comes or goes.
LEMMA ForeignExact ==
  ASSUME NEW P, NEW s \in Seq(P), NEW t \in Seq(P), NEW p \in P,
         NEW ifs, p.if \notin ifs, NEW a, NEW b
  PROVE  Exact(s ++ (One(p) ++ t), ifs, a, b) <=> Exact(s ++ t, ifs, a, b)
<1>1. /\ InOrder(s \o (<<p>> \o t), ifs, a, b) <=> InOrder(s \o t, ifs, a, b)
      /\ Complete(s \o (<<p>> \o t), ifs, a, b) <=> Complete(s \o t, ifs, a, b)
  BY ForeignInOrder
<1> QED
  BY <1>1, Zenon DEF Exact, ++, One

\* A packet is accepted behind the last stage.
LEMMA AcceptLast ==
  ASSUME NEW P, Numbered(P), NEW s \in Seq(P), NEW x \in Seq(P), NEW p \in P,
         NEW ifs, p.if \in ifs, NEW a \in Nat, NEW b \in Nat, p.n = b + 1,
         Exact(s ++ x, ifs, a, b)
  PROVE  Exact(s ++ Append(x, p), ifs, a, b + 1)
<1> DEFINE u == s ++ x
<1>1. u \in Seq(P) /\ InOrder(u, ifs, a, b) /\ Complete(u, ifs, a, b)
  BY Joined DEF Exact
<1>2. s ++ Append(x, p) = Append(u, p)
  BY JoinedOne
<1> HIDE DEF u
<1>3. InOrder(Append(u, p), ifs, a, b + 1) /\ Complete(Append(u, p), ifs, a, b + 1)
  BY <1>1, Accepted
<1> QED
  BY <1>2, <1>3 DEF Exact

\* The first packet is handed over.
LEMMA HandFirst ==
  ASSUME NEW P, Numbered(P), NEW s \in Seq(P), NEW t \in Seq(P), s # << >>, NEW ifs,
         Head(s).if \in ifs, NEW a \in Nat, NEW b \in Nat, Exact(s ++ t, ifs, a, b)
  PROVE  /\ Head(s).n = a + 1 /\ Head(s).n \in (a + 1)..b /\ Head(s).n \in Nat
         /\ Exact(Tail(s) ++ t, ifs, Head(s).n, b)
<1>1. InOrder(s \o t, ifs, a, b) /\ Complete(s \o t, ifs, a, b)
  BY DEF Exact, ++
<1>2. /\ Head(s).n \in (a + 1)..b
      /\ InOrder(Tail(s) \o t, ifs, Head(s).n, b)
      /\ Head(s).n = a + 1 /\ Complete(Tail(s) \o t, ifs, Head(s).n, b)
  BY <1>1, HandedOver
<1> QED
  BY <1>2 DEF Exact, ++
=============================================================================
