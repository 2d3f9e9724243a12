------------------------------ MODULE IdsProofs ------------------------------
(***************************************************************************)
(* Proofs about Ids: the three rules of 23-ids, for any flows, sources,    *)
(* ports and CPUs and any sizes of the tables, the buffers and the ring.   *)
(***************************************************************************)
EXTENDS Ids, FiniteSetTheorems, WellFoundedInduction, TLAPS

-----------------------------------------------------------------------------
(* Numbers                                                                 *)

\* A set of naturals has a least element: the form of induction used below.
LEMMA Least ==
  ASSUME NEW T \in SUBSET Nat, T # {}
  PROVE  \E m \in T : \A i \in Nat : i < m => i \notin T
<1>1. PICK m \in T : \A y \in T : ~ (<<y, m>> \in OpToRel(<, Nat))
  BY NatLessThanWellFounded, WFMin, Zenon
<1>2. \A i \in T : ~(i < m)
  BY Zenon, <1>1 DEF OpToRel
<1> QED
  BY Zenon, <1>2

LEMMA ModDef ==
  ASSUME NEW a \in Nat, NEW n \in Nat \ {0}
  PROVE  a = n * (a \div n) + (a % n) /\ a % n \in 0..n - 1 /\ a \div n \in Int
OBVIOUS

LEMMA ModUnique ==
  ASSUME NEW q \in Int, NEW p \in Int, NEW n \in Nat \ {0}, NEW r \in 0..n - 1, NEW t \in 0..n - 1,
         n * q + r = n * p + t
  PROVE  r = t
<1>1. n * (q - p) = t - r
  OBVIOUS
<1>2. q - p >= 1 => n * (q - p) >= n
  OBVIOUS
<1>3. q - p <= -1 => n * (q - p) <= -n
  OBVIOUS
<1> QED
  BY <1>1, <1>2, <1>3

\* The slot of a gap is that of the gap a whole buffer later.
LEMMA ModShift ==
  ASSUME NEW a \in Nat, NEW b \in Nat, NEW n \in Nat \ {0}, b = a + n
  PROVE  b % n = a % n
<1>1. b = n * (b \div n) + (b % n) /\ b % n \in 0..n - 1 /\ b \div n \in Int
  BY Zenon, ModDef
<1>2. a = n * (a \div n) + (a % n) /\ a % n \in 0..n - 1 /\ a \div n \in Int
  BY Zenon, ModDef
<1> DEFINE p == a \div n + 1
<1>3. p \in Int /\ n * p = n * (a \div n) + n
  BY <1>2
<1>4. n * (b \div n) + (b % n) = n * p + (a % n)
  BY <1>1, <1>2, <1>3
<1> HIDE DEF p
<1> QED
  BY Zenon, <1>1, <1>2, <1>3, <1>4, ModUnique

\* Gaps less than a whole buffer apart have different slots.
LEMMA ModApart ==
  ASSUME NEW a \in Nat, NEW b \in Nat, NEW n \in Nat \ {0}, a < b, b < a + n
  PROVE  a % n # b % n
<1>1. b = n * (b \div n) + (b % n) /\ b \div n \in Int
  BY Zenon, ModDef
<1>2. a = n * (a \div n) + (a % n) /\ a \div n \in Int /\ a % n \in Nat
  BY ModDef
<1> SUFFICES ASSUME a % n = b % n PROVE FALSE
  BY Zenon
<1> DEFINE d == b \div n - a \div n
<1>3. d \in Int /\ n * d = b - a
  BY <1>1, <1>2
<1> HIDE DEF d
<1>4. (d >= 1 => n * d >= n) /\ (d <= 0 => n * d <= 0)
  BY <1>3
<1> QED
  BY <1>3, <1>4

LEMMA ModSmall == ASSUME NEW n \in Nat \ {0}, NEW a \in 0..n - 1 PROVE a % n = a
OBVIOUS

-----------------------------------------------------------------------------
(* The loops of rule_beacon(): sums of the first gaps of a buffer.         *)

\* h holds the sums of the first 0, 1, ..., n elements of g.
Sums(g, h, n) == h = [i \in 0..n |-> IF i = 0 THEN 0 ELSE h[i - 1] + g[i - 1]]


LEMMA SumsExist ==
  ASSUME NEW g, NEW n \in Nat
  PROVE  \E h : Sums(g, h, n)
<1> DEFINE T == {m \in Nat : ~ \E h : Sums(g, h, m)}
<1> SUFFICES ASSUME T # {} PROVE FALSE
  BY Zenon
<1>1. PICK m \in T : \A i \in Nat : i < m => i \notin T
  BY Zenon, Least
<1>2. CASE m = 0
  <2> DEFINE h == [i \in 0..0 |-> 0]
  <2>1. Sums(g, h, 0)
    BY DEF Sums
  <2> QED BY Zenon, <2>1, <1>2
<1>3. CASE m # 0
  <2>1. m - 1 \in Nat /\ m - 1 \notin T
    BY <1>1, <1>3
  <2>2. PICK h : Sums(g, h, m - 1)
    BY Zenon, <2>1
  <2> DEFINE e == [i \in 0..m |-> IF i = m THEN h[m - 1] + g[m - 1] ELSE h[i]]
  <2>3. \A i \in 0..m : e[i] = IF i = 0 THEN 0 ELSE e[i - 1] + g[i - 1]
    <3> SUFFICES ASSUME NEW i \in 0..m PROVE e[i] = IF i = 0 THEN 0 ELSE e[i - 1] + g[i - 1]
      BY Zenon
    <3>1. CASE i = m
      <4>1. e[i] = h[m - 1] + g[m - 1] /\ e[i - 1] = h[m - 1]
        BY <3>1, <1>3
      <4> QED BY Zenon, <4>1, <3>1, <1>3
    <3>2. CASE i # m
      <4>0. i \in 0..m - 1
        BY <3>2
      <4>1. e[i] = h[i]
        BY Zenon, <3>2
      <4>2. h[i] = IF i = 0 THEN 0 ELSE h[i - 1] + g[i - 1]
        BY Zenon, <2>2, <4>0 DEF Sums
      <4>3. i # 0 => e[i - 1] = h[i - 1]
        BY <4>0
      <4> QED BY Zenon, <4>1, <4>2, <4>3
    <3> QED BY Zenon, <3>1, <3>2
  <2>4. Sums(g, e, m)
    BY Zenon, <2>3 DEF Sums
  <2> QED BY Zenon, <2>4
<1> QED BY Zenon, <1>2, <1>3

LEMMA SumsAgree ==
  ASSUME NEW g, NEW m \in Nat, NEW n \in Nat, NEW h, NEW e, Sums(g, h, m), Sums(g, e, n)
  PROVE  \A i \in Nat : i <= m /\ i <= n => h[i] = e[i]
<1> DEFINE T == {i \in Nat : i <= m /\ i <= n /\ h[i] # e[i]}
<1> SUFFICES ASSUME T # {} PROVE FALSE
  BY Zenon
<1>1. PICK k \in T : \A i \in Nat : i < k => i \notin T
  BY Zenon, Least
<1>2. k # 0 => h[k - 1] = e[k - 1]
  BY <1>1
<1>3. h[k] = (IF k = 0 THEN 0 ELSE h[k - 1] + g[k - 1]) /\ e[k] = (IF k = 0 THEN 0 ELSE e[k - 1] + g[k - 1])
  BY DEF Sums
<1> QED
  BY Zenon, <1>2, <1>3

LEMMA TotalRec ==
  ASSUME NEW g PROVE Total(g, 0) = 0 /\ \A n \in Nat : Total(g, n + 1) = Total(g, n) + g[n]
<1> DEFINE H(n) == CHOOSE h : Sums(g, h, n)
           w == [n \in Nat |-> H(n)[n]]
           s == CHOOSE f : f = [i \in Nat |-> IF i = 0 THEN 0 ELSE f[i - 1] + g[i - 1]]
<1>1. \A n \in Nat : Sums(g, H(n), n)
  BY SumsExist, Zenon
<1>2. \A n \in Nat : w[n] = IF n = 0 THEN 0 ELSE w[n - 1] + g[n - 1]
  <2> SUFFICES ASSUME NEW n \in Nat PROVE w[n] = IF n = 0 THEN 0 ELSE w[n - 1] + g[n - 1]
    BY Zenon
  <2> HIDE DEF H
  <2>1. H(n)[n] = IF n = 0 THEN 0 ELSE H(n)[n - 1] + g[n - 1]
    BY <1>1 DEF Sums
  <2>2. n # 0 => H(n)[n - 1] = H(n - 1)[n - 1]
    <3> SUFFICES ASSUME n # 0 PROVE H(n)[n - 1] = H(n - 1)[n - 1]
      BY Zenon
    <3>1. n - 1 \in Nat /\ n - 1 <= n /\ n - 1 <= n - 1
      OBVIOUS
    <3>2. Sums(g, H(n), n) /\ Sums(g, H(n - 1), n - 1)
      BY Zenon, <1>1, <3>1
    <3> QED BY <3>1, <3>2, SumsAgree
  <2> QED BY <2>1, <2>2
<1>3. w = [i \in Nat |-> IF i = 0 THEN 0 ELSE w[i - 1] + g[i - 1]]
  <2> HIDE DEF H
  <2> QED BY Zenon, <1>2
<1> HIDE DEF w
<1>4. s = [i \in Nat |-> IF i = 0 THEN 0 ELSE s[i - 1] + g[i - 1]]
  BY <1>3, Zenon
<1>5. \A n : Total(g, n) = s[n]
  BY Zenon DEF Total
<1> HIDE DEF s
<1>6. s[0] = 0 /\ \A n \in Nat : s[n + 1] = s[n] + g[n]
  BY <1>4
<1> QED BY Zenon, <1>5, <1>6

LEMMA TotalInt ==
  ASSUME NEW g, NEW n \in Nat, \A i \in 0..n - 1 : g[i] \in Int
  PROVE  Total(g, n) \in Int
<1> DEFINE T == {k \in Nat : k <= n /\ Total(g, k) \notin Int}
<1> SUFFICES ASSUME T # {} PROVE FALSE
  OBVIOUS
<1>1. PICK m \in T : \A i \in Nat : i < m => i \notin T
  BY Zenon, Least
<1>2. m # 0
  BY TotalRec
<1>3. m - 1 \in Nat /\ Total(g, m - 1) \in Int
  BY <1>1, <1>2
<1>4. Total(g, (m - 1) + 1) = Total(g, m - 1) + g[m - 1]
  BY Zenon, <1>3, TotalRec
<1> QED
  BY <1>2, <1>3, <1>4

LEMMA TotalSame ==
  ASSUME NEW g, NEW h, NEW n \in Nat, \A i \in 0..n - 1 : h[i] = g[i]
  PROVE  Total(h, n) = Total(g, n)
<1> DEFINE T == {k \in Nat : k <= n /\ Total(h, k) # Total(g, k)}
<1> SUFFICES ASSUME T # {} PROVE FALSE
  OBVIOUS
<1>1. PICK m \in T : \A i \in Nat : i < m => i \notin T
  BY Zenon, Least
<1>2. m # 0
  BY Zenon, TotalRec
<1>3. m - 1 \in Nat /\ Total(h, m - 1) = Total(g, m - 1)
  BY <1>1, <1>2
<1>4. /\ Total(g, (m - 1) + 1) = Total(g, m - 1) + g[m - 1]
      /\ Total(h, (m - 1) + 1) = Total(h, m - 1) + h[m - 1]
  BY Zenon, <1>3, TotalRec
<1> QED
  BY <1>2, <1>3, <1>4

\* One slot is overwritten.
LEMMA TotalReplace ==
  ASSUME NEW g, NEW h, NEW n \in Nat, NEW m \in 0..n - 1,
         \A i \in 0..n - 1 : g[i] \in Int /\ h[i] \in Int /\ (i # m => h[i] = g[i])
  PROVE  Total(h, n) = Total(g, n) - g[m] + h[m]
<1> DEFINE T == {k \in Nat : k <= n /\ k > m /\ Total(h, k) # Total(g, k) - g[m] + h[m]}
<1> SUFFICES ASSUME T # {} PROVE FALSE
  OBVIOUS
<1>1. PICK l \in T : \A i \in Nat : i < l => i \notin T
  BY Zenon, Least
<1>2. l - 1 \in Nat
  OBVIOUS
<1>3. /\ Total(g, (l - 1) + 1) = Total(g, l - 1) + g[l - 1]
      /\ Total(h, (l - 1) + 1) = Total(h, l - 1) + h[l - 1]
  BY Zenon, <1>2, TotalRec
<1>4. Total(g, l - 1) \in Int /\ Total(h, l - 1) \in Int
  BY <1>2, TotalInt
<1>5. CASE l - 1 = m
  <2>1. Total(h, l - 1) = Total(g, l - 1)
    BY <1>2, <1>5, TotalSame
  <2> QED
    BY <1>3, <1>4, <1>5, <2>1
<1>6. CASE l - 1 # m
  <2>1. Total(h, l - 1) = Total(g, l - 1) - g[m] + h[m]
    BY <1>1, <1>2, <1>6
  <2>2. g[l - 1] \in Int /\ h[l - 1] = g[l - 1]
    BY <1>6
  <2> QED
    BY <1>3, <1>4, <2>1, <2>2
<1> QED
  BY Zenon, <1>5, <1>6

\* The first element is dropped.
LEMMA TotalShift ==
  ASSUME NEW g, NEW h, NEW n \in Nat,
         \A i \in 0..n : g[i] \in Int, \A i \in 0..n - 1 : h[i] = g[i + 1]
  PROVE  Total(g, n + 1) = g[0] + Total(h, n)
<1> DEFINE T == {k \in Nat : k <= n /\ Total(g, k + 1) # g[0] + Total(h, k)}
<1> SUFFICES ASSUME T # {} PROVE FALSE
  OBVIOUS
<1>1. PICK m \in T : \A i \in Nat : i < m => i \notin T
  BY Zenon, Least
<1>2. Total(g, m + 1) = Total(g, m) + g[m] /\ Total(g, 0) = 0 /\ Total(h, 0) = 0 /\ g[0] \in Int
  BY TotalRec
<1>3. CASE m = 0
  BY <1>2, <1>3
<1>4. CASE m # 0
  <2>1. m - 1 \in Nat /\ Total(g, (m - 1) + 1) = g[0] + Total(h, m - 1)
    BY <1>1, <1>4
  <2>2. Total(h, (m - 1) + 1) = Total(h, m - 1) + h[m - 1]
    BY Zenon, <2>1, TotalRec
  <2>3. Total(h, m - 1) \in Int
    BY <2>1, TotalInt
  <2>4. h[m - 1] = g[m] /\ g[m] \in Int
    BY <2>1
  <2> QED
    BY <1>2, <2>1, <2>2, <2>3, <2>4
<1> QED
  BY Zenon, <1>3, <1>4

\* A buffer g and a window h of the history that agree in their sum become p and q:
\* both get one more element, or the buffer is full and the oldest one makes way.
Grown(g, h, p, q, n) ==
  /\ Total(g, n) = Total(h, n)
  /\ \A i \in 0..n - 1 : p[i] = g[i] /\ q[i] = h[i]
  /\ p[n] = q[n]
Turned(g, h, p, q, n, m) ==
  /\ Total(g, n) = Total(h, n)
  /\ \A i \in 0..n - 1 : g[i] \in Int /\ h[i] \in Int /\ p[i] \in Int /\ q[i] \in Int
  /\ \A i \in 0..n - 1 : i # m => p[i] = g[i]
  /\ \A i \in 0..n - 2 : q[i] = h[i + 1]
  /\ g[m] = h[0] /\ p[m] = q[n - 1]

\* They still agree.
LEMMA TotalGrows ==
  ASSUME NEW g, NEW h, NEW p, NEW q, NEW n \in Nat, Grown(g, h, p, q, n)
  PROVE  Total(p, n + 1) = Total(q, n + 1)
<1> USE DEF Grown
<1>1. Total(p, n) = Total(g, n) /\ Total(q, n) = Total(h, n)
  BY Zenon, TotalSame
<1>2. Total(p, n + 1) = Total(p, n) + p[n] /\ Total(q, n + 1) = Total(q, n) + q[n]
  BY Zenon, TotalRec
<1> QED
  BY Zenon, <1>1, <1>2

LEMMA TotalTurns ==
  ASSUME NEW g, NEW h, NEW p, NEW q, NEW n \in Nat \ {0}, NEW m \in 0..n - 1,
         Turned(g, h, p, q, n, m)
  PROVE  Total(p, n) = Total(q, n)
<1> USE DEF Turned
<1>1. Total(p, n) = Total(g, n) - g[m] + p[m]
  BY TotalReplace
<1>2. n - 1 \in Nat /\ (n - 1) + 1 = n
  OBVIOUS
<1>3. Total(h, (n - 1) + 1) = h[0] + Total(q, n - 1)
  <2>1. \A i \in 0..n - 1 : h[i] \in Int
    BY Zenon
  <2>2. \A i \in 0..(n - 1) - 1 : q[i] = h[i + 1]
    OBVIOUS
  <2> QED
    BY Zenon, <1>2, <2>1, <2>2, TotalShift
<1>4. Total(q, (n - 1) + 1) = Total(q, n - 1) + q[n - 1]
  BY Zenon, <1>2, TotalRec
<1>5. Total(q, n - 1) \in Int
  BY <1>2, TotalInt
<1>6. h[0] \in Int /\ q[n - 1] \in Int
  BY Zenon
<1> QED
  BY <1>1, <1>2, <1>3, <1>4, <1>5, <1>6

-----------------------------------------------------------------------------
(* The buffer of gaps of a flow, against the time stamps of its records    *)

Squares(g, n) == [i \in 0..n - 1 |-> g[i] * g[i]]

\* What the flow holds after records at the times a: the last gaps each at its place in
\* the buffer, so that the buffer and the history have the same sums.
Kept(f, a) ==
  LET l == Len(a)
      n == l - From(l)
      h == GapsOf(a, From(l), l) IN
    /\ l >= 1 /\ a[l] >= 1 /\ f.last_ts = a[l] /\ f.ngaps = l - 1
    /\ \A j \in 2..l : j > l - MAX_GAPS => f.gaps[(j - 2) % MAX_GAPS] = a[j] - a[j - 1]
    /\ Total(f.gaps, n) = Total(h, n)
    /\ Total(Squares(f.gaps, n), n) = Total(Squares(h, n), n)

\* The first record of a flow.
LEMMA FirstKept ==
  ASSUME NEW ts \in Nat \ {0}
  PROVE  Kept(Recorded(NewFlow, ts), Append(<<>>, ts)) /\ Recorded(NewFlow, ts) \in Flow
         /\ ~Recorded(NewFlow, ts).beacon_alerted
<1> DEFINE r == Recorded(NewFlow, ts)
           b == Append(<<>>, ts)
<1> USE IdsAssumption
<1>1. /\ r.last_ts = ts /\ r.ngaps = 0 /\ r.gaps = [i \in 0..MAX_GAPS - 1 |-> 0] /\ r \in Flow
      /\ r.beacon_alerted = FALSE
  BY Zenon DEF Recorded, NewFlow, Flow
<1>2. Len(b) = 1 /\ b[1] = ts /\ From(1) = 1
  BY DEF From
<1>3. \A g : Total(g, 0) = 0
  BY Zenon, TotalRec
<1> HIDE DEF r, b
<1>4. Kept(r, b)
  BY <1>1, <1>2, <1>3 DEF Kept
<1> QED
  BY Zenon, <1>1, <1>4 DEF r, b

\* b is a with one more time stamp.
Longer(a, b, l) == (\A j \in 1..l : b[j] = a[j]) /\ \A j \in 1..l + 1 : b[j] \in Nat

\* The window of the history grows until it has MAX_GAPS gaps, then slides.
LEMMA WindowGrows ==
  ASSUME NEW a, NEW b, NEW l \in Nat, l >= 1, l <= MAX_GAPS, Longer(a, b, l)
  PROVE  /\ From(l) = 1 /\ From(l + 1) = 1
         /\ \A i \in 0..l - 2 : GapsOf(b, 1, l + 1)[i] = GapsOf(a, 1, l)[i]
         /\ GapsOf(b, 1, l + 1)[l - 1] = b[l + 1] - a[l]
BY IdsAssumption DEF From, GapsOf, Longer

Slid(a, b, l, g, h) ==
  /\ \A i \in 0..MAX_GAPS - 1 : g[i] \in Int /\ h[i] \in Int
  /\ \A i \in 0..MAX_GAPS - 2 : h[i] = g[i + 1]
  /\ g[0] = a[l - MAX_GAPS + 1] - a[l - MAX_GAPS]
  /\ h[MAX_GAPS - 1] = b[l + 1] - a[l]

LEMMA WindowSlides ==
  ASSUME NEW a, NEW b, NEW l \in Nat, l > MAX_GAPS, Longer(a, b, l)
  PROVE  /\ l - From(l) = MAX_GAPS /\ (l + 1) - From(l + 1) = MAX_GAPS
         /\ Slid(a, b, l, GapsOf(a, From(l), l), GapsOf(b, From(l + 1), l + 1))
<1> USE IdsAssumption
<1> DEFINE n == MAX_GAPS
           g == GapsOf(a, From(l), l)
           h == GapsOf(b, From(l + 1), l + 1)
<1>1. From(l) = l - n /\ From(l + 1) = l + 1 - n
  BY DEF From
<1>2. \A i \in 0..n - 1 : g[i] = a[l - n + i + 1] - a[l - n + i] /\ h[i] = b[l + 1 - n + i + 1] - b[l + 1 - n + i]
  <2> SUFFICES ASSUME NEW i \in 0..n - 1
               PROVE  /\ g[i] = a[l - n + i + 1] - a[l - n + i]
                      /\ h[i] = b[l + 1 - n + i + 1] - b[l + 1 - n + i]
    BY Zenon
  <2>1. i \in 0..l - (l - n) - 1 /\ i \in 0..(l + 1) - (l + 1 - n) - 1
    OBVIOUS
  <2> QED
    BY Zenon, <1>1, <2>1 DEF GapsOf
<1>3. (\A j \in 1..l : b[j] = a[j] /\ a[j] \in Nat) /\ \A j \in 1..l + 1 : b[j] \in Nat
  BY DEF Longer
<1> HIDE DEF g, h
<1>4. \A i \in 0..n - 1 : g[i] \in Int /\ h[i] \in Int
  <2> SUFFICES ASSUME NEW i \in 0..n - 1 PROVE g[i] \in Int /\ h[i] \in Int
    BY Zenon
  <2>1. l - n + i + 1 \in 1..l /\ l - n + i \in 1..l /\ l + 1 - n + i + 1 \in 1..l + 1 /\ l + 1 - n + i \in 1..l + 1
    OBVIOUS
  <2> QED
    BY <1>2, <1>3, <2>1
<1>5. \A i \in 0..n - 2 : h[i] = g[i + 1]
  <2> SUFFICES ASSUME NEW i \in 0..n - 2 PROVE h[i] = g[i + 1]
    BY Zenon
  <2>1. /\ i \in 0..n - 1 /\ i + 1 \in 0..n - 1 /\ l + 1 - n + i + 1 \in 1..l /\ l + 1 - n + i \in 1..l
        /\ l + 1 - n + i + 1 = l - n + (i + 1) + 1 /\ l + 1 - n + i = l - n + (i + 1)
    OBVIOUS
  <2> QED
    BY <1>2, <1>3, <2>1
<1>6. g[0] = a[l - n + 1] - a[l - n] /\ h[n - 1] = b[l + 1] - a[l]
  BY <1>2, <1>3
<1> QED
  BY <1>1, <1>4, <1>5, <1>6 DEF Slid, g, h

\* A further record, not older than the one before.
LEMMA NextKept ==
  ASSUME NEW f \in Flow, NEW a \in Seq(Nat), Kept(f, a), NEW ts \in Nat, ts >= a[Len(a)]
  PROVE  Kept(Recorded(f, ts), Append(a, ts)) /\ Recorded(f, ts) \in Flow
         /\ Recorded(f, ts).beacon_alerted = f.beacon_alerted
<1> USE IdsAssumption
<1> DEFINE r == Recorded(f, ts)
           b == Append(a, ts)
           l == Len(a)
           m == (l - 1) % MAX_GAPS
           v == ts - a[l]
<1>1. l \in Nat /\ l >= 1 /\ l - 1 \in Nat /\ a[l] \in Nat /\ a[l] >= 1 /\ f.last_ts = a[l] /\ f.ngaps = l - 1
  BY DEF Kept
<1>2. v \in Nat /\ Minus(ts, f.last_ts) = v /\ m \in 0..MAX_GAPS - 1 /\ m \in Nat
  <2>1. v \in Nat /\ Minus(ts, f.last_ts) = v
    BY <1>1 DEF Minus
  <2>2. m \in 0..MAX_GAPS - 1
    BY Zenon, <1>1, ModDef
  <2> QED
    BY <2>1, <2>2
<1>3. r = [f EXCEPT !.gaps[m] = v, !.ngaps = @ + 1, !.last_ts = ts]
  BY SMTT(30), <1>1, <1>2 DEF Recorded, Slot
<1>4. /\ r \in Flow /\ r.gaps = [f.gaps EXCEPT ![m] = v] /\ r.ngaps = l /\ r.last_ts = ts
      /\ r.beacon_alerted = f.beacon_alerted
  <2> HIDE DEF m, v, l
  <2>1. f.gaps \in [0..MAX_GAPS - 1 -> Nat] /\ [f.gaps EXCEPT ![m] = v] \in [0..MAX_GAPS - 1 -> Nat]
    BY Zenon, <1>2 DEF Flow
  <2>2. r = [f EXCEPT !.gaps = [f.gaps EXCEPT ![m] = v], !.ngaps = l, !.last_ts = ts]
    <3>1. f.ngaps + 1 = l
      BY <1>1
    <3>2. r = [f EXCEPT !.gaps = [f.gaps EXCEPT ![m] = v], !.ngaps = f.ngaps + 1, !.last_ts = ts]
      BY Zenon, <1>3 DEF Flow
    <3> QED
      BY Zenon, <3>1, <3>2
  <2> HIDE DEF r
  <2> QED
    BY Zenon, <1>1, <2>1, <2>2 DEF Flow
<1>5. Len(b) = l + 1 /\ b[l + 1] = ts /\ (\A j \in 1..l : b[j] = a[j]) /\ \A j \in 1..l + 1 : b[j] \in Nat
  OBVIOUS
<1>5a. Longer(a, b, l)
  BY Zenon, <1>5 DEF Longer
<1>6. f.gaps \in [0..MAX_GAPS - 1 -> Nat] /\ r.gaps[m] = v
      /\ \A i \in 0..MAX_GAPS - 1 : i # m => r.gaps[i] = f.gaps[i]
  BY Zenon, <1>2, <1>4 DEF Flow
<1>7. \A j \in 2..l : j > l - MAX_GAPS => f.gaps[(j - 2) % MAX_GAPS] = a[j] - a[j - 1]
  BY Zenon DEF Kept
<1>k. LET n == l - From(l)
          h == GapsOf(a, From(l), l) IN
      Total(f.gaps, n) = Total(h, n) /\ Total(Squares(f.gaps, n), n) = Total(Squares(h, n), n)
  BY Zenon DEF Kept
<1> HIDE DEF r, b, l, m, v
<1>8. \A j \in 2..l + 1 : j > (l + 1) - MAX_GAPS => r.gaps[(j - 2) % MAX_GAPS] = b[j] - b[j - 1]
  <2> SUFFICES ASSUME NEW j \in 2..l + 1, j > (l + 1) - MAX_GAPS
               PROVE  r.gaps[(j - 2) % MAX_GAPS] = b[j] - b[j - 1]
    BY Zenon
  <2>1. CASE j = l + 1
    <3>1. j - 2 = l - 1 /\ j - 1 = l
      BY <2>1, <1>1
    <3>2. b[j] = ts /\ b[j - 1] = a[l]
      BY <2>1, <3>1, <1>1, <1>5
    <3> QED
      BY Zenon, <3>1, <3>2, <1>6 DEF m, v
  <2>2. CASE j # l + 1
    <3>1. /\ j \in 2..l /\ j - 1 \in 1..l /\ j \in 1..l /\ j > l - MAX_GAPS
          /\ j - 2 \in Nat /\ j - 2 < l - 1 /\ l - 1 < (j - 2) + MAX_GAPS
      BY <2>2, <1>1
    <3>2. (j - 2) % MAX_GAPS # m
      BY Zenon, <3>1, <1>1, ModApart DEF m
    <3>3. (j - 2) % MAX_GAPS \in 0..MAX_GAPS - 1
      BY Zenon, <3>1, ModDef
    <3>4. r.gaps[(j - 2) % MAX_GAPS] = f.gaps[(j - 2) % MAX_GAPS]
      BY Zenon, <3>2, <3>3, <1>6
    <3> QED
      BY Zenon, <3>1, <3>4, <1>5, <1>7
  <2> QED
    BY Zenon, <2>1, <2>2
<1>9. LET n == (l + 1) - From(l + 1)
          h == GapsOf(b, From(l + 1), l + 1) IN
      Total(r.gaps, n) = Total(h, n) /\ Total(Squares(r.gaps, n), n) = Total(Squares(h, n), n)
  <2>1. CASE l <= MAX_GAPS
    <3> DEFINE g == GapsOf(a, 1, l)
               h == GapsOf(b, 1, l + 1)
               n == l - 1
    <3>1. /\ From(l) = 1 /\ From(l + 1) = 1 /\ (\A i \in 0..l - 2 : h[i] = g[i]) /\ h[l - 1] = b[l + 1] - a[l]
      BY <1>1, <1>5a, <2>1, WindowGrows
    <3>2. Total(f.gaps, n) = Total(g, n) /\ Total(Squares(f.gaps, n), n) = Total(Squares(g, n), n)
      BY Zenon, <3>1, <1>k
    <3>3. n \in Nat /\ n + 1 = l /\ (l + 1) - 1 = l /\ 0..n - 1 = 0..l - 2 /\ m = n
      <4>1. n \in Nat /\ n + 1 = l /\ (l + 1) - 1 = l /\ n - 1 = l - 2 /\ n \in 0..MAX_GAPS - 1
        BY <1>1, <2>1
      <4>2. n % MAX_GAPS = n
        BY Zenon, <4>1, ModSmall
      <4> QED
        BY Zenon, <4>1, <4>2 DEF m
    <3> HIDE DEF g, h, n
    <3>4. (\A i \in 0..n - 1 : r.gaps[i] = f.gaps[i] /\ h[i] = g[i]) /\ r.gaps[n] = h[n]
      <4>1. \A i \in 0..n - 1 : i \in 0..MAX_GAPS - 1 /\ i # m
        BY <3>3, <1>1, <2>1
      <4>2. h[n] = v
        BY Zenon, <3>1, <1>5 DEF n, v
      <4> QED
        BY Zenon, <4>1, <4>2, <3>1, <3>3, <1>6
    <3>5. Total(r.gaps, l) = Total(h, l)
      <4>1. Grown(f.gaps, g, r.gaps, h, n)
        BY Zenon, <3>2, <3>4 DEF Grown
      <4> QED
        BY <3>3, <4>1, TotalGrows
    <3>6. Total(Squares(r.gaps, l), l) = Total(Squares(h, l), l)
      <4> DEFINE G == Squares(f.gaps, n)
                 H == Squares(g, n)
                 P == Squares(r.gaps, l)
                 Q == Squares(h, l)
      <4>1. \A i \in 0..n - 1 : P[i] = G[i] /\ Q[i] = H[i]
        BY <3>3, <3>4 DEF Squares
      <4>2. P[n] = Q[n]
        BY <3>3, <3>4 DEF Squares
      <4>3. Total(G, n) = Total(H, n)
        BY Zenon, <3>2
      <4> HIDE DEF G, H, P, Q
      <4>4. Grown(G, H, P, Q, n)
        BY Zenon, <4>1, <4>2, <4>3 DEF Grown
      <4>5. Total(P, n + 1) = Total(Q, n + 1)
        BY <3>3, <4>4, TotalGrows
      <4> QED
        BY Zenon, <3>3, <4>5 DEF P, Q
    <3> QED
      BY Zenon, <3>1, <3>3, <3>5, <3>6 DEF h
  <2>2. CASE l > MAX_GAPS
    <3> DEFINE g == GapsOf(a, From(l), l)
               h == GapsOf(b, From(l + 1), l + 1)
               n == MAX_GAPS
    <3>1. /\ l - From(l) = n /\ (l + 1) - From(l + 1) = n
          /\ \A i \in 0..n - 1 : g[i] \in Int /\ h[i] \in Int
          /\ \A i \in 0..n - 2 : h[i] = g[i + 1]
          /\ g[0] = a[l - n + 1] - a[l - n]
          /\ h[n - 1] = b[l + 1] - a[l]
      <4>1. l - From(l) = n /\ (l + 1) - From(l + 1) = n /\ Slid(a, b, l, g, h)
        BY Zenon, <1>1, <1>5a, <2>2, WindowSlides
      <4> QED
        BY Zenon, <4>1 DEF Slid
    <3>2. Total(f.gaps, n) = Total(g, n) /\ Total(Squares(f.gaps, n), n) = Total(Squares(g, n), n)
      BY Zenon, <3>1, <1>k
    <3>3. f.gaps[m] = g[0] /\ r.gaps[m] = h[n - 1]
      <4>1. l - n + 1 \in 2..l /\ l - n + 1 > l - n /\ (l - n + 1) - 2 = l - n - 1 /\ (l - n + 1) - 1 = l - n
        BY <1>1, <2>2
      <4>2. (l - n - 1) % n = m
        <5>1. l - n - 1 \in Nat /\ l - 1 = (l - n - 1) + n
          BY <1>1, <2>2
        <5> QED
          BY ZenonT(30), <5>1, <1>1, ModShift DEF m
      <4>3. f.gaps[m] = a[l - n + 1] - a[l - n]
        BY <4>1, <4>2, <1>7, Zenon
      <4>4. r.gaps[m] = b[l + 1] - a[l]
        BY Zenon, <1>5, <1>6 DEF v
      <4> QED
        BY <4>3, <4>4, <3>1, Zenon
    <3> HIDE DEF g, h
    <3>4. \A i \in 0..n - 1 : f.gaps[i] \in Int /\ r.gaps[i] \in Int
      BY SMTT(30), <1>4, <1>6 DEF Flow
    <3>5. Total(r.gaps, n) = Total(h, n)
      <4>1. Turned(f.gaps, g, r.gaps, h, n, m)
        BY Zenon, <1>6, <3>1, <3>2, <3>3, <3>4 DEF Turned
      <4> QED
        BY <1>2, <4>1, IdsAssumption, TotalTurns
    <3>6. Total(Squares(r.gaps, n), n) = Total(Squares(h, n), n)
      <4> DEFINE G == Squares(f.gaps, n)
                 H == Squares(g, n)
                 P == Squares(r.gaps, n)
                 Q == Squares(h, n)
      <4>1. \A i \in 0..n - 1 : /\ G[i] = f.gaps[i] * f.gaps[i] /\ H[i] = g[i] * g[i]
                                /\ P[i] = r.gaps[i] * r.gaps[i] /\ Q[i] = h[i] * h[i]
        BY Zenon DEF Squares
      <4> HIDE DEF G, H, P, Q
      <4>2. \A i \in 0..n - 1 : G[i] \in Int /\ H[i] \in Int /\ P[i] \in Int /\ Q[i] \in Int
        <5>1. \A x \in Int : x * x \in Int
          OBVIOUS
        <5> QED
          BY Zenon, <3>1, <3>4, <4>1, <5>1
      <4>3. \A i \in 0..n - 1 : i # m => P[i] = G[i]
        BY Zenon, <1>6, <4>1
      <4>4. \A i \in 0..n - 2 : Q[i] = H[i + 1]
        <5> SUFFICES ASSUME NEW i \in 0..n - 2 PROVE Q[i] = H[i + 1]
          BY Zenon
        <5>1. i \in 0..n - 1 /\ i + 1 \in 0..n - 1
          OBVIOUS
        <5> QED
          BY Zenon, <5>1, <3>1, <4>1
      <4>5. G[m] = H[0] /\ P[m] = Q[n - 1]
        <5>1. 0 \in 0..n - 1 /\ n - 1 \in 0..n - 1
          OBVIOUS
        <5> QED
          BY Zenon, <5>1, <1>2, <3>3, <4>1
      <4>6. Total(G, n) = Total(H, n)
        BY Zenon, <3>2 DEF G, H
      <4>7. Total(P, n) = Total(Q, n)
        <5>1. Turned(G, H, P, Q, n, m)
          BY Zenon, <4>2, <4>3, <4>4, <4>5, <4>6 DEF Turned
        <5> QED
          BY <1>2, <5>1, IdsAssumption, TotalTurns
      <4> QED
        BY Zenon, <4>7 DEF P, Q
    <3> QED
      BY Zenon, <3>1, <3>5, <3>6 DEF h
  <2> QED
    BY <1>1, <2>1, <2>2
<1>10. Kept(r, b)
  BY SMTT(30), <1>1, <1>4, <1>5, <1>8, <1>9 DEF Kept
<1> QED
  BY Zenon, <1>4, <1>10 DEF r, b

\* rule_beacon()'s verdict on the buffer is the one on the history.
LEMMA SameVerdict ==
  ASSUME NEW f, NEW a \in Seq(Nat), Kept(f, a)
  PROVE  LET n == IF f.ngaps < MAX_GAPS THEN f.ngaps ELSE MAX_GAPS IN
         (n >= 1 /\ Regular(f.gaps, n)) <=> RegularAt(a, Len(a))
<1> DEFINE l == Len(a)
           n == IF f.ngaps < MAX_GAPS THEN f.ngaps ELSE MAX_GAPS
           h == GapsOf(a, From(l), l)
<1>1. l \in Nat /\ l >= 1 /\ f.ngaps = l - 1
  BY DEF Kept
<1>2. n = l - From(l) /\ (n >= 1 <=> l > From(l))
  <2> HIDE DEF l
  <2>1. n = (IF l - 1 < MAX_GAPS THEN l - 1 ELSE MAX_GAPS)
    BY Zenon, <1>1
  <2>2. From(l) = IF l > MAX_GAPS THEN l - MAX_GAPS ELSE 1
    BY Zenon DEF From
  <2> HIDE DEF n
  <2>3. CASE l > MAX_GAPS
    BY <1>1, <2>1, <2>2, <2>3, IdsAssumption
  <2>4. CASE ~(l > MAX_GAPS)
    BY <1>1, <2>1, <2>2, <2>4, IdsAssumption
  <2> QED
    BY Zenon, <2>3, <2>4
<1>3. /\ Total(f.gaps, l - From(l)) = Total(h, l - From(l))
      /\ Total(Squares(f.gaps, l - From(l)), l - From(l)) = Total(Squares(h, l - From(l)), l - From(l))
  BY Zenon DEF Kept
<1> HIDE DEF l, n, h
<1>4. Regular(f.gaps, n) <=> Regular(h, n)
  BY Zenon, <1>2, <1>3 DEF Regular, Squares
<1>5. RegularAt(a, l) <=> l > From(l) /\ Regular(h, n)
  BY Zenon, <1>2 DEF RegularAt, h
<1> QED
  BY Zenon, <1>2, <1>4, <1>5 DEF l, n

LEMMA OldVerdict ==
  ASSUME NEW a, NEW b, NEW l \in Nat, \A i \in 1..l : b[i] = a[i], NEW j \in 1..l
  PROVE  RegularAt(b, j) <=> RegularAt(a, j)
<1>1. From(j) \in 1..l
  BY IdsAssumption DEF From
<1>2. \A n \in 0..j - From(j) - 1 : From(j) + n + 1 \in 1..l /\ From(j) + n \in 1..l
  BY <1>1
<1>3. GapsOf(b, From(j), j) = GapsOf(a, From(j), j)
  BY Zenon, <1>2 DEF GapsOf
<1> QED
  BY Zenon, <1>3 DEF RegularAt

\* A flow as the records at the times a have left it.
Judged(f, a) ==
  f \in Flow /\ Kept(f, a) /\ (f.beacon_alerted <=> \E j \in DOMAIN a : RegularAt(a, j))

LEMMA FlowRulesJudge ==
  ASSUME NEW f, NEW a \in Seq(Nat), NEW ts \in Nat \ {0}, NEW k \in Keys,
         \/ f = NewFlow /\ a = <<>>
         \/ Judged(f, a) /\ ts >= a[Len(a)]
  PROVE  Judged(rule_suspicious_port(rule_beacon(f, ts), k), Append(a, ts))
<1> DEFINE r == Recorded(f, ts)
           b == Append(a, ts)
           l == Len(a)
           n == IF r.ngaps < MAX_GAPS THEN r.ngaps ELSE MAX_GAPS
           e == rule_beacon(f, ts)
           g == rule_suspicious_port(e, k)
<1>1. Kept(r, b) /\ r \in Flow /\ (r.beacon_alerted <=> \E j \in DOMAIN a : RegularAt(a, j))
  <2>1. CASE f = NewFlow /\ a = <<>>
    <3>1. DOMAIN a = {}
      BY <2>1
    <3> QED
      BY Zenon, <2>1, <3>1, FirstKept
  <2>2. CASE Judged(f, a) /\ ts >= a[l]
    <3>1. ts \in Nat
      BY Zenon
    <3> QED
      BY Zenon, <2>2, <3>1, NextKept DEF Judged
  <2> QED
    BY Zenon, <2>1, <2>2
<1>2. b \in Seq(Nat) /\ l \in Nat /\ Len(b) = l + 1 /\ DOMAIN a = 1..l /\ DOMAIN b = 1..l + 1
      /\ \A i \in 1..l : b[i] = a[i]
  OBVIOUS
<1>3. (n >= 1 /\ Regular(r.gaps, n)) <=> RegularAt(b, l + 1)
  BY Zenon, <1>1, <1>2, SameVerdict
<1>4. e = [r EXCEPT !.beacon_alerted = @ \/ (n >= 1 /\ Regular(r.gaps, n))]
  BY Zenon DEF rule_beacon
<1>5. g = [e EXCEPT !.susp_alerted = @ \/ Port(k) \in Suspicious]
  BY Zenon DEF rule_suspicious_port
<1> HIDE DEF r, b, n, e, g, l
<1>6. /\ e \in Flow /\ e.last_ts = r.last_ts /\ e.ngaps = r.ngaps /\ e.gaps = r.gaps
      /\ e.beacon_alerted = (r.beacon_alerted \/ (n >= 1 /\ Regular(r.gaps, n)))
  BY Zenon, <1>1, <1>4 DEF Flow
<1>7. /\ g \in Flow /\ g.last_ts = e.last_ts /\ g.ngaps = e.ngaps /\ g.gaps = e.gaps
      /\ g.beacon_alerted = e.beacon_alerted
  BY Zenon, <1>5, <1>6 DEF Flow
<1>8. Kept(g, b)
  BY Zenon, <1>1, <1>6, <1>7 DEF Kept
<1>9. \A j \in 1..l : RegularAt(b, j) <=> RegularAt(a, j)
  BY Zenon, <1>2, OldVerdict
<1>10. \A j : j \in 1..l + 1 <=> j \in 1..l \/ j = l + 1
  BY <1>2
<1>11. g.beacon_alerted <=> \E j \in DOMAIN b : RegularAt(b, j)
  BY Zenon, <1>1, <1>2, <1>3, <1>6, <1>7, <1>9, <1>10
<1> QED
  BY Zenon, <1>7, <1>8, <1>11 DEF Judged, g, e, b

-----------------------------------------------------------------------------
(* The entry of a source, against the ports and times A of its records     *)

LEMMA PortsFinite == IsFiniteSet(Ports) /\ IsFiniteSet(Srcs) /\ IsFiniteSet(Keys)
<1>1. [k \in Keys |-> Port(k)] \in Surjection(Keys, Ports)
  BY Zenon DEF Ports, Surjection
<1>2. [k \in Keys |-> Src(k)] \in Surjection(Keys, Srcs)
  BY Zenon DEF Srcs, Surjection
<1> QED
  BY Zenon, <1>1, <1>2, FS_Surjection, IdsAssumption

InWindow(A, last) == {q \in Ports : \E t \in Nat : <<q, t>> \in A /\ last - t < SCAN_WINDOW}

\* What seen[] holds at time last: only ports of the window, each with a time at which it
\* was touched and, unless a full seen[] has turned a port away, with its last one.
OnlyTouched(e, A, last) ==
  \A q \in Ports : e.seen[q] # 0 => <<q, e.seen[q]>> \in A /\ last - e.seen[q] < SCAN_WINDOW
AllTouched(e, A, last) ==
  \A q \in Ports, t \in Nat : <<q, t>> \in A /\ last - t < SCAN_WINDOW => e.seen[q] >= t

\* rule_portscan() before and after the tables, on a record not older than those before.
Before(e, A, ts, full) ==
  /\ e \in Scan /\ e.last_alert_ts <= ts
  /\ \A q \in Ports, t \in Nat : <<q, t>> \in A => t # 0 /\ t <= ts
  /\ \A q \in Ports : e.seen[q] # 0 => <<q, e.seen[q]>> \in A
  /\ ~full => AllTouched(e, A, ts)

LEMMA FreshIs ==
  ASSUME NEW e, NEW A, NEW ts \in Nat, NEW full, Before(e, A, ts, full), NEW q \in Ports
  PROVE  LET s == Fresh(e.seen, ts) IN
         /\ s[q] \in Nat /\ (s[q] # 0 => s[q] = e.seen[q] /\ ts - s[q] < SCAN_WINDOW /\ s[q] <= ts)
         /\ e.seen[q] \in Nat /\ (e.seen[q] # 0 /\ ts - e.seen[q] < SCAN_WINDOW => s[q] = e.seen[q])
<1>1. e.seen \in [Ports -> Nat] /\ e.seen[q] \in Nat
  BY Zenon DEF Before, Scan
<1>2. e.seen[q] # 0 => e.seen[q] <= ts
  BY Zenon, <1>1 DEF Before
<1>3. e.seen[q] # 0 => Minus(ts, e.seen[q]) = ts - e.seen[q]
  BY Zenon, <1>1, <1>2 DEF Minus
<1>4. Fresh(e.seen, ts)[q] = IF e.seen[q] # 0 /\ Minus(ts, e.seen[q]) < SCAN_WINDOW THEN e.seen[q] ELSE 0
  BY Zenon DEF Fresh
<1> QED
  BY <1>1, <1>2, <1>3, <1>4

LEMMA SeenIs ==
  ASSUME NEW e, NEW A, NEW ts \in Nat \ {0}, NEW full, Before(e, A, ts, full), NEW p \in Ports
  PROVE  LET old == Fresh(e.seen, ts)
             new == Touch(old, p, ts) IN
         /\ new \in [Ports -> Nat]
         /\ \A q \in Ports : q # p => new[q] = old[q]
         /\ new[p] = ts \/ new[p] = 0
<1> DEFINE old == Fresh(e.seen, ts)
           new == Touch(old, p, ts)
<1>1. old \in [Ports -> Nat]
  <2>1. \A q \in Ports : old[q] \in Nat
    BY Zenon, FreshIs
  <2>2. old = [q \in Ports |-> IF e.seen[q] # 0 /\ Minus(ts, e.seen[q]) < SCAN_WINDOW THEN e.seen[q] ELSE 0]
    BY Zenon DEF Fresh
  <2> HIDE DEF old
  <2> QED
    BY Zenon, <2>1, <2>2
<1> HIDE DEF old
<1>2. CASE old[p] # 0 \/ Count(old) < MAX_SCAN_PORTS
  <2>1. new = [old EXCEPT ![p] = ts]
    BY Zenon, <1>2 DEF Touch
  <2> QED
    BY Zenon, <1>1, <2>1 DEF old
<1>3. CASE ~(old[p] # 0 \/ Count(old) < MAX_SCAN_PORTS)
  <2>1. new = old /\ old[p] = 0
    BY Zenon, <1>3 DEF Touch
  <2> QED
    BY Zenon, <1>1, <2>1 DEF old
<1> QED
  BY Zenon, <1>2, <1>3

\* In whatever order the records come, the rule leaves a table entry, and seen[] within bounds.
LEMMA PortscanTyped ==
  ASSUME NEW e \in Scan, NEW p \in Ports, NEW ts \in Nat, Count(e.seen) <= MAX_SCAN_PORTS
  PROVE  LET g == rule_portscan(e, p, ts) IN g \in Scan /\ Count(g.seen) <= MAX_SCAN_PORTS
<1> USE IdsAssumption
<1> DEFINE old == Fresh(e.seen, ts)
           new == Touch(old, p, ts)
           g   == rule_portscan(e, p, ts)
<1>1. e.seen \in [Ports -> Nat] /\ e.last_alert_ts \in Nat
  BY Zenon DEF Scan
<1>2. old \in [Ports -> Nat] /\ \A q \in Ports : old[q] # 0 => e.seen[q] # 0
  BY Zenon, <1>1 DEF Fresh
<1> HIDE DEF old
<1>3. new \in [Ports -> Nat] /\ \A q \in Ports : q # p => new[q] = old[q]
  BY Zenon, <1>2 DEF Touch
<1>4. g.seen = new /\ g \in Scan
  <2> DEFINE last == IF Count(new) > SCAN_PORT_THRESH /\ Cooled(e.last_alert_ts, ts) THEN ts ELSE e.last_alert_ts
  <2>1. g = [seen |-> new, last_alert_ts |-> last]
    BY Zenon DEF rule_portscan, old
  <2>2. last \in Nat
    BY Zenon, <1>1
  <2> HIDE DEF g, new, last
  <2> QED
    BY Zenon, <2>1, <2>2, <1>3 DEF Scan
<1>5. Count(new) <= MAX_SCAN_PORTS
  <2> DEFINE E == {q \in Ports : e.seen[q] # 0}
             O == {q \in Ports : old[q] # 0}
             N == {q \in Ports : new[q] # 0}
  <2>1. Count(e.seen) = Cardinality(E) /\ Count(old) = Cardinality(O) /\ Count(new) = Cardinality(N)
    BY Zenon DEF Count
  <2>2. IsFiniteSet(E) /\ IsFiniteSet(O)
    BY Zenon, PortsFinite, FS_Subset
  <2>3. O \subseteq E
    BY Zenon, <1>2
  <2>4. (old[p] # 0 \/ Count(old) < MAX_SCAN_PORTS) \/ new = old
    BY Zenon DEF Touch
  <2>5. N \subseteq O \cup {p}
    BY Zenon, <1>3
  <2> HIDE DEF E, O, N, old, new
  <2>6. Cardinality(O) \in Nat /\ Cardinality(E) \in Nat /\ Cardinality(O) <= Cardinality(E)
    BY Zenon, <2>2, <2>3, FS_Subset, FS_CardinalityType
  <2>7. /\ IsFiniteSet(O \cup {p})
        /\ Cardinality(O \cup {p}) = IF p \in O THEN Cardinality(O) ELSE Cardinality(O) + 1
    BY Zenon, <2>2, FS_AddElement
  <2>8. Cardinality(N) <= Cardinality(O \cup {p}) /\ Cardinality(N) \in Nat
    BY Zenon, <2>5, <2>7, FS_Subset, FS_CardinalityType
  <2>9. old[p] # 0 => p \in O
    BY Zenon DEF O
  <2>10. CASE new = old
    BY <2>10, <2>1, <2>6 DEF O, N
  <2>11. CASE old[p] # 0
    BY <2>11, <2>1, <2>6, <2>7, <2>8, <2>9
  <2>12. CASE Count(old) < MAX_SCAN_PORTS
    BY <2>12, <2>1, <2>6, <2>7, <2>8
  <2> QED
    BY Zenon, <2>4, <2>10, <2>11, <2>12
<1> QED
  BY Zenon, <1>4, <1>5

\* What rule_portscan() leaves: an entry of this very moment, in bounds; it reports only a
\* scan, only after the cooldown, and every one that seen[] had room for.
After(e, g, A, p, ts, full) ==
  LET B == A \cup {<<p, ts>>} IN
  /\ g \in Scan /\ g.last_alert_ts <= ts /\ OnlyTouched(g, B, ts)
  /\ ~full /\ g.seen[p] = ts => AllTouched(g, B, ts)
  /\ g.last_alert_ts # e.last_alert_ts =>
       /\ g.last_alert_ts = ts /\ Cardinality(InWindow(B, ts)) > SCAN_PORT_THRESH
       /\ e.last_alert_ts # 0 => ts > e.last_alert_ts + SCAN_COOLDOWN
  /\ ~full /\ g.seen[p] = ts /\ Cardinality(InWindow(B, ts)) > SCAN_PORT_THRESH =>
       g.last_alert_ts # 0 /\ ts <= g.last_alert_ts + SCAN_COOLDOWN

LEMMA PortscanRule ==
  ASSUME NEW e, NEW A, NEW ts \in Nat \ {0}, NEW full, Before(e, A, ts, full), NEW p \in Ports
  PROVE  After(e, rule_portscan(e, p, ts), A, p, ts, full)
<1> USE IdsAssumption
<1> DEFINE old == Fresh(e.seen, ts)
           new == Touch(old, p, ts)
           g   == rule_portscan(e, p, ts)
           B   == A \cup {<<p, ts>>}
           hot == Count(new) > SCAN_PORT_THRESH /\ Cooled(e.last_alert_ts, ts)
           In  == {q \in Ports : new[q] # 0}
<1>1. new \in [Ports -> Nat] /\ (\A q \in Ports : q # p => new[q] = old[q]) /\ (new[p] = ts \/ new[p] = 0)
  BY SeenIs
<1>2. \A q \in Ports : /\ old[q] \in Nat
                       /\ old[q] # 0 => old[q] = e.seen[q] /\ ts - old[q] < SCAN_WINDOW /\ old[q] <= ts
                       /\ e.seen[q] \in Nat
                       /\ e.seen[q] # 0 /\ ts - e.seen[q] < SCAN_WINDOW => old[q] = e.seen[q]
  BY Zenon, FreshIs
<1>3. e.last_alert_ts \in Nat /\ e.last_alert_ts <= ts /\ ts \in Nat /\ ts # 0
  BY Zenon DEF Before, Scan
<1>4. g = [seen |-> new, last_alert_ts |-> IF hot THEN ts ELSE e.last_alert_ts]
  BY Zenon DEF rule_portscan
<1>5. g.seen = new /\ g.last_alert_ts = (IF hot THEN ts ELSE e.last_alert_ts)
  <2> HIDE DEF new, hot, g
  <2> QED
    BY Zenon, <1>4
<1>6. g \in Scan
  BY <1>1, <1>3, <1>4 DEF Scan
<1>7. /\ \A q \in Ports : e.seen[q] # 0 => <<q, e.seen[q]>> \in A
      /\ \A q \in Ports, t \in Nat : <<q, t>> \in A => t # 0 /\ t <= ts
      /\ ~full => AllTouched(e, A, ts)
  BY Zenon DEF Before
<1>9. Count(new) = Cardinality(In)
  BY Zenon DEF Count
<1>10. hot => e.last_alert_ts = 0 \/ ts > e.last_alert_ts + SCAN_COOLDOWN
  BY <1>3 DEF Cooled, Minus
<1>11. Count(new) > SCAN_PORT_THRESH /\ ~hot => e.last_alert_ts # 0 /\ ts <= e.last_alert_ts + SCAN_COOLDOWN
  BY <1>3 DEF Cooled, Minus
<1> HIDE DEF old, new, g, hot
<1>12. OnlyTouched(g, B, ts)
  <2> SUFFICES ASSUME NEW q \in Ports, new[q] # 0
               PROVE  <<q, new[q]>> \in B /\ ts - new[q] < SCAN_WINDOW
    BY Zenon, <1>5 DEF OnlyTouched
  <2>1. CASE q = p
    BY <2>1, <1>1, <1>3
  <2>2. CASE q # p
    <3>1. old[q] # 0 /\ new[q] = e.seen[q] /\ e.seen[q] # 0 /\ ts - new[q] < SCAN_WINDOW
      BY Zenon, <1>1, <1>2, <2>2
    <3> QED
      BY Zenon, <3>1, <1>7
  <2> QED
    BY Zenon, <2>1, <2>2
<1>13. ASSUME ~full, new[p] = ts PROVE AllTouched(g, B, ts)
  <2> SUFFICES ASSUME NEW q \in Ports, NEW t \in Nat, <<q, t>> \in B, ts - t < SCAN_WINDOW
               PROVE  new[q] >= t
    BY Zenon, <1>5 DEF AllTouched
  <2>1. CASE <<q, t>> = <<p, ts>>
    BY <2>1, <1>3, <1>13
  <2>2. CASE <<q, t>> # <<p, ts>>
    <3>1. <<q, t>> \in A
      BY Zenon, <2>2
    <3>2. e.seen[q] >= t /\ t <= ts
      BY Zenon, <3>1, <1>7, <1>13 DEF AllTouched
    <3>3. CASE q = p
      BY Zenon, <3>2, <3>3, <1>3, <1>13
    <3>4. CASE q # p
      <4>1. new[q] = old[q] /\ e.seen[q] \in Nat
        BY Zenon, <3>4, <1>1, <1>2
      <4>2. CASE e.seen[q] # 0
        <5>1. ts - e.seen[q] < SCAN_WINDOW
          BY <1>3, <3>2, <4>1
        <5>2. old[q] = e.seen[q]
          BY Zenon, <5>1, <4>2, <1>2
        <5> QED
          BY Zenon, <5>2, <4>1, <3>2
      <4>3. CASE e.seen[q] = 0
        <5>1. t = 0
          BY <4>3, <3>2
        <5> QED
          BY <5>1, <4>1, <1>2
      <4> QED
        BY Zenon, <4>2, <4>3
    <3> QED
      BY Zenon, <3>3, <3>4
  <2> QED
    BY Zenon, <2>1, <2>2
<1>14. In \subseteq InWindow(B, ts)
  <2> SUFFICES ASSUME NEW q \in Ports, new[q] # 0 PROVE q \in InWindow(B, ts)
    BY Zenon
  <2>1. <<q, new[q]>> \in B /\ ts - new[q] < SCAN_WINDOW
    BY Zenon, <1>5, <1>12 DEF OnlyTouched
  <2>2. new[q] \in Nat
    BY Zenon, <1>1
  <2> QED
    BY Zenon, <2>1, <2>2 DEF InWindow
<1>15. IsFiniteSet(InWindow(B, ts)) /\ Cardinality(In) <= Cardinality(InWindow(B, ts))
       /\ Cardinality(In) \in Nat /\ Cardinality(InWindow(B, ts)) \in Nat
  <2>1. InWindow(B, ts) \subseteq Ports
    BY Zenon DEF InWindow
  <2>2. IsFiniteSet(InWindow(B, ts))
    BY Zenon, <2>1, PortsFinite, FS_Subset
  <2> HIDE DEF In, B
  <2>3. IsFiniteSet(In) /\ Cardinality(In) <= Cardinality(InWindow(B, ts))
    BY Zenon, <2>2, <1>14, FS_Subset
  <2> QED
    BY Zenon, <2>2, <2>3, FS_CardinalityType
<1>16. ASSUME ~full, new[p] = ts PROVE Cardinality(InWindow(B, ts)) <= Cardinality(In)
  <2>1. InWindow(B, ts) \subseteq In
    <3> SUFFICES ASSUME NEW q \in Ports, NEW t \in Nat, <<q, t>> \in B, ts - t < SCAN_WINDOW
                 PROVE  new[q] # 0
      BY Zenon DEF InWindow
    <3>1. new[q] >= t
      BY Zenon, <1>5, <1>13, <1>16 DEF AllTouched
    <3>2. t # 0
      BY Zenon, <1>3, <1>7
    <3> QED
      BY <3>1, <3>2
  <2>2. IsFiniteSet(In)
    BY Zenon, PortsFinite, FS_Subset
  <2> HIDE DEF In, B
  <2> QED
    BY Zenon, <2>1, <2>2, FS_Subset
<1> HIDE DEF In, B
<1>17. g.last_alert_ts <= ts
  BY <1>3, <1>5
<1>18. ASSUME g.last_alert_ts # e.last_alert_ts
       PROVE  /\ g.last_alert_ts = ts /\ Cardinality(InWindow(B, ts)) > SCAN_PORT_THRESH
              /\ e.last_alert_ts # 0 => ts > e.last_alert_ts + SCAN_COOLDOWN
  <2>1. hot
    BY Zenon, <1>5, <1>18
  <2>2. Count(new) > SCAN_PORT_THRESH
    BY Zenon, <2>1 DEF hot
  <2> QED
    BY <2>1, <2>2, <1>5, <1>9, <1>10, <1>15
<1>19. ASSUME ~full, new[p] = ts, Cardinality(InWindow(B, ts)) > SCAN_PORT_THRESH
       PROVE  g.last_alert_ts # 0 /\ ts <= g.last_alert_ts + SCAN_COOLDOWN
  <2>1. Count(new) > SCAN_PORT_THRESH
    BY <1>9, <1>15, <1>16, <1>19
  <2>2. CASE hot
    BY <2>2, <1>3, <1>5
  <2>3. CASE ~hot
    BY Zenon, <2>1, <2>3, <1>5, <1>11
  <2> QED
    BY Zenon, <2>2, <2>3
<1> QED
  BY Zenon, <1>5, <1>6, <1>12, <1>13, <1>17, <1>18, <1>19 DEF After, B, g

-----------------------------------------------------------------------------
(* The inductive invariant                                                 *)

\* The ports and times of the records of source s in the history a.
Marks(a, s) ==
  {z \in Ports \X Nat : \E k \in Keys : Src(k) = s /\ \E i \in DOMAIN a[k] : z = <<Port(k), a[k][i]>>}

\* Records that are submitted have their time.
Stamped == \A j \in DOMAIN ring : ring[j].cpu = None => ring[j].ts # 0

Typed ==
  /\ TypeOK /\ arr \in [Keys -> Seq(Nat)] /\ lastTs \in Nat /\ ordered \in BOOLEAN /\ Stamped
  /\ \A k \in Keys : flows[k] # None => flows[k].last_ts <= MaxTime

InTime == ordered => \A k \in Keys : \A i \in DOMAIN arr[k] : arr[k][i] # 0 /\ arr[k][i] <= lastTs

\* Who has sent records and has no entry came when the table was full, and it stays full.
FullForGood ==
  /\ \A k \in Keys : flows[k] = None /\ arr[k] # <<>> =>
       Cardinality({j \in Keys : flows[j] # None}) >= MAX_FLOWS
  /\ \A s \in Srcs : scans[s] = None /\ Marks(arr, s) # {} =>
       Cardinality({x \in Srcs : scans[x] # None}) >= MAX_SCAN_SRC

FlowsJudged == ordered => \A k \in Keys : flows[k] # None => Judged(flows[k], arr[k])

\* The entry e of a source with records A, the last one at time m.
Windowed(e, A, m, full) ==
  /\ m \in Nat /\ (\E q \in Ports : <<q, m>> \in A)
  /\ \A q \in Ports, t \in Nat : <<q, t>> \in A => t <= m
  /\ e.last_alert_ts <= m /\ OnlyTouched(e, A, m)
  /\ ~full => /\ AllTouched(e, A, m)
              /\ Cardinality(InWindow(A, m)) > SCAN_PORT_THRESH =>
                   e.last_alert_ts # 0 /\ m <= e.last_alert_ts + SCAN_COOLDOWN
ScansWindowed ==
  ordered => \A s \in Srcs : scans[s] # None => Windowed(scans[s], Marks(arr, s), LastOf(s), s \in turned)

IdsInv == Typed /\ InTime /\ FullForGood /\ FlowsJudged /\ ScansWindowed

-----------------------------------------------------------------------------
(* The tap: main() and ids_tap()                                           *)

LEMMA Concat ==
  ASSUME NEW S, NEW s \in Seq(S), NEW t \in Seq(S)
  PROVE  s \o t \in Seq(S) /\ Len(s \o t) = Len(s) + Len(t) /\ DOMAIN (s \o t) = 1..Len(s) + Len(t)
OBVIOUS

LEMMA ReserveTyped ==
  ASSUME TapTypeOK, Stamped, NEW c \in Cpus, NEW k \in Keys, NEW i \in Ifaces, NEW dir \in {"outgoing", "host"},
         Reserve(c, k, i, dir)
  PROVE  TapTypeOK' /\ Stamped'
<1> USE TapAssumption
<1> DEFINE room == RingSize - Len(ring)
           n    == Cardinality(Seen(i, dir))
           m    == IF n < room THEN n ELSE room
           r    == [key |-> k, at |-> i, ts |-> 0, cpu |-> c]
           new  == [j \in 1..m |-> r]
<1>1. /\ pkts < MaxPkts /\ pkts' = pkts + 1 /\ ring' = ring \o new
      /\ UNCHANGED <<pc, lo, quiet, taken, foreign, now>>
  BY Zenon DEF Reserve, sockVars
<1>2. Len(ring) \in Nat /\ Len(ring) <= RingSize /\ ring \in Seq(Record) /\ DOMAIN ring = 1..Len(ring)
  BY DEF TapTypeOK
<1>3. n \in Nat
  <2>1. IsFiniteSet({"outgoing"} \cup {"host"})
    BY Zenon, FS_Singleton, FS_AddElement
  <2>2. Seen(i, dir) \subseteq {"outgoing"} \cup {"host"}
    BY Zenon DEF Seen, Copies
  <2> QED
    BY Zenon, <2>1, <2>2, FS_Subset, FS_CardinalityType
<1> HIDE DEF n
<1>4. m \in Nat /\ Len(ring) + m <= RingSize
  BY <1>2, <1>3
<1>5. r \in Record /\ r.cpu # None
  BY DEF Record
<1> HIDE DEF m, r
<1>6. new \in Seq(Record) /\ Len(new) = m /\ \A j \in 1..m : new[j] = r
  BY <1>4, <1>5
<1> HIDE DEF new
<1>7. ring' \in Seq(Record) /\ Len(ring') = Len(ring) + m /\ DOMAIN ring' = 1..Len(ring) + m
  BY Zenon, <1>1, <1>2, <1>6, Concat
<1>8. \A j \in DOMAIN ring' : (j \in DOMAIN ring /\ ring'[j] = ring[j]) \/ ring'[j] = r
  <2> SUFFICES ASSUME NEW j \in DOMAIN ring' PROVE (j \in DOMAIN ring /\ ring'[j] = ring[j]) \/ ring'[j] = r
    BY Zenon
  <2>1. CASE j <= Len(ring)
    BY <2>1, <1>1, <1>2, <1>4, <1>6, <1>7
  <2>2. CASE ~(j <= Len(ring))
    <3>1. j - Len(ring) \in 1..m
      BY <2>2, <1>2, <1>4, <1>7
    <3>2. ring'[j] = new[j - Len(ring)]
      BY <2>2, <3>1, <1>1, <1>2, <1>4, <1>6, <1>7
    <3> QED
      BY Zenon, <3>1, <3>2, <1>6
  <2> QED
    BY Zenon, <2>1, <2>2
<1>9. Stamped'
  BY Zenon, <1>5, <1>8 DEF Stamped
<1>10. pkts' \in 0..MaxPkts
  BY <1>1 DEF TapTypeOK
<1>11. Len(ring') <= RingSize
  BY Zenon, <1>4, <1>7
<1> QED
  BY Zenon, <1>1, <1>7, <1>9, <1>10, <1>11 DEF TapTypeOK

LEMMA SubmitTyped ==
  ASSUME TapTypeOK, Stamped, NEW c \in Cpus, Submit(c)
  PROVE  TapTypeOK' /\ Stamped'
<1>1. PICK i \in DOMAIN ring : ring' = [ring EXCEPT ![i].ts = now, ![i].cpu = None]
  BY Zenon DEF Submit
<1>2. UNCHANGED <<pc, lo, quiet, taken, foreign, now, pkts>>
  BY Zenon DEF Submit, sockVars
<1>3. ring \in Seq(Record) /\ now \in 1..MaxTime /\ now \in 0..MaxTime /\ now # 0 /\ ring[i] \in Record
  BY TapAssumption DEF TapTypeOK
<1> DEFINE r == [ring[i] EXCEPT !.ts = now, !.cpu = None]
<1>4. r \in Record /\ r.ts = now
  BY Zenon, <1>3 DEF Record
<1>5. ring' = [ring EXCEPT ![i] = r]
  BY Zenon, <1>1
<1> HIDE DEF r
<1>6. /\ ring' \in Seq(Record) /\ Len(ring') = Len(ring) /\ DOMAIN ring' = DOMAIN ring
      /\ ring'[i] = r /\ \A j \in DOMAIN ring : j # i => ring'[j] = ring[j]
  BY <1>3, <1>4, <1>5
<1>7. Stamped'
  BY Zenon, <1>3, <1>4, <1>6 DEF Stamped
<1> QED
  BY Zenon, <1>2, <1>6, <1>7 DEF TapTypeOK

LEMMA TapTyped ==
  ASSUME TapTypeOK, Stamped, TapStep
  PROVE  TapTypeOK' /\ Stamped'
<1>1. CASE MainStep
  <2>1. pc' \in Calls \cup {"exited"} /\ UNCHANGED <<now, pkts, ring, taken, foreign, lo>> /\ quiet' \in BOOLEAN
    BY Zenon, <1>1 DEF MainStep, Call, IgnoreOutgoing, InstallHandlers, LeaveLoop, sockVars, TapTypeOK,
                       Calls, Unbound, Bound
  <2> QED
    BY Zenon, <2>1 DEF TapTypeOK, Stamped
<1>2. CASE Tick
  <2>1. now' \in 1..MaxTime /\ UNCHANGED <<pc, lo, quiet, taken, foreign, pkts, ring>>
    BY <1>2, TapAssumption DEF Tick, sockVars, TapTypeOK
  <2> QED
    BY Zenon, <2>1 DEF TapTypeOK, Stamped
<1> QED
  BY Zenon, <1>1, <1>2, ReserveTyped, SubmitTyped DEF TapStep

-----------------------------------------------------------------------------
(* handle_event()                                                          *)

\* The rules on a record of flow k with time stamp ts.
Handles(k, ts) ==
  LET f == flow_get(k)
      e == ScanEntry(Src(k)) IN
  /\ flows' = [flows EXCEPT ![k] = IF f = None THEN None ELSE rule_suspicious_port(rule_beacon(f, ts), k)]
  /\ scans' = [scans EXCEPT ![Src(k)] = IF e = None THEN None ELSE rule_portscan(e, Port(k), ts)]
  /\ arr' = [arr EXCEPT ![k] = Append(@, ts)]
  /\ lastTs' = ts /\ ordered' = (ordered /\ ts >= lastTs)
  /\ turned' = turned \cup {s \in {Src(k)} : e # None /\ scans'[s].seen[Port(k)] # ts}

LEMMA Handled ==
  ASSUME IdsInv, handle_event
  PROVE  /\ TapTypeOK' /\ Stamped'
         /\ \E k \in Keys : \E ts \in 1..MaxTime : Handles(k, ts)
<1> USE TapAssumption
<1>1. /\ ring # <<>> /\ Head(ring).cpu = None /\ ring' = Tail(ring) /\ taken' = taken + 1
      /\ foreign' = (foreign \/ Head(ring).at = "other") /\ UNCHANGED <<pc, lo, quiet, now, pkts>>
  BY Zenon DEF handle_event, Take
<1>2. ring \in Seq(Record) /\ Len(ring) <= RingSize /\ Stamped /\ taken \in Nat /\ foreign \in BOOLEAN
  BY Zenon DEF IdsInv, Typed, TypeOK, TapTypeOK
<1>3. /\ ring' \in Seq(Record) /\ Len(ring') = Len(ring) - 1 /\ Head(ring) = ring[1] /\ 1 \in DOMAIN ring
      /\ Head(ring) \in Record
  BY <1>1, <1>2
<1>4. \A j \in DOMAIN ring' : j + 1 \in DOMAIN ring /\ ring'[j] = ring[j + 1]
  BY <1>1, <1>2
<1>5. Head(ring).key \in Keys /\ Head(ring).ts \in 1..MaxTime
  <2>1. Head(ring).key \in Keys /\ Head(ring).ts \in 0..MaxTime
    BY Zenon, <1>3 DEF Record
  <2>2. Head(ring).ts # 0
    BY Zenon, <1>1, <1>2, <1>3 DEF Stamped
  <2> QED
    BY <2>1, <2>2
<1>6. Handles(Head(ring).key, Head(ring).ts)
  BY Zenon DEF handle_event, Handles
<1>7. Stamped'
  BY Zenon, <1>2, <1>4 DEF Stamped
<1>8. taken' \in Nat /\ foreign' \in BOOLEAN /\ Len(ring') <= RingSize
  <2>1. taken' \in Nat /\ Len(ring') <= RingSize
    BY <1>1, <1>2, <1>3
  <2>2. foreign' \in BOOLEAN
    BY Zenon, <1>1, <1>2
  <2> QED
    BY Zenon, <2>1, <2>2
<1>9. TapTypeOK'
  BY Zenon, <1>1, <1>3, <1>8 DEF IdsInv, Typed, TypeOK, TapTypeOK
<1> QED
  BY Zenon, <1>5, <1>6, <1>7, <1>9

\* A record is added to the history.
Appended(a, b, k, ts) ==
  /\ b \in [Keys -> Seq(Nat)] /\ b[k] = Append(a[k], ts)
  /\ \A j \in Keys : j # k => b[j] = a[j]
  /\ \A s : Marks(b, s) = IF s = Src(k) THEN Marks(a, s) \cup {<<Port(k), ts>>} ELSE Marks(a, s)
LEMMA LongerHistory ==
  ASSUME NEW a \in [Keys -> Seq(Nat)], NEW k \in Keys, NEW ts \in Nat,
         NEW b, b = [a EXCEPT ![k] = Append(a[k], ts)]
  PROVE  Appended(a, b, k, ts)
<1>1. Append(a[k], ts) \in Seq(Nat)
  OBVIOUS
<1>2. b \in [Keys -> Seq(Nat)] /\ b[k] = Append(a[k], ts) /\ \A j \in Keys : j # k => b[j] = a[j]
  BY Zenon, <1>1
<1> DEFINE l == Len(a[k])
<1>3. /\ l + 1 \in DOMAIN b[k] /\ b[k][l + 1] = ts
      /\ \A i \in DOMAIN a[k] : i \in DOMAIN b[k] /\ b[k][i] = a[k][i]
      /\ \A i \in DOMAIN b[k] : i = l + 1 \/ i \in DOMAIN a[k]
  BY <1>2
<1> HIDE DEF l
<1>6. ASSUME NEW s, NEW z \in Marks(a, s) PROVE z \in Marks(b, s)
  <2>1. PICK j \in Keys : Src(j) = s /\ \E i \in DOMAIN a[j] : z = <<Port(j), a[j][i]>>
    BY Zenon, <1>6 DEF Marks
  <2>2. PICK i \in DOMAIN a[j] : z = <<Port(j), a[j][i]>>
    BY Zenon, <2>1
  <2>3. i \in DOMAIN b[j] /\ z = <<Port(j), b[j][i]>>
    BY Zenon, <2>2, <1>2, <1>3
  <2> QED
    BY Zenon, <1>6, <2>1, <2>3 DEF Marks
<1>7. <<Port(k), ts>> \in Marks(b, Src(k))
  <2>1. Port(k) \in Ports
    BY Zenon DEF Ports
  <2>2. <<Port(k), ts>> \in Ports \X Nat
    BY Zenon, <2>1
  <2> QED
    BY Zenon, <2>2, <1>3 DEF Marks
<1>8. ASSUME NEW s, NEW z \in Marks(b, s) PROVE z \in Marks(a, s) \/ (s = Src(k) /\ z = <<Port(k), ts>>)
  <2>1. PICK j \in Keys : Src(j) = s /\ \E i \in DOMAIN b[j] : z = <<Port(j), b[j][i]>>
    BY Zenon, <1>8 DEF Marks
  <2>2. PICK i \in DOMAIN b[j] : z = <<Port(j), b[j][i]>>
    BY Zenon, <2>1
  <2>3. CASE j = k
    <3>1. CASE i = l + 1
      BY Zenon, <2>1, <2>2, <2>3, <3>1, <1>3
    <3>2. CASE i \in DOMAIN a[k]
      BY Zenon, <1>8, <2>1, <2>2, <2>3, <3>2, <1>3 DEF Marks
    <3> QED
      BY Zenon, <2>3, <3>1, <3>2, <1>3
  <2>4. CASE j # k
    BY Zenon, <1>8, <2>1, <2>2, <2>4, <1>2 DEF Marks
  <2> QED
    BY Zenon, <2>3, <2>4
<1>9. ASSUME NEW s PROVE Marks(b, s) = IF s = Src(k) THEN Marks(a, s) \cup {<<Port(k), ts>>} ELSE Marks(a, s)
  <2>1. CASE s = Src(k)
    <3>1. Marks(b, s) = Marks(a, s) \cup {<<Port(k), ts>>}
      BY Zenon, <2>1, <1>6, <1>7, <1>8
    <3> QED
      BY Zenon, <2>1, <3>1
  <2>2. CASE s # Src(k)
    <3>1. Marks(b, s) = Marks(a, s)
      <4>1. Marks(b, s) \subseteq Marks(a, s) /\ Marks(a, s) \subseteq Marks(b, s)
        BY Zenon, <2>2, <1>6, <1>8
      <4> QED
        BY Zenon, <4>1
    <3> QED
      BY Zenon, <2>2, <3>1
  <2> QED
    BY Zenon, <2>1, <2>2
<1> QED
  BY Zenon, <1>2, <1>9 DEF Appended

\* m is the time of the last record of source s in the history a.
IsLast(a, s, m) ==
  /\ m \in Nat /\ (\E q \in Ports : <<q, m>> \in Marks(a, s))
  /\ \A q \in Ports, t \in Nat : <<q, t>> \in Marks(a, s) => t <= m

LEMMA LastIs ==
  ASSUME NEW a \in [Keys -> Seq(Nat)], NEW s, NEW m, IsLast(a, s, m)
  PROVE  Max(UNION {{a[k][i] : i \in DOMAIN a[k]} : k \in {x \in Keys : Src(x) = s}}) = m
<1> DEFINE S(k) == {a[k][i] : i \in DOMAIN a[k]}
           K == {x \in Keys : Src(x) = s}
           T == UNION {S(k) : k \in K}
<1>1. ASSUME NEW k \in Keys, Src(k) = s, NEW i \in DOMAIN a[k] PROVE a[k][i] \in Nat /\ a[k][i] <= m
  <2>1. a[k][i] \in Nat /\ Port(k) \in Ports
    BY DEF Ports
  <2>2. <<Port(k), a[k][i]>> \in Marks(a, s)
    BY Zenon, <1>1, <2>1 DEF Marks
  <2> QED
    BY Zenon, <2>1, <2>2 DEF IsLast
<1>2. m \in T /\ m \in Nat
  <2>1. PICK q \in Ports : <<q, m>> \in Marks(a, s)
    BY Zenon DEF IsLast
  <2>2. PICK k \in Keys : Src(k) = s /\ \E i \in DOMAIN a[k] : <<q, m>> = <<Port(k), a[k][i]>>
    BY Zenon, <2>1 DEF Marks
  <2>3. PICK i \in DOMAIN a[k] : m = a[k][i]
    BY Zenon, <2>2
  <2>4. m \in S(k) /\ k \in K
    BY Zenon, <2>2, <2>3
  <2> HIDE DEF S, K
  <2> QED
    BY Zenon, <2>4 DEF IsLast
<1>3. \A t \in T : t \in Nat /\ t <= m
  <2> SUFFICES ASSUME NEW t \in T PROVE t \in Nat /\ t <= m
    BY Zenon
  <2>1. PICK k \in K : t \in S(k)
    <3> HIDE DEF S, K
    <3> QED
      BY Zenon
  <2>2. PICK i \in DOMAIN a[k] : t = a[k][i]
    BY Zenon, <2>1
  <2> QED
    BY Zenon, <2>1, <2>2, <1>1
<1> HIDE DEF T
<1>4. m \in T /\ \A y \in T : m >= y
  BY Zenon, <1>2, <1>3
<1> DEFINE M == CHOOSE x \in T : \A y \in T : x >= y
<1>5. M \in T /\ \A y \in T : M >= y
  BY Zenon, <1>4
<1> HIDE DEF M
<1>6. M = m
  BY <1>2, <1>3, <1>5
<1> QED
  BY Zenon, <1>6 DEF M, T, Max

LEMMA TouchedIs ==
  ASSUME NEW a \in [Keys -> Seq(Nat)], NEW s, NEW m \in Nat
  PROVE  {Port(k) : k \in {x \in Keys : Src(x) = s /\ \E i \in DOMAIN a[x] : m - a[x][i] < SCAN_WINDOW}}
           = InWindow(Marks(a, s), m)
<1> DEFINE T == {Port(k) : k \in {x \in Keys : Src(x) = s /\ \E i \in DOMAIN a[x] : m - a[x][i] < SCAN_WINDOW}}
           W == InWindow(Marks(a, s), m)
<1>1. ASSUME NEW k \in Keys, Src(k) = s, NEW i \in DOMAIN a[k], m - a[k][i] < SCAN_WINDOW PROVE Port(k) \in W
  <2>1. a[k][i] \in Nat /\ Port(k) \in Ports
    BY DEF Ports
  <2>2. <<Port(k), a[k][i]>> \in Marks(a, s)
    BY Zenon, <1>1, <2>1 DEF Marks
  <2> QED
    BY Zenon, <1>1, <2>1, <2>2 DEF InWindow
<1>2. ASSUME NEW q \in W PROVE q \in T
  <2>1. PICK t \in Nat : <<q, t>> \in Marks(a, s) /\ m - t < SCAN_WINDOW
    BY Zenon, <1>2 DEF InWindow
  <2>2. PICK k \in Keys : Src(k) = s /\ \E i \in DOMAIN a[k] : <<q, t>> = <<Port(k), a[k][i]>>
    BY Zenon, <2>1 DEF Marks
  <2>3. PICK i \in DOMAIN a[k] : q = Port(k) /\ t = a[k][i]
    BY Zenon, <2>2
  <2> QED
    BY Zenon, <2>1, <2>2, <2>3
<1>3. T \subseteq W
  BY Zenon, <1>1
<1>4. W \subseteq T
  BY Zenon, <1>2
<1> HIDE DEF T, W
<1> QED
  BY Zenon, <1>3, <1>4 DEF T, W

-----------------------------------------------------------------------------
(* The flow table                                                          *)

LEMMA FlowRulesTyped ==
  ASSUME NEW f \in Flow, f.last_ts <= MaxTime, NEW ts \in 1..MaxTime, NEW k \in Keys
  PROVE  LET g == rule_suspicious_port(rule_beacon(f, ts), k) IN g \in Flow /\ g.last_ts = ts
<1> USE TapAssumption, IdsAssumption
<1> DEFINE r == Recorded(f, ts)
           n == IF r.ngaps < MAX_GAPS THEN r.ngaps ELSE MAX_GAPS
           v == n >= 1 /\ Regular(r.gaps, n)
           e == rule_beacon(f, ts)
           m == f.ngaps % MAX_GAPS
           d == Minus(ts, f.last_ts)
<1>1. r \in Flow /\ r.last_ts = ts
  <2>1. CASE f.last_ts = 0
    <3>1. r = [f EXCEPT !.last_ts = ts]
      BY Zenon, <2>1 DEF Recorded
    <3>2. ts \in Nat
      OBVIOUS
    <3> HIDE DEF r
    <3> QED
      BY Zenon, <3>1, <3>2 DEF Flow
  <2>2. CASE f.last_ts # 0
    <3>1. f.ngaps \in Nat /\ f.last_ts \in Nat /\ f.gaps \in [0..MAX_GAPS - 1 -> Nat]
      BY Zenon DEF Flow
    <3>2. d \in Nat
      BY SMTT(30), <3>1 DEF Minus
    <3>3. m \in 0..MAX_GAPS - 1
      BY Zenon, <3>1, ModDef
    <3>4. r = [f EXCEPT !.gaps[m] = d, !.ngaps = @ + 1, !.last_ts = ts]
      BY Zenon, <2>2 DEF Recorded, Slot
    <3> HIDE DEF d, m, r
    <3>5. [f.gaps EXCEPT ![m] = d] \in [0..MAX_GAPS - 1 -> Nat]
      BY Zenon, <3>1, <3>2, <3>3
    <3>6. r = [f EXCEPT !.gaps = [f.gaps EXCEPT ![m] = d], !.ngaps = f.ngaps + 1, !.last_ts = ts]
      BY Zenon, <3>4 DEF Flow
    <3>7. f.ngaps + 1 \in Nat /\ ts \in Nat
      BY <3>1
    <3> QED
      BY Zenon, <3>5, <3>6, <3>7 DEF Flow
  <2> QED
    BY Zenon, <2>1, <2>2
<1>2. e = [r EXCEPT !.beacon_alerted = @ \/ v]
  BY Zenon DEF rule_beacon
<1> HIDE DEF r, v, e
<1>3. e \in Flow /\ e.last_ts = ts
  BY Zenon, <1>1, <1>2 DEF Flow
<1>4. rule_suspicious_port(e, k) = [e EXCEPT !.susp_alerted = @ \/ Port(k) \in Suspicious]
  BY Zenon DEF rule_suspicious_port
<1>5. rule_suspicious_port(e, k) \in Flow /\ rule_suspicious_port(e, k).last_ts = ts
  BY Zenon, <1>3, <1>4 DEF Flow
<1> QED
  BY Zenon, <1>5 DEF e

\* A table with N places: an entry is made when there is room, and none is given up.
Used(D, tab) == {j \in D : tab[j] # None}
LEMMA TablesGrow ==
  ASSUME NEW D, IsFiniteSet(D), NEW N \in Nat, NEW tab, NEW x \in D, NEW new, NEW next,
         Cardinality(Used(D, tab)) <= N, next = [tab EXCEPT ![x] = new], DOMAIN tab = D,
         new = None => tab[x] = None,
         new # None /\ tab[x] = None => Cardinality(Used(D, tab)) < N
  PROVE  /\ Cardinality(Used(D, next)) <= N
         /\ Cardinality(Used(D, next)) >= Cardinality(Used(D, tab))
         /\ Cardinality(Used(D, next)) \in Nat /\ Cardinality(Used(D, tab)) \in Nat
<1> DEFINE U == Used(D, tab)
           V == Used(D, next)
<1>1. \A j \in D : next[j] = IF j = x THEN new ELSE tab[j]
  BY Zenon
<1>2. IsFiniteSet(U)
  <2>1. U \subseteq D
    BY Zenon DEF Used
  <2> HIDE DEF U
  <2> QED
    BY Zenon, <2>1, FS_Subset
<1>3. CASE new # None /\ tab[x] = None
  <2>1. V = U \cup {x} /\ x \notin U
    BY Zenon, <1>1, <1>3 DEF Used
  <2> HIDE DEF U, V
  <2>2. Cardinality(V) = Cardinality(U) + 1
    BY Zenon, <1>2, <2>1, FS_AddElement
  <2>3. Cardinality(U) \in Nat /\ Cardinality(U) < N
    BY Zenon, <1>2, <1>3, FS_CardinalityType DEF U
  <2>4. Cardinality(V) <= N /\ Cardinality(V) >= Cardinality(U) /\ Cardinality(V) \in Nat
    BY <2>2, <2>3
  <2> QED
    BY Zenon, <2>3, <2>4 DEF U, V
<1>4. CASE new = None \/ tab[x] # None
  <2>1. V = U
    BY Zenon, <1>1, <1>4 DEF Used
  <2>2. Cardinality(U) \in Nat
    BY Zenon, <1>2, FS_CardinalityType
  <2>3. Cardinality(U) >= Cardinality(U)
    BY <2>2
  <2> QED
    BY Zenon, <2>1, <2>2, <2>3
<1> QED
  BY Zenon, <1>3, <1>4

LEMMA FlowsKept ==
  ASSUME IdsInv, NEW k \in Keys, NEW ts \in 1..MaxTime, Handles(k, ts)
  PROVE  /\ flows' \in [Keys -> Flow \cup {None}]
         /\ \A j \in Keys : flows'[j] # None => flows'[j].last_ts <= MaxTime
         /\ Cardinality(Used(Keys, flows')) <= MAX_FLOWS
         /\ \A j \in Keys : flows'[j] = None /\ arr'[j] # <<>> => Cardinality(Used(Keys, flows')) >= MAX_FLOWS
         /\ FlowsJudged'
<1> USE TapAssumption, IdsAssumption
<1> DEFINE f == flow_get(k)
           g == rule_suspicious_port(rule_beacon(f, ts), k)
           n == Cardinality(Used(Keys, flows))
<1>1. /\ flows' = [flows EXCEPT ![k] = IF f = None THEN None ELSE g]
      /\ arr' = [arr EXCEPT ![k] = Append(arr[k], ts)]
      /\ ordered' = (ordered /\ ts >= lastTs)
  BY Zenon DEF Handles
<1>2. /\ flows \in [Keys -> Flow \cup {None}] /\ arr \in [Keys -> Seq(Nat)] /\ n <= MAX_FLOWS
      /\ \A j \in Keys : flows[j] # None => flows[j].last_ts <= MaxTime
      /\ \A j \in Keys : flows[j] = None /\ arr[j] # <<>> => n >= MAX_FLOWS
  BY Zenon DEF IdsInv, Typed, TypeOK, FullForGood, Used
<1>3. ts \in Nat /\ ts # 0 /\ ts <= MaxTime
  OBVIOUS
<1>4. arr'[k] = Append(arr[k], ts) /\ \A j \in Keys : j # k => arr'[j] = arr[j]
  BY Zenon, <1>1, <1>2
<1>5. NewFlow \in Flow /\ NewFlow.last_ts = 0
  BY Zenon DEF NewFlow, Flow
<1>6. \/ flows[k] # None /\ f = flows[k]
      \/ flows[k] = None /\ n < MAX_FLOWS /\ f = NewFlow
      \/ flows[k] = None /\ ~(n < MAX_FLOWS) /\ f = None
  BY Zenon DEF flow_get, Used
<1>7. f # None => f \in Flow /\ f.last_ts <= MaxTime
  <2>1. 0 <= MaxTime
    OBVIOUS
  <2> QED
    BY Zenon, <1>2, <1>5, <1>6, <2>1
<1> HIDE DEF f, n
<1>8. f # None => g \in Flow /\ g.last_ts = ts
  BY Zenon, <1>7, FlowRulesTyped
<1>9. None \notin Flow
  BY Zenon, NoEntryAssumption
<1> HIDE DEF g
<1> DEFINE new == IF f = None THEN None ELSE g
<1>10. flows'[k] = new /\ (\A j \in Keys : j # k => flows'[j] = flows[j]) /\ flows' \in [Keys -> Flow \cup {None}]
  BY Zenon, <1>1, <1>2, <1>8
<1>11. n \in Nat
  BY Zenon, PortsFinite, FS_Subset, FS_CardinalityType DEF n, Used
<1>12. /\ new = None => flows[k] = None /\ ~(n < MAX_FLOWS)
       /\ new # None /\ flows[k] = None => n < MAX_FLOWS
  BY Zenon, <1>6, <1>5, <1>8, <1>9
<1>13. Cardinality(Used(Keys, flows')) <= MAX_FLOWS /\ Cardinality(Used(Keys, flows')) >= n
       /\ Cardinality(Used(Keys, flows')) \in Nat
  <2>1. DOMAIN flows = Keys /\ flows' = [flows EXCEPT ![k] = new]
    BY Zenon, <1>1, <1>2
  <2> HIDE DEF new
  <2> QED
    BY Zenon, <2>1, <1>2, <1>12, PortsFinite, TablesGrow DEF n
<1>14. ASSUME NEW j \in Keys, flows'[j] # None PROVE flows'[j].last_ts <= MaxTime
  BY Zenon, <1>2, <1>3, <1>8, <1>10, <1>14
<1>15. ASSUME NEW j \in Keys, flows'[j] = None, arr'[j] # <<>> PROVE Cardinality(Used(Keys, flows')) >= MAX_FLOWS
  <2>1. ~(n < MAX_FLOWS)
    <3>1. CASE j = k
      BY Zenon, <3>1, <1>10, <1>12, <1>15
    <3>2. CASE j # k
      <4>1. n >= MAX_FLOWS
        BY Zenon, <3>2, <1>2, <1>4, <1>10, <1>15
      <4> QED
        BY <4>1, <1>11
    <3> QED
      BY Zenon, <3>1, <3>2
  <2> QED
    BY <2>1, <1>11, <1>13
<1>16. ASSUME ordered', NEW j \in Keys, flows'[j] # None PROVE Judged(flows'[j], arr'[j])
  <2>1. ordered /\ ts >= lastTs
    BY Zenon, <1>1, <1>16
  <2>2. CASE j # k
    BY Zenon, <2>1, <2>2, <1>4, <1>10, <1>16 DEF IdsInv, FlowsJudged
  <2>3. CASE j = k
    <3>1. f # None /\ flows'[j] = g
      BY Zenon, <2>3, <1>10, <1>16
    <3>2. arr[k] \in Seq(Nat) /\ ts \in Nat \ {0}
      BY Zenon, <1>2, <1>3
    <3>3. CASE flows[k] # None /\ f = flows[k]
      <4>1. Judged(f, arr[k])
        BY Zenon, <2>1, <3>3 DEF IdsInv, FlowsJudged
      <4>2. Len(arr[k]) \in DOMAIN arr[k]
        BY <3>2, <4>1 DEF Judged, Kept
      <4>3. arr[k][Len(arr[k])] <= lastTs /\ lastTs \in Nat /\ arr[k][Len(arr[k])] \in Nat
        BY <2>1, <3>2, <4>2 DEF IdsInv, InTime, Typed
      <4>4. ts >= arr[k][Len(arr[k])]
        BY <1>3, <2>1, <4>3
      <4> QED
        BY Zenon, <2>3, <3>1, <3>2, <4>1, <4>4, <1>4, FlowRulesJudge DEF g
    <3>4. CASE flows[k] = None /\ n < MAX_FLOWS /\ f = NewFlow
      <4>1. arr[k] = <<>>
        <5>1. ~(n >= MAX_FLOWS)
          BY <3>4, <1>11
        <5> QED
          BY Zenon, <3>4, <5>1, <1>2
      <4> QED
        BY Zenon, <2>3, <3>1, <3>2, <3>4, <4>1, <1>4, FlowRulesJudge DEF g
    <3> QED
      BY Zenon, <3>1, <3>3, <3>4, <1>6
  <2> QED
    BY Zenon, <2>2, <2>3
<1>17. FlowsJudged'
  BY Zenon, <1>16 DEF FlowsJudged
<1> QED
  BY Zenon, <1>10, <1>13, <1>14, <1>15, <1>17

-----------------------------------------------------------------------------
(* The source table                                                        *)

LEMMA StillWindowed ==
  ASSUME NEW e, NEW g, NEW A, NEW p \in Ports, NEW ts \in Nat, NEW full,
         Before(e, A, ts, full), After(e, g, A, p, ts, full),
         NEW missed, missed <=> full \/ g.seen[p] # ts
  PROVE  Windowed(g, A \cup {<<p, ts>>}, ts, missed)
<1> DEFINE B == A \cup {<<p, ts>>}
<1>1. \A q \in Ports, t \in Nat : <<q, t>> \in B => t <= ts
  <2> SUFFICES ASSUME NEW q \in Ports, NEW t \in Nat, <<q, t>> \in B PROVE t <= ts
    BY Zenon
  <2>1. CASE <<q, t>> \in A
    BY Zenon, <2>1 DEF Before
  <2>2. CASE <<q, t>> = <<p, ts>>
    BY <2>2
  <2> QED
    BY Zenon, <2>1, <2>2
<1>2. \E q \in Ports : <<q, ts>> \in B
  BY Zenon
<1> QED
  BY Zenon, <1>1, <1>2 DEF Windowed, After

\* What the next record of source s finds, when it comes in time order.
LEMMA EntryBefore ==
  ASSUME IdsInv, ordered, NEW s \in Srcs, NEW ts \in Nat, ts >= lastTs, ScanEntry(s) # None
  PROVE  Before(ScanEntry(s), Marks(arr, s), ts, s \in turned)
<1> USE IdsAssumption
<1> DEFINE e == ScanEntry(s)
           A == Marks(arr, s)
<1>1. scans \in [Srcs -> Scan \cup {None}] /\ lastTs \in Nat /\ arr \in [Keys -> Seq(Nat)]
  BY Zenon DEF IdsInv, Typed, TypeOK
<1>2. ASSUME NEW q \in Ports, NEW t \in Nat, <<q, t>> \in A PROVE t # 0 /\ t <= lastTs
  <2>1. PICK k \in Keys : \E i \in DOMAIN arr[k] : <<q, t>> = <<Port(k), arr[k][i]>>
    BY Zenon, <1>2 DEF Marks
  <2>2. PICK i \in DOMAIN arr[k] : <<q, t>> = <<Port(k), arr[k][i]>>
    BY Zenon, <2>1
  <2>3. t = arr[k][i]
    BY Zenon, <2>2
  <2> QED
    BY Zenon, <2>3 DEF IdsInv, InTime
<1>3. \A q \in Ports, t \in Nat : <<q, t>> \in A => t # 0 /\ t <= ts
  BY <1>1, <1>2
<1>4. CASE scans[s] # None
  <2>1. e = scans[s] /\ e \in Scan
    BY Zenon, <1>1, <1>4 DEF ScanEntry
  <2>2. PICK m : m = LastOf(s)
    BY Zenon
  <2>3. Windowed(e, A, m, s \in turned)
    BY Zenon, <1>4, <2>1, <2>2 DEF IdsInv, ScansWindowed
  <2>4. m \in Nat /\ e.last_alert_ts <= m /\ m <= lastTs /\ e.last_alert_ts \in Nat
    <3>1. m \in Nat /\ (\E q \in Ports : <<q, m>> \in A) /\ e.last_alert_ts <= m
      BY Zenon, <2>3 DEF Windowed
    <3>2. m <= lastTs
      BY Zenon, <3>1, <1>2
    <3>3. e.last_alert_ts \in Nat
      BY Zenon, <2>1 DEF Scan
    <3> QED
      BY Zenon, <3>1, <3>2, <3>3
  <2>5. \A q \in Ports : e.seen[q] # 0 => <<q, e.seen[q]>> \in A
    BY Zenon, <2>3 DEF Windowed, OnlyTouched
  <2>6. ASSUME ~(s \in turned) PROVE AllTouched(e, A, ts)
    <3>1. AllTouched(e, A, m)
      BY Zenon, <2>3, <2>6 DEF Windowed
    <3> HIDE DEF e, A
    <3> QED
      BY <3>1, <2>4, <1>1 DEF AllTouched
  <2>7. e.last_alert_ts <= ts
    BY <2>4, <1>1
  <2> QED
    BY Zenon, <2>1, <2>5, <2>6, <2>7, <1>3 DEF Before
<1>5. CASE scans[s] = None
  <2> DEFINE n == Cardinality({x \in Srcs : scans[x] # None})
             blank == [q \in Ports |-> 0]
  <2>1. e = [seen |-> blank, last_alert_ts |-> 0] /\ n < MAX_SCAN_SRC
    BY Zenon, <1>5 DEF ScanEntry
  <2>2. n \in Nat
    BY Zenon, PortsFinite, FS_Subset, FS_CardinalityType
  <2>3. A = {}
    <3>1. A # {} => n >= MAX_SCAN_SRC
      BY Zenon, <1>5 DEF IdsInv, FullForGood
    <3> HIDE DEF n
    <3> QED
      BY <3>1, <2>1, <2>2
  <2>4. e \in Scan /\ e.last_alert_ts = 0 /\ e.seen = blank
    <3> HIDE DEF e
    <3> QED
      BY Zenon, <2>1 DEF Scan
  <2>5. \A q \in Ports : e.seen[q] = 0
    BY Zenon, <2>4
  <2>6. e.last_alert_ts <= ts
    BY <2>4
  <2>7. AllTouched(e, A, ts)
    BY Zenon, <2>3 DEF AllTouched
  <2> QED
    BY Zenon, <2>4, <2>5, <2>6, <2>7, <1>3 DEF Before
<1> QED
  BY Zenon, <1>4, <1>5

LEMMA ScansKept ==
  ASSUME IdsInv, NEW k \in Keys, NEW ts \in 1..MaxTime, Handles(k, ts)
  PROVE  /\ scans' \in [Srcs -> Scan \cup {None}]
         /\ \A s \in Srcs : scans'[s] # None => Count(scans'[s].seen) <= MAX_SCAN_PORTS
         /\ Cardinality(Used(Srcs, scans')) <= MAX_SCAN_SRC
         /\ \A s \in Srcs : scans'[s] = None /\ Marks(arr', s) # {} =>
              Cardinality(Used(Srcs, scans')) >= MAX_SCAN_SRC
<1> USE TapAssumption, IdsAssumption
<1> DEFINE src == Src(k)
           e == ScanEntry(src)
           g == rule_portscan(e, Port(k), ts)
           n == Cardinality(Used(Srcs, scans))
           new == IF e = None THEN None ELSE g
<1>1. scans' = [scans EXCEPT ![src] = new] /\ arr' = [arr EXCEPT ![k] = Append(arr[k], ts)]
  BY Zenon DEF Handles
<1>2. /\ scans \in [Srcs -> Scan \cup {None}] /\ arr \in [Keys -> Seq(Nat)] /\ n <= MAX_SCAN_SRC
      /\ \A s \in Srcs : scans[s] # None => Count(scans[s].seen) <= MAX_SCAN_PORTS
      /\ \A s \in Srcs : scans[s] = None /\ Marks(arr, s) # {} => n >= MAX_SCAN_SRC
  BY Zenon DEF IdsInv, Typed, TypeOK, FullForGood, Used, Count
<1>3. src \in Srcs /\ Port(k) \in Ports /\ ts \in Nat
  <2>1. src \in Srcs /\ Port(k) \in Ports
    BY Zenon DEF Srcs, Ports
  <2> QED
    BY <2>1
<1>4. \A s \in Srcs : s # src => Marks(arr', s) = Marks(arr, s)
  <2>1. Appended(arr, arr', k, ts)
    BY Zenon, <1>1, <1>2, <1>3, LongerHistory
  <2> QED
    BY Zenon, <2>1 DEF Appended
<1>5. \/ scans[src] # None /\ e = scans[src]
      \/ scans[src] = None /\ n < MAX_SCAN_SRC /\ e = [seen |-> [q \in Ports |-> 0], last_alert_ts |-> 0]
      \/ scans[src] = None /\ ~(n < MAX_SCAN_SRC) /\ e = None
  BY Zenon DEF ScanEntry, Used
<1>6. n \in Nat
  BY Zenon, PortsFinite, FS_Subset, FS_CardinalityType DEF Used
<1>7. (scans[src] = None => n < MAX_SCAN_SRC) => e \in Scan /\ Count(e.seen) <= MAX_SCAN_PORTS
  <2>1. ASSUME e = [seen |-> [q \in Ports |-> 0], last_alert_ts |-> 0]
        PROVE  e \in Scan /\ Count(e.seen) <= MAX_SCAN_PORTS
    <3> HIDE DEF e
    <3>1. e \in Scan /\ e.seen = [q \in Ports |-> 0]
      BY Zenon, <2>1 DEF Scan
    <3>2. {q \in Ports : e.seen[q] # 0} = {}
      BY Zenon, <3>1
    <3>3. Count(e.seen) = 0
      BY Zenon, <3>2, FS_EmptySet DEF Count
    <3> QED
      BY <3>1, <3>3
  <2> QED
    BY Zenon, <2>1, <1>2, <1>3, <1>5
<1> HIDE DEF e, n
<1>8. e # None => g \in Scan /\ Count(g.seen) <= MAX_SCAN_PORTS
  BY Zenon, <1>3, <1>5, <1>7, PortscanTyped
<1>9. None \notin Scan
  BY Zenon, NoEntryAssumption
<1> HIDE DEF g
<1>10. scans'[src] = new /\ (\A s \in Srcs : s # src => scans'[s] = scans[s])
       /\ scans' \in [Srcs -> Scan \cup {None}]
  BY Zenon, <1>1, <1>2, <1>3, <1>8
<1>11. /\ new = None => scans[src] = None /\ ~(n < MAX_SCAN_SRC)
       /\ new # None /\ scans[src] = None => n < MAX_SCAN_SRC
  BY Zenon, <1>5, <1>7, <1>8, <1>9
<1>12. Cardinality(Used(Srcs, scans')) <= MAX_SCAN_SRC /\ Cardinality(Used(Srcs, scans')) >= n
       /\ Cardinality(Used(Srcs, scans')) \in Nat
  <2>1. DOMAIN scans = Srcs
    BY Zenon, <1>2
  <2> HIDE DEF new, src
  <2> QED
    BY Zenon, <2>1, <1>1, <1>2, <1>3, <1>11, PortsFinite, TablesGrow DEF n
<1>13. ASSUME NEW s \in Srcs, scans'[s] # None PROVE Count(scans'[s].seen) <= MAX_SCAN_PORTS
  BY Zenon, <1>2, <1>8, <1>10, <1>13
<1>14. ASSUME NEW s \in Srcs, scans'[s] = None, Marks(arr', s) # {}
       PROVE  Cardinality(Used(Srcs, scans')) >= MAX_SCAN_SRC
  <2>1. ~(n < MAX_SCAN_SRC)
    <3>1. CASE s = src
      BY Zenon, <3>1, <1>10, <1>11, <1>14
    <3>2. CASE s # src
      <4>1. n >= MAX_SCAN_SRC
        BY Zenon, <3>2, <1>2, <1>4, <1>10, <1>14
      <4> QED
        BY <4>1, <1>6
    <3> QED
      BY Zenon, <3>1, <3>2
  <2> QED
    BY <2>1, <1>6, <1>12
<1> QED
  BY Zenon, <1>10, <1>12, <1>13, <1>14

LEMMA ScansJudged ==
  ASSUME IdsInv, NEW k \in Keys, NEW ts \in 1..MaxTime, Handles(k, ts), ordered',
         NEW s \in Srcs, scans'[s] # None
  PROVE  /\ Windowed(scans'[s], Marks(arr', s), LastOf(s)', s \in turned')
         /\ Alert(s) => Cardinality(Touched(s)') > SCAN_PORT_THRESH /\ Apart(s)
<1> USE TapAssumption, IdsAssumption
<1>1. /\ scans' = [scans EXCEPT ![Src(k)] = IF ScanEntry(Src(k)) = None THEN None
                                            ELSE rule_portscan(ScanEntry(Src(k)), Port(k), ts)]
      /\ arr' = [arr EXCEPT ![k] = Append(arr[k], ts)] /\ ordered /\ ts >= lastTs
      /\ turned' = turned \cup {x \in {Src(k)} : ScanEntry(Src(k)) # None /\ scans'[x].seen[Port(k)] # ts}
  BY Zenon DEF Handles
<1>2. scans \in [Srcs -> Scan \cup {None}] /\ arr \in [Keys -> Seq(Nat)] /\ ts \in Nat \ {0}
  <2>1. ts \in Nat \ {0}
    OBVIOUS
  <2> QED
    BY Zenon, <2>1 DEF IdsInv, Typed, TypeOK
<1>3. Src(k) \in Srcs /\ Port(k) \in Ports
  BY Zenon DEF Srcs, Ports
<1>4. Appended(arr, arr', k, ts)
  BY Zenon, <1>1, <1>2, <1>3, LongerHistory
<1>5. ASSUME NEW m, IsLast(arr', s, m)
      PROVE  LastOf(s)' = m /\ Touched(s)' = InWindow(Marks(arr', s), m)
  <2>1. arr' \in [Keys -> Seq(Nat)] /\ m \in Nat
    BY Zenon, <1>4, <1>5 DEF Appended, IsLast
  <2>2. Max(UNION {{arr'[j][i] : i \in DOMAIN arr'[j]} : j \in {x \in Keys : Src(x) = s}}) = m
    BY Zenon, <1>5, <2>1, LastIs
  <2>3. LastOf(s)' = m
    BY Zenon, <2>2 DEF LastOf, Arrivals
  <2>4. {Port(j) : j \in {x \in Keys : Src(x) = s /\ \E i \in DOMAIN arr'[x] : m - arr'[x][i] < SCAN_WINDOW}}
          = InWindow(Marks(arr', s), m)
    BY Zenon, <2>1, TouchedIs
  <2>5. Touched(s)' = InWindow(Marks(arr', s), m)
    BY Zenon, <2>3, <2>4 DEF Touched
  <2> QED
    BY Zenon, <2>3, <2>5
<1>6. CASE s # Src(k)
  <2>1. scans'[s] = scans[s] /\ (s \in turned' <=> s \in turned)
    BY Zenon, <1>1, <1>2, <1>6
  <2>2. Marks(arr', s) = Marks(arr, s)
    BY Zenon, <1>4, <1>6 DEF Appended
  <2>3. PICK m : m = LastOf(s)
    BY Zenon
  <2>4. Windowed(scans[s], Marks(arr, s), m, s \in turned)
    BY Zenon, <1>1, <2>1, <2>3 DEF IdsInv, ScansWindowed
  <2>5. IsLast(arr', s, m)
    BY Zenon, <2>2, <2>4 DEF Windowed, IsLast
  <2>6. LastOf(s)' = m
    BY Zenon, <1>5, <2>5
  <2>7. Windowed(scans'[s], Marks(arr', s), LastOf(s)', s \in turned')
    BY Zenon, <2>1, <2>2, <2>4, <2>6 DEF Windowed
  <2>8. ~Alert(s)
    BY Zenon, <2>1 DEF Alert
  <2> QED
    BY Zenon, <2>7, <2>8
<1>7. CASE s = Src(k)
  <2> DEFINE e == ScanEntry(s)
             A == Marks(arr, s)
             p == Port(k)
             full == s \in turned
  <2>1. PICK g : g = rule_portscan(e, p, ts)
    BY Zenon
  <2>2. e # None /\ scans'[s] = g
    BY Zenon, <1>1, <1>2, <1>7, <2>1
  <2>3. s \in turned' <=> full \/ g.seen[p] # ts
    BY Zenon, <1>1, <1>7, <2>2
  <2>4. Marks(arr', s) = A \cup {<<p, ts>>}
    BY Zenon, <1>4, <1>7 DEF Appended
  <2>5. Before(e, A, ts, full)
    BY Zenon, <1>1, <1>2, <2>2, EntryBefore
  <2>6. scans[s] # None => e = scans[s]
    BY Zenon DEF ScanEntry
  <2>7. scans[s] = None => e = [seen |-> [q \in Ports |-> 0], last_alert_ts |-> 0]
    BY Zenon, <2>2 DEF ScanEntry
  <2>8. scans[s] = None => e.last_alert_ts = 0
    <3> HIDE DEF e
    <3> QED
      BY <2>7
  <2> HIDE DEF e, A, p, full
  <2>9. After(e, g, A, p, ts, full)
    BY Zenon, <1>2, <1>3, <2>1, <2>5, PortscanRule DEF p
  <2>10. Windowed(g, A \cup {<<p, ts>>}, ts, s \in turned')
    <3>1. p \in Ports /\ ts \in Nat
      BY Zenon, <1>2, <1>3 DEF p
    <3> QED
      BY Zenon, <3>1, <2>3, <2>5, <2>9, StillWindowed
  <2>11. IsLast(arr', s, ts)
    BY Zenon, <2>4, <2>10 DEF Windowed, IsLast
  <2>12. LastOf(s)' = ts /\ Touched(s)' = InWindow(A \cup {<<p, ts>>}, ts)
    BY Zenon, <1>5, <2>4, <2>11
  <2>13. Windowed(scans'[s], Marks(arr', s), LastOf(s)', s \in turned')
    BY Zenon, <2>2, <2>3, <2>4, <2>10, <2>12 DEF Windowed
  <2>14. ASSUME Alert(s) PROVE Cardinality(Touched(s)') > SCAN_PORT_THRESH /\ Apart(s)
    <3>1. g.last_alert_ts # 0 /\ (scans[s] = None \/ g.last_alert_ts # scans[s].last_alert_ts)
      BY Zenon, <2>2, <2>14 DEF Alert
    <3>2. g.last_alert_ts # e.last_alert_ts
      BY Zenon, <3>1, <2>6, <2>8
    <3>3. /\ g.last_alert_ts = ts /\ Cardinality(InWindow(A \cup {<<p, ts>>}, ts)) > SCAN_PORT_THRESH
          /\ e.last_alert_ts # 0 => ts > e.last_alert_ts + SCAN_COOLDOWN
      BY Zenon, <3>2, <2>9 DEF After
    <3>4. Apart(s)
      BY Zenon, <3>3, <2>2, <2>6 DEF Apart
    <3> QED
      BY Zenon, <3>3, <3>4, <2>12
  <2> QED
    BY Zenon, <2>13, <2>14
<1> QED
  BY Zenon, <1>6, <1>7

-----------------------------------------------------------------------------
(* Every step keeps the invariant                                          *)

LEMMA InTimeKept ==
  ASSUME IdsInv, NEW k \in Keys, NEW ts \in 1..MaxTime, Handles(k, ts)
  PROVE  /\ InTime' /\ arr' \in [Keys -> Seq(Nat)] /\ lastTs' \in Nat /\ ordered' \in BOOLEAN
<1> USE TapAssumption
<1>1. arr' = [arr EXCEPT ![k] = Append(arr[k], ts)] /\ lastTs' = ts /\ ordered' = (ordered /\ ts >= lastTs)
  BY Zenon DEF Handles
<1>2. arr \in [Keys -> Seq(Nat)] /\ lastTs \in Nat /\ ordered \in BOOLEAN
  BY Zenon DEF IdsInv, Typed
<1>3. ts \in Nat /\ ts # 0
  OBVIOUS
<1>4. Appended(arr, arr', k, ts)
  BY Zenon, <1>1, <1>2, <1>3, LongerHistory
<1>5. ASSUME ordered', NEW j \in Keys, NEW i \in DOMAIN arr'[j]
      PROVE  arr'[j][i] # 0 /\ arr'[j][i] <= ts
  <2>1. ordered /\ ts >= lastTs
    BY Zenon, <1>1, <1>5
  <2>2. ASSUME NEW x \in DOMAIN arr[j] PROVE arr[j][x] # 0 /\ arr[j][x] <= ts
    <3>1. arr[j][x] # 0 /\ arr[j][x] <= lastTs
      BY Zenon, <2>1 DEF IdsInv, InTime
    <3>2. arr[j][x] \in Nat
      BY <1>2
    <3> QED
      BY <3>1, <3>2, <1>2, <1>3, <2>1
  <2>3. CASE j # k
    BY Zenon, <2>2, <2>3, <1>4, <1>5 DEF Appended
  <2>4. CASE j = k
    <3>1. PICK a \in Seq(Nat) : a = arr[k]
      BY Zenon, <1>2
    <3>2. arr'[j] = Append(a, ts)
      BY Zenon, <2>4, <3>1, <1>4 DEF Appended
    <3>3. i \in 1..Len(a) + 1
      BY <3>1, <3>2, <1>3, <1>5
    <3>4. CASE i = Len(a) + 1
      BY <3>2, <3>4, <1>3
    <3>5. CASE i # Len(a) + 1
      <4>1. i \in DOMAIN a /\ arr'[j][i] = a[i]
        BY <3>2, <3>3, <3>5, <1>3
      <4> QED
        BY Zenon, <4>1, <3>1, <2>2, <2>4
    <3> QED
      BY Zenon, <3>4, <3>5
  <2> QED
    BY Zenon, <2>3, <2>4
<1>6. InTime'
  BY Zenon, <1>1, <1>5 DEF InTime
<1>7. ordered' \in BOOLEAN
  BY Zenon, <1>1
<1> QED
  BY Zenon, <1>1, <1>3, <1>4, <1>6, <1>7 DEF Appended

LEMMA HandledKept ==
  ASSUME IdsInv, handle_event
  PROVE  /\ IdsInv'
         /\ ordered' => \A s \in Srcs : Alert(s) => Cardinality(Touched(s)') > SCAN_PORT_THRESH /\ Apart(s)
<1>1. TapTypeOK' /\ Stamped' /\ \E k \in Keys : \E ts \in 1..MaxTime : Handles(k, ts)
  BY Zenon, Handled
<1>2. PICK k \in Keys, ts \in 1..MaxTime : Handles(k, ts)
  BY Zenon, <1>1
<1>3. /\ flows' \in [Keys -> Flow \cup {None}]
      /\ \A j \in Keys : flows'[j] # None => flows'[j].last_ts <= MaxTime
      /\ Cardinality(Used(Keys, flows')) <= MAX_FLOWS
      /\ \A j \in Keys : flows'[j] = None /\ arr'[j] # <<>> => Cardinality(Used(Keys, flows')) >= MAX_FLOWS
      /\ FlowsJudged'
  BY Zenon, <1>2, FlowsKept
<1>4. /\ scans' \in [Srcs -> Scan \cup {None}]
      /\ \A s \in Srcs : scans'[s] # None => Count(scans'[s].seen) <= MAX_SCAN_PORTS
      /\ Cardinality(Used(Srcs, scans')) <= MAX_SCAN_SRC
      /\ \A s \in Srcs : scans'[s] = None /\ Marks(arr', s) # {} =>
           Cardinality(Used(Srcs, scans')) >= MAX_SCAN_SRC
  BY Zenon, <1>2, ScansKept
<1>5. InTime' /\ arr' \in [Keys -> Seq(Nat)] /\ lastTs' \in Nat /\ ordered' \in BOOLEAN
  BY Zenon, <1>2, InTimeKept
<1>6. ASSUME ordered', NEW s \in Srcs, scans'[s] # None
      PROVE  /\ Windowed(scans'[s], Marks(arr', s), LastOf(s)', s \in turned')
             /\ Alert(s) => Cardinality(Touched(s)') > SCAN_PORT_THRESH /\ Apart(s)
  BY Zenon, <1>2, <1>6, ScansJudged
<1>7. TypeOK'
  BY Zenon, <1>1, <1>3, <1>4 DEF TypeOK, Used, Count
<1>8. Typed'
  BY Zenon, <1>1, <1>3, <1>5, <1>7 DEF Typed
<1>9. FullForGood'
  BY Zenon, <1>3, <1>4 DEF FullForGood, Used, Marks
<1>10. ScansWindowed'
  BY Zenon, <1>6 DEF ScansWindowed, Marks
<1>11. IdsInv'
  BY Zenon, <1>3, <1>5, <1>8, <1>9, <1>10 DEF IdsInv
<1>12. ordered' => \A s \in Srcs : Alert(s) => Cardinality(Touched(s)') > SCAN_PORT_THRESH /\ Apart(s)
  <2> SUFFICES ASSUME ordered', NEW s \in Srcs, Alert(s)
               PROVE  Cardinality(Touched(s)') > SCAN_PORT_THRESH /\ Apart(s)
    BY Zenon
  <2>1. scans'[s] # None
    BY Zenon DEF Alert
  <2> QED
    BY Zenon, <2>1, <1>6
<1> QED
  BY Zenon, <1>11, <1>12

\* A step that handles no record leaves the tables and their history alone.
LEMMA Untouched ==
  ASSUME IdsInv, TapTypeOK', Stamped', UNCHANGED userVars
  PROVE  IdsInv' /\ \A s \in Srcs : ~Alert(s)
<1>1. UNCHANGED <<flows, scans, arr, lastTs, ordered, turned>>
  BY Zenon DEF userVars
<1>2. Typed'
  BY Zenon, <1>1 DEF IdsInv, Typed, TypeOK
<1>3. InTime' /\ FullForGood' /\ FlowsJudged'
  BY Zenon, <1>1 DEF IdsInv, InTime, FullForGood, Marks, FlowsJudged
<1>4. ScansWindowed'
  <2>1. \A s \in Srcs : LastOf(s)' = LastOf(s)
    <3>1. arr' = arr
      BY Zenon, <1>1
    <3> QED
      BY <3>1 DEF LastOf, Arrivals
  <2>2. ASSUME ordered', NEW s \in Srcs, scans'[s] # None
        PROVE  Windowed(scans'[s], Marks(arr', s), LastOf(s)', s \in turned')
    <3>1. Windowed(scans[s], Marks(arr, s), LastOf(s), s \in turned)
      BY Zenon, <1>1, <2>2 DEF IdsInv, ScansWindowed
    <3>2. scans'[s] = scans[s] /\ LastOf(s)' = LastOf(s) /\ arr' = arr /\ turned' = turned
      BY Zenon, <1>1, <2>1
    <3> QED
      BY Zenon, <3>1, <3>2
  <2> QED
    BY Zenon, <2>2 DEF ScansWindowed
<1>5. \A s \in Srcs : ~Alert(s)
  BY Zenon, <1>1 DEF Alert
<1> QED
  BY Zenon, <1>2, <1>3, <1>4, <1>5 DEF IdsInv

LEMMA IdsStep ==
  ASSUME IdsInv, [Next]_vars
  PROVE  /\ IdsInv'
         /\ ordered' => \A s \in Srcs : Alert(s) => Cardinality(Touched(s)') > SCAN_PORT_THRESH /\ Apart(s)
<1>1. TapTypeOK /\ Stamped
  BY Zenon DEF IdsInv, Typed, TypeOK
<1>2. CASE handle_event
  BY Zenon, <1>2, HandledKept
<1>3. CASE TapStep /\ UNCHANGED userVars
  <2>1. TapTypeOK' /\ Stamped'
    BY Zenon, <1>1, <1>3, TapTyped
  <2> QED
    BY Zenon, <2>1, <1>3, Untouched
<1>4. CASE UNCHANGED vars
  <2>1. UNCHANGED tapVars /\ UNCHANGED userVars
    BY Zenon, <1>4 DEF vars
  <2>2. TapTypeOK' /\ Stamped'
    BY Zenon, <1>1, <2>1 DEF TapTypeOK, Stamped, tapVars
  <2> QED
    BY Zenon, <2>1, <2>2, Untouched
<1> QED
  BY Zenon, <1>2, <1>3, <1>4 DEF Next

LEMMA IdsStart ==
  ASSUME Init
  PROVE  IdsInv
<1> USE TapAssumption, IdsAssumption
<1>1. TapTypeOK /\ Stamped
  <2>1. ring = <<>> /\ ring \in Seq(Record) /\ Len(ring) = 0 /\ DOMAIN ring = {}
    BY DEF Init
  <2>2. now \in 1..MaxTime /\ pkts \in 0..MaxPkts /\ taken \in Nat /\ 0 <= RingSize
    BY DEF Init
  <2>3. pc \in Calls /\ lo \in BOOLEAN /\ quiet \in BOOLEAN /\ foreign \in BOOLEAN
    BY Zenon DEF Init, Calls, Bound
  <2> QED
    BY Zenon, <2>1, <2>2, <2>3 DEF TapTypeOK, Stamped
<1>2. /\ flows = [k \in Keys |-> None] /\ scans = [s \in Srcs |-> None] /\ arr = [k \in Keys |-> <<>>]
      /\ lastTs = 0 /\ ordered = TRUE
  BY Zenon DEF Init
<1>3. Used(Keys, flows) = {} /\ Used(Srcs, scans) = {}
  BY Zenon, <1>2 DEF Used
<1>4. Cardinality(Used(Keys, flows)) <= MAX_FLOWS /\ Cardinality(Used(Srcs, scans)) <= MAX_SCAN_SRC
  <2>1. Cardinality({}) = 0
    BY Zenon, FS_EmptySet
  <2> QED
    BY <1>3, <2>1
<1>5. (\A k \in Keys : flows[k] = None) /\ \A s \in Srcs : scans[s] = None
  BY Zenon, <1>2
<1>6. flows \in [Keys -> Flow \cup {None}] /\ scans \in [Srcs -> Scan \cup {None}]
  BY Zenon, <1>2
<1>7. arr \in [Keys -> Seq(Nat)] /\ \A k \in Keys : arr[k] = <<>> /\ DOMAIN arr[k] = {}
  BY <1>2
<1>8. TypeOK
  BY Zenon, <1>1, <1>4, <1>5, <1>6 DEF TypeOK, Used
<1>9. lastTs \in Nat /\ ordered \in BOOLEAN
  BY Zenon, <1>2
<1>10. Typed
  BY Zenon, <1>1, <1>5, <1>7, <1>8, <1>9 DEF Typed
<1>11. \A s \in Srcs : Marks(arr, s) = {}
  BY Zenon, <1>7 DEF Marks
<1>12. InTime /\ FullForGood /\ FlowsJudged /\ ScansWindowed
  BY Zenon, <1>5, <1>7, <1>11 DEF InTime, FullForGood, FlowsJudged, ScansWindowed
<1> QED
  BY Zenon, <1>10, <1>12 DEF IdsInv

LEMMA IdsAlways == Spec => []IdsInv
<1>1. Init => IdsInv
  BY Zenon, IdsStart
<1>2. IdsInv /\ [Next]_vars => IdsInv'
  BY Zenon, IdsStep
<1> QED
  BY <1>1, <1>2, PTL DEF Spec

-----------------------------------------------------------------------------
(* The theorems                                                            *)

\* The flow table, the source table and the seen[] list of every source stay within
\* their arrays, and the records in the ring keep their shape, in whatever order the
\* records of several CPUs come.
THEOREM TablesFit == Spec => []TypeOK
<1>1. IdsInv => TypeOK
  BY Zenon DEF IdsInv, Typed
<1> QED
  BY <1>1, IdsAlways, PTL

\* rule_beacon() judges the circular buffer of gaps: for every size of the buffer and
\* every history of a flow, the flow is flagged exactly when the gaps before some packet
\* of it were regular.  In particular the order the buffer keeps them in does not matter.
THEOREM BeaconsExact == Spec => []BeaconExact
<1>1. IdsInv => BeaconExact
  BY Zenon DEF IdsInv, FlowsJudged, Judged, BeaconExact
<1> QED
  BY <1>1, IdsAlways, PTL

\* rule_portscan() misses no scan: a source that has touched too many ports within the
\* window has been reported within the cooldown, whatever packets it sent between.
THEOREM ScansReported == Spec => []ScanReported
<1>1. ASSUME IdsInv PROVE ScanReported
  <2> SUFFICES ASSUME ordered, NEW s \in Srcs, s \notin turned, scans[s] # None,
                      Cardinality(Touched(s)) > SCAN_PORT_THRESH
               PROVE  scans[s].last_alert_ts # 0 /\ LastOf(s) <= scans[s].last_alert_ts + SCAN_COOLDOWN
    BY Zenon DEF ScanReported
  <2>1. PICK m : m = LastOf(s)
    BY Zenon
  <2>2. Windowed(scans[s], Marks(arr, s), m, s \in turned)
    BY Zenon, <1>1, <2>1 DEF IdsInv, ScansWindowed
  <2>3. m \in Nat /\ arr \in [Keys -> Seq(Nat)]
    BY Zenon, <1>1, <2>2 DEF Windowed, IdsInv, Typed
  <2>4. {Port(j) : j \in {x \in Keys : Src(x) = s /\ \E i \in DOMAIN arr[x] : m - arr[x][i] < SCAN_WINDOW}}
          = InWindow(Marks(arr, s), m)
    BY Zenon, <2>3, TouchedIs
  <2>5. Touched(s) = InWindow(Marks(arr, s), m)
    BY Zenon, <2>1, <2>4 DEF Touched
  <2>6. Cardinality(InWindow(Marks(arr, s), m)) > SCAN_PORT_THRESH
    BY Zenon, <2>5
  <2> QED
    BY Zenon, <2>1, <2>2, <2>6 DEF Windowed
<1> QED
  BY <1>1, IdsAlways, PTL

\* rule_portscan() reports a source only for ports that it has really touched within
\* the window that ends at the packet the report is made for.
THEOREM ScansReal == Spec => ScanIsReal
<1>1. IdsInv /\ [Next]_vars =>
        [ordered' => \A s \in Srcs : Alert(s) => Cardinality(Touched(s)') > SCAN_PORT_THRESH]_vars
  BY Zenon, IdsStep
<1> QED
  BY <1>1, IdsAlways, PTL DEF Spec, ScanIsReal

\* The unsigned difference that rule_portscan() compares with SCAN_COOLDOWN keeps the
\* reports of one source apart as long as records come in time order.
THEOREM ReportsApart == Spec => AlertsApart
<1>1. IdsInv /\ [Next]_vars => [ordered' => \A s \in Srcs : Alert(s) => Apart(s)]_vars
  BY Zenon, IdsStep
<1> QED
  BY <1>1, IdsAlways, PTL DEF Spec, AlertsApart
=============================================================================
