----------------------------- MODULE JournalProofs -----------------------------
(********************************************************************************)
(* That the journal implements the log.                                         *)
(*                                                                              *)
(* The argument is about chains: the offsets of the records that a scan passes. *)
(* A file has one longest chain, which the scan's recursion returns (ScanIs);   *)
(* truncating the file truncates it (TruncateChain), writing behind it leaves   *)
(* it alone (Rewritten) or extends it (AppendedIs), and a compaction writes one *)
(* from the start (CompactedIs).  History is thus monotone in the length of the *)
(* prefix (HistoryOfPrefix), and every step of the journal is seen to settle,   *)
(* lose, append or replace records of the log (StepMaps).                       *)
(********************************************************************************)
EXTENDS JournalFile, FiniteSetTheorems, WellFoundedInduction, SequenceTheorems, TLAPS

\* What a cell of the file is.
Cell == [p : Payloads \union {"header"}, seq : Nat, len : Nat \ {0, 1}, i : Nat \ {0}]

\* The records of f that the scan passes: b[j] is where the record after the first j starts.
Chain(f, b, k) ==
  /\ k \in Nat /\ k <= MaxRecords /\ b \in [Nat -> Nat] /\ b[0] = HeaderLen
  /\ \A j \in Nat : j < k =>
       b[j] < Len(f) /\ Stopped(f, b[j], j) = {} /\ b[j + 1] = b[j] + f[b[j] + 1].len

\* It passes no other.
Ended(f, b, k) == b[k] = Len(f) \/ Stopped(f, b[k], k) # {}

--------------------------------------------------------------------------------
\* A nonempty set of naturals has a least element.
LEMMA NatMinimum ==
  ASSUME NEW S \in SUBSET Nat, S # {}
  PROVE  \E n \in S : \A m \in S : n <= m
<1> DEFINE Below == {0..n : n \in S}
<1>1. \A n \in Nat : 0..n \in FiniteSubsetsOf(Nat)
  BY FS_Interval DEF FiniteSubsetsOf
<1>2. Below \subseteq FiniteSubsetsOf(Nat) /\ Below # {}
  BY <1>1
<1>3. IsWellFoundedOn(StrictSubsetOrdering(Nat), FiniteSubsetsOf(Nat))
  BY FS_StrictSubsetOrderingWellFounded
<1>4. \E x \in Below : \A y \in Below : <<y, x>> \notin StrictSubsetOrdering(Nat)
  <2> HIDE DEF Below
  <2> QED
    BY <1>2, <1>3, WFMin
<1>5. PICK n \in S : \A m \in S : <<0..m, 0..n>> \notin StrictSubsetOrdering(Nat)
  BY <1>4
<1>6. ASSUME NEW m \in S, m < n PROVE FALSE
  <2>1. 0..m \subseteq 0..n /\ 0..m # 0..n
    BY <1>6
  <2>2. 0..m \in SUBSET Nat /\ 0..n \in SUBSET Nat
    OBVIOUS
  <2> QED
    BY <1>5, <2>1, <2>2 DEF StrictSubsetOrdering
<1> QED
  BY <1>6

\* Induction over the naturals with a set in place of a predicate: a set that holds 0 and
\* the successor of each of its naturals holds every natural. The scan of a
\* file is followed with it, record by record.
LEMMA SetInduction ==
  ASSUME NEW S, 0 \in S, \A n \in Nat : n \in S => n + 1 \in S
  PROVE  Nat \subseteq S
<1> SUFFICES ASSUME Nat \ S # {} PROVE FALSE
  OBVIOUS
<1>1. PICK n \in Nat \ S : \A m \in Nat \ S : n <= m
  BY NatMinimum
<1>2. n # 0 /\ n - 1 \in Nat /\ n - 1 \in S
  BY <1>1
<1> QED
  BY <1>2

\* A finite nonempty set of naturals has a greatest element.
LEMMA FiniteMaximum ==
  ASSUME NEW S \in SUBSET Nat, S # {}, IsFiniteSet(S)
  PROVE  \E n \in S : \A m \in S : m <= n
<1> DEFINE above(n) == {m \in S : m > n}
           Aboves == {above(n) : n \in S}
<1>1. \A n \in S : above(n) \in FiniteSubsetsOf(Nat)
  <2> SUFFICES ASSUME NEW n \in S PROVE above(n) \in FiniteSubsetsOf(Nat)
    OBVIOUS
  <2>1. IsFiniteSet(above(n))
    BY FS_Subset
  <2> QED
    BY <2>1 DEF FiniteSubsetsOf
<1>2. Aboves \subseteq FiniteSubsetsOf(Nat) /\ Aboves # {}
  BY <1>1
<1>3. \E x \in Aboves : \A y \in Aboves : <<y, x>> \notin StrictSubsetOrdering(Nat)
  <2> HIDE DEF Aboves
  <2> QED
    BY <1>2, FS_StrictSubsetOrderingWellFounded, WFMin
<1>4. PICK n \in S : \A m \in S : <<above(m), above(n)>> \notin StrictSubsetOrdering(Nat)
  BY <1>3
<1>5. ASSUME NEW m \in S, m > n PROVE FALSE
  <2>0. m \in Nat /\ n \in Nat /\ n < m /\ ~(m > m) /\ \A k \in S : k \in Nat /\ (k > m => k > n)
    BY <1>5
  <2>1. above(m) \subseteq above(n) /\ m \in above(n) /\ m \notin above(m)
    BY <1>5, <2>0, Zenon
  <2>2. above(m) \in SUBSET Nat /\ above(n) \in SUBSET Nat
    OBVIOUS
  <2> QED
    BY <1>4, <2>1, <2>2 DEF StrictSubsetOrdering
<1> QED
  BY <1>5

--------------------------------------------------------------------------------
\* A function on 1..n is a sequence of length n.
LEMMA IsSequence ==
  ASSUME NEW S, NEW n \in Nat, NEW f \in [1..n -> S]
  PROVE  f \in Seq(S) /\ Len(f) = n /\ DOMAIN f = 1..n
<1>1. f \in Seq(S)
  BY SeqDef
<1>2. DOMAIN f = 1..n /\ DOMAIN f = 1..Len(f) /\ Len(f) \in Nat
  BY <1>1
<1> QED
  BY <1>1, <1>2

\* The fields of a cell.
LEMMA CellFields ==
  ASSUME NEW c \in Cell
  PROVE  c.len \in Nat /\ c.len >= 2 /\ c.seq \in Nat /\ c.i \in Nat /\ c.i >= 1
<1>1. c.len \in Nat \ {0, 1} /\ c.seq \in Nat /\ c.i \in Nat \ {0}
  BY DEF Cell
<1> QED
  BY <1>1

\* What a truncation (FileOps::truncate) leaves of a file.
LEMMA TruncateIs ==
  ASSUME NEW S, NEW f \in Seq(S), NEW n \in Nat, n <= Len(f)
  PROVE  /\ Truncate(f, n) \in Seq(S) /\ Len(Truncate(f, n)) = n
         /\ \A k \in 1..n : Truncate(f, n)[k] = f[k]
BY DEF Truncate

\* Of two truncations the shorter one counts.
LEMMA TruncateTwice ==
  ASSUME NEW S, NEW f \in Seq(S), NEW n \in Nat, n <= Len(f), NEW m \in Nat, m <= n
  PROVE  Truncate(Truncate(f, n), m) = Truncate(f, m)
<1>1. /\ Truncate(f, n) \in Seq(S) /\ Len(Truncate(f, n)) = n
      /\ \A k \in 1..n : Truncate(f, n)[k] = f[k]
  BY TruncateIs
<1>2. /\ Truncate(f, m) \in Seq(S) /\ Len(Truncate(f, m)) = m
      /\ \A k \in 1..m : Truncate(f, m)[k] = f[k]
  BY TruncateIs
<1>3. /\ Truncate(Truncate(f, n), m) \in Seq(S) /\ Len(Truncate(Truncate(f, n), m)) = m
      /\ \A k \in 1..m : Truncate(Truncate(f, n), m)[k] = Truncate(f, n)[k]
  BY <1>1, TruncateIs
<1> QED
  BY <1>1, <1>2, <1>3

\* The greater and the lesser of two numbers.
LEMMA TwoBounds ==
  ASSUME NEW a \in Nat, NEW c \in Nat
  PROVE  /\ Max({a, c}) \in {a, c} /\ Max({a, c}) >= a /\ Max({a, c}) >= c
         /\ Min({a, c}) \in {a, c} /\ Min({a, c}) <= a /\ Min({a, c}) <= c
<1>1. \E x \in {a, c} : \A y \in {a, c} : x >= y
  <2>1. CASE a >= c
    BY <2>1
  <2>2. CASE c >= a
    BY <2>2
  <2> QED
    BY <2>1, <2>2
<1>2. \E x \in {a, c} : \A y \in {a, c} : x <= y
  <2>1. CASE a >= c
    BY <2>1
  <2>2. CASE c >= a
    BY <2>2
  <2> QED
    BY <2>1, <2>2
<1> QED
  BY <1>1, <1>2 DEF Max, Min

\* A record starts two cells after the one before it at least.
LEMMA ChainGrows ==
  ASSUME NEW f \in Seq(Cell), Len(f) >= HeaderLen, NEW b, NEW k, Chain(f, b, k)
  PROVE  \A j \in Nat : j <= k => HeaderLen + 2 * j <= b[j] /\ b[j] <= Len(f) /\ b[j] \in Nat
<1> DEFINE S == {j \in Nat : j <= k => HeaderLen + 2 * j <= b[j] /\ b[j] <= Len(f) /\ b[j] \in Nat}
<1>1. 0 \in S
  BY DEF Chain, HeaderLen
<1>2. ASSUME NEW j \in Nat, j \in S  PROVE j + 1 \in S
  <2> SUFFICES ASSUME j + 1 <= k
               PROVE  HeaderLen + 2 * (j + 1) <= b[j + 1] /\ b[j + 1] <= Len(f) /\ b[j + 1] \in Nat
    OBVIOUS
  <2>1. k \in Nat /\ j < k /\ HeaderLen + 2 * j <= b[j] /\ b[j] \in Nat
    BY <1>2 DEF Chain
  <2>2. b[j] < Len(f) /\ Stopped(f, b[j], j) = {} /\ b[j + 1] = b[j] + f[b[j] + 1].len
    BY <2>1 DEF Chain
  <2>3. f[b[j] + 1] \in Cell
    BY <2>1, <2>2
  <2>4. Fits(f, b[j])
    BY <2>2 DEF Stopped
  <2>5. f[b[j] + 1].len \in Nat /\ f[b[j] + 1].len >= 2
    BY <2>3, CellFields
  <2>6. b[j] + f[b[j] + 1].len <= Len(f)
    BY <2>4 DEF Fits
  <2> HIDE DEF S
  <2>7. HeaderLen + 2 * (j + 1) = HeaderLen + 2 * j + 2
    BY DEF HeaderLen
  <2>8. HeaderLen + 2 * j \in Nat
    BY DEF HeaderLen
  <2> QED
    BY <2>1, <2>2, <2>5, <2>6, <2>7, <2>8
<1> HIDE DEF S
<1>3. Nat \subseteq S
  BY <1>1, <1>2, SetInduction
<1> QED
  BY <1>3 DEF S

\* A chain goes on with the record behind it.
LEMMA ChainExtends ==
  ASSUME NEW f \in Seq(Cell), NEW b, NEW k, Chain(f, b, k), b[k] < Len(f), Stopped(f, b[k], k) = {}
  PROVE  \E c : /\ Chain(f, c, k + 1)
               /\ c[k + 1] = b[k] + f[b[k] + 1].len
               /\ \A j \in Nat : j <= k => c[j] = b[j]
<1>1. /\ k \in Nat /\ k <= MaxRecords /\ b \in [Nat -> Nat] /\ b[0] = HeaderLen
      /\ \A j \in Nat : j < k =>
           b[j] < Len(f) /\ Stopped(f, b[j], j) = {} /\ b[j + 1] = b[j] + f[b[j] + 1].len
  BY DEF Chain
<1>0. k \in Nat /\ b[k] \in Nat
  BY <1>1
<1>2. k < MaxRecords
  BY <1>1, BoundsAssumption DEF Stopped
<1>3. f[b[k] + 1].len \in Nat
  <2>1. f[b[k] + 1] \in Cell
    BY <1>0
  <2> QED
    BY <2>1, CellFields
<1> DEFINE x == b[k] + f[b[k] + 1].len
           c == [j \in Nat |-> IF j <= k THEN b[j] ELSE x]
<1>4. x \in Nat
  BY <1>0, <1>3
<1> HIDE DEF x
<1>5. c \in [Nat -> Nat] /\ c[k + 1] = x /\ \A j \in Nat : j <= k => c[j] = b[j]
  BY <1>1, <1>4
<1> HIDE DEF c
<1>6. ASSUME NEW j \in Nat, j < k + 1
      PROVE  c[j] < Len(f) /\ Stopped(f, c[j], j) = {} /\ c[j + 1] = c[j] + f[c[j] + 1].len
  <2>1. CASE j < k
    <3>0. j <= k /\ j + 1 \in Nat /\ j + 1 <= k
      BY <1>0, <2>1
    <3>1. c[j] = b[j] /\ c[j + 1] = b[j + 1]
      BY <1>5, <3>0
    <3> QED
      BY <1>1, <2>1, <3>1
  <2>2. CASE j = k
    <3>1. c[j] = b[k] /\ c[j + 1] = x
      BY <1>1, <1>5, <2>2
    <3> QED
      BY <2>2, <3>1 DEF x
  <2>3. j < k \/ j = k
    BY <1>0, <1>6
  <2> QED
    BY <2>1, <2>2, <2>3
<1>7. k + 1 \in Nat /\ k + 1 <= MaxRecords
  BY <1>1, <1>2, BoundsAssumption
<1>8. c[0] = HeaderLen
  BY <1>1, <1>5
<1>9. Chain(f, c, k + 1)
  BY <1>5, <1>6, <1>7, <1>8 DEF Chain
<1> QED
  BY <1>5, <1>9 DEF x

\* There is a longest chain.
LEMMA ChainExists ==
  ASSUME NEW f \in Seq(Cell), Len(f) >= HeaderLen
  PROVE  \E b, k : Chain(f, b, k) /\ Ended(f, b, k)
<1> DEFINE K == {k \in 0..MaxRecords : \E b : Chain(f, b, k)}
<1>1. Chain(f, [j \in Nat |-> HeaderLen], 0)
  BY BoundsAssumption DEF Chain, HeaderLen
<1>2. 0 \in K
  BY <1>1, BoundsAssumption
<1>3. IsFiniteSet(K) /\ K \in SUBSET Nat /\ K # {}
  <2>1. IsFiniteSet(0..MaxRecords)
    BY FS_Interval, BoundsAssumption
  <2>2. K \in SUBSET (0..MaxRecords)
    OBVIOUS
  <2> HIDE DEF K
  <2>3. IsFiniteSet(K)
    BY <2>1, <2>2, FS_Subset
  <2>4. K \subseteq Nat
    BY <2>2
  <2> QED
    BY <1>2, <2>3, <2>4
<1> HIDE DEF K
<1>4. PICK k \in K : \A m \in K : m <= k
  BY <1>3, FiniteMaximum
<1>5. PICK b : Chain(f, b, k)
  BY <1>4 DEF K
<1>6. k \in Nat /\ b[k] \in Nat /\ b[k] <= Len(f)
  <2>1. k \in Nat
    BY <1>5 DEF Chain
  <2>2. \A j \in Nat : j <= k => HeaderLen + 2 * j <= b[j] /\ b[j] <= Len(f) /\ b[j] \in Nat
    BY <1>5, ChainGrows
  <2> QED
    BY <2>1, <2>2
<1>7. Ended(f, b, k)
  <2> SUFFICES ASSUME ~Ended(f, b, k)  PROVE FALSE
    OBVIOUS
  <2>1. b[k] < Len(f) /\ Stopped(f, b[k], k) = {}
    BY <1>6 DEF Ended
  <2>2. PICK c : Chain(f, c, k + 1)
    BY <1>5, <2>1, ChainExtends
  <2>3. k + 1 \in Nat /\ k + 1 <= MaxRecords
    BY <2>2 DEF Chain
  <2>4. k + 1 \in K
    BY <2>2, <2>3, BoundsAssumption DEF K
  <2> QED
    BY <1>4, <1>6, <2>4
<1> QED
  BY <1>5, <1>7

--------------------------------------------------------------------------------
\* What the scan's recursion says of offset o after n records, of a given function r.
ScanValue(f, r, o, n) ==
  IF o = Len(f) \/ Stopped(f, o, n) # {} THEN [good |-> o, records |-> <<>>]
  ELSE [good |-> r[n + 1][o + f[o + 1].len].good,
        records |-> <<f[o + 1].p>> \o r[n + 1][o + f[o + 1].len].records]

\* A record the scan passes ends within the file, and there was room for one more.
LEMMA ScanStays ==
  ASSUME NEW f \in Seq(Cell), NEW o \in HeaderLen..Len(f), NEW n \in 0..MaxRecords,
         o # Len(f), Stopped(f, o, n) = {}
  PROVE  o + f[o + 1].len \in HeaderLen..Len(f) /\ n + 1 \in 0..MaxRecords
<1>1. n < MaxRecords
  BY BoundsAssumption DEF Stopped
<1>2. Fits(f, o) /\ f[o + 1] \in Cell
  BY <1>1 DEF Stopped, HeaderLen
<1>3. f[o + 1].len \in Nat /\ o + f[o + 1].len <= Len(f)
  BY <1>2 DEF Fits, Cell
<1>4. o \in Nat /\ HeaderLen \in Nat /\ HeaderLen <= o /\ Len(f) \in Nat
  BY DEF HeaderLen
<1>5. o + f[o + 1].len \in HeaderLen..Len(f)
  BY <1>3, <1>4
<1> QED
  BY <1>1, <1>5, BoundsAssumption

\* The recursion has a solution, found from the last record number down.
LEMMA ScanSolution ==
  ASSUME NEW f \in Seq(Cell)
  PROVE  \E r : r = [n \in 0..MaxRecords |-> [o \in HeaderLen..Len(f) |-> ScanValue(f, r, o, n)]]
<1> DEFINE O == HeaderLen..Len(f)
           Solves(r, m) == \A o \in O, n \in 0..MaxRecords :
                             n + m >= MaxRecords => r[n][o] = ScanValue(f, r, o, n)
           S == {m \in Nat : \E r : Solves(r, m)}
<1>1. 0 \in S
  <2> DEFINE r == [n \in 0..MaxRecords |-> [o \in O |-> ScanValue(f, <<>>, o, n)]]
  <2>1. ASSUME NEW o \in O, NEW n \in 0..MaxRecords, n + 0 >= MaxRecords
        PROVE  r[n][o] = ScanValue(f, r, o, n)
    <3>1. n >= MaxRecords
      BY <2>1, BoundsAssumption
    <3>2. Stopped(f, o, n) # {}
      BY <3>1 DEF Stopped
    <3>3. r[n][o] = ScanValue(f, <<>>, o, n)
      OBVIOUS
    <3> HIDE DEF r
    <3> QED
      BY <3>2, <3>3 DEF ScanValue
  <2> HIDE DEF r
  <2> QED
    BY <2>1
<1>2. ASSUME NEW m \in Nat, m \in S  PROVE m + 1 \in S
  <2>1. PICK r : Solves(r, m)
    BY <1>2
  <2> DEFINE q == [n \in 0..MaxRecords |-> [o \in O |->
                     IF n + m >= MaxRecords THEN r[n][o] ELSE ScanValue(f, r, o, n)]]
  <2>2. \A o \in O, n \in 0..MaxRecords :
          q[n][o] = IF n + m >= MaxRecords THEN r[n][o] ELSE ScanValue(f, r, o, n)
    OBVIOUS
  <2> HIDE DEF q
  <2>3. ASSUME NEW o \in O, NEW n \in 0..MaxRecords, n + (m + 1) >= MaxRecords
        PROVE  q[n][o] = ScanValue(f, q, o, n)
    <3>1. q[n][o] = ScanValue(f, r, o, n)
      BY <2>1, <2>2
    <3>2. CASE o = Len(f) \/ Stopped(f, o, n) # {}
      BY <3>1, <3>2 DEF ScanValue
    <3>3. CASE o # Len(f) /\ Stopped(f, o, n) = {}
      <4>1. o + f[o + 1].len \in O /\ n + 1 \in 0..MaxRecords
        BY <3>3, ScanStays
      <4>2. (n + 1) + m >= MaxRecords
        BY <2>3, BoundsAssumption
      <4>3. q[n + 1][o + f[o + 1].len] = r[n + 1][o + f[o + 1].len]
        BY <2>2, <4>1, <4>2
      <4> QED
        BY <3>1, <3>3, <4>3 DEF ScanValue
    <3> QED
      BY <3>2, <3>3
  <2> QED
    BY <2>3
<1> HIDE DEF S
<1>3. MaxRecords \in S
  BY <1>1, <1>2, SetInduction, BoundsAssumption
<1>4. PICK r : Solves(r, MaxRecords)
  BY <1>3 DEF S
<1> DEFINE q == [n \in 0..MaxRecords |-> [o \in O |-> r[n][o]]]
<1>5. \A o \in O, n \in 0..MaxRecords : q[n][o] = r[n][o]
  OBVIOUS
<1>6. q = [n \in 0..MaxRecords |-> [o \in O |-> q[n][o]]]
  OBVIOUS
<1> HIDE DEF q
<1>7. ASSUME NEW o \in O, NEW n \in 0..MaxRecords
      PROVE  q[n][o] = ScanValue(f, q, o, n)
  <2>1. q[n][o] = ScanValue(f, r, o, n)
    BY <1>4, <1>5, BoundsAssumption
  <2>2. CASE o = Len(f) \/ Stopped(f, o, n) # {}
    BY <2>1, <2>2 DEF ScanValue
  <2>3. CASE o # Len(f) /\ Stopped(f, o, n) = {}
    <3>1. o + f[o + 1].len \in O /\ n + 1 \in 0..MaxRecords
      BY <2>3, ScanStays
    <3>2. q[n + 1][o + f[o + 1].len] = r[n + 1][o + f[o + 1].len]
      BY <1>5, <3>1
    <3> QED
      BY <2>1, <2>3, <3>2 DEF ScanValue
  <2> QED
    BY <2>2, <2>3
<1> QED
  BY <1>6, <1>7

\* Whatever stops a chain, its records are those before.
Passed(f, b, j, k) == [i \in 1..(k - j) |-> f[b[j + i - 1] + 1].p]

\* One more record in front of the others.
LEMMA Prepended ==
  ASSUME NEW S, NEW m \in Nat, NEW g \in [1..m -> S], NEW h \in [1..(m + 1) -> S],
         \A i \in 1..m : h[i + 1] = g[i]
  PROVE  <<h[1]>> \o g = h
<1>1. h[1] \in S
  OBVIOUS
<1>2. g \in Seq(S) /\ Len(g) = m
  BY IsSequence
<1>3. h \in Seq(S) /\ Len(h) = m + 1
  BY IsSequence
<1> DEFINE c == <<h[1]>> \o g
<1>4. /\ c \in Seq(S) /\ Len(c) = m + 1
      /\ c[1] = h[1]
      /\ \A i \in 1..m : c[i + 1] = g[i]
  BY <1>1, <1>2
<1> HIDE DEF c
<1>5. ASSUME NEW i \in 1..(m + 1)  PROVE c[i] = h[i]
  <2>1. CASE i = 1
    BY <1>4, <2>1
  <2>2. CASE i # 1
    <3>1. i - 1 \in 1..m /\ (i - 1) + 1 = i
      BY <2>2
    <3>2. c[i] = g[i - 1] /\ h[i] = g[i - 1]
      BY <1>4, <3>1
    <3> QED
      BY <3>2
  <2> QED
    BY <2>1, <2>2
<1>6. c = h
  BY <1>3, <1>4, <1>5, SeqEqual
<1> QED
  BY <1>6 DEF c

\* The scan returns the longest chain.
LEMMA ScanIs ==
  ASSUME NEW f \in Seq(Cell), Len(f) >= HeaderLen, NEW b, NEW k, Chain(f, b, k), Ended(f, b, k)
  PROVE  Scan(f) = [good |-> b[k], records |-> Passed(f, b, 0, k)]
<1> DEFINE O == HeaderLen..Len(f)
           Fn(r) == r = [n \in 0..MaxRecords |-> [o \in O |-> ScanValue(f, r, o, n)]]
           q == CHOOSE r : Fn(r)
<1>1. Scan(f) = q[0][HeaderLen]
  BY DEF Scan, ScanValue
<1>2. Fn(q)
  <2>1. \E r : Fn(r)
    BY ScanSolution
  <2> HIDE DEF Fn
  <2> QED
    BY <2>1
<1>3. \A n \in 0..MaxRecords, o \in O : q[n][o] = ScanValue(f, q, o, n)
  <2> HIDE DEF q
  <2> TAKE n \in 0..MaxRecords, o \in O
  <2>1. q[n] = [x \in O |-> ScanValue(f, q, x, n)]
    BY <1>2
  <2> QED
    BY <2>1
<1> HIDE DEF q
<1>4. k \in Nat /\ k <= MaxRecords /\ b[0] = HeaderLen
      /\ \A j \in Nat : j < k =>
           b[j] < Len(f) /\ Stopped(f, b[j], j) = {} /\ b[j + 1] = b[j] + f[b[j] + 1].len
  BY DEF Chain
<1>5. \A j \in Nat : j <= k => b[j] \in O /\ j \in 0..MaxRecords
  BY <1>4, ChainGrows, BoundsAssumption DEF HeaderLen
<1> DEFINE S == {m \in Nat : m <= k =>
                   q[k - m][b[k - m]] = [good |-> b[k], records |-> Passed(f, b, k - m, k)]}
<1>6. 0 \in S
  <2>1. k - 0 = k
    BY <1>4
  <2>2. q[k][b[k]] = ScanValue(f, q, b[k], k)
    BY <1>3, <1>4, <1>5
  <2>3. ScanValue(f, q, b[k], k) = [good |-> b[k], records |-> <<>>]
    BY DEF ScanValue, Ended
  <2>4. Passed(f, b, k, k) = <<>>
    BY <1>4 DEF Passed
  <2> QED
    BY <2>1, <2>2, <2>3, <2>4
<1>7. ASSUME NEW m \in Nat, m \in S  PROVE m + 1 \in S
  <2> SUFFICES ASSUME m + 1 <= k
               PROVE  q[k - (m + 1)][b[k - (m + 1)]]
                        = [good |-> b[k], records |-> Passed(f, b, k - (m + 1), k)]
    OBVIOUS
  <2> DEFINE j == k - (m + 1)
  <2>1. j \in Nat /\ j < k /\ j <= k /\ j + 1 = k - m /\ m <= k /\ j + 1 <= k /\ j + 1 \in Nat
    BY <1>4
  <2>2. q[j + 1][b[j + 1]] = [good |-> b[k], records |-> Passed(f, b, j + 1, k)]
    BY <1>7, <2>1
  <2> HIDE DEF S
  <2>3. b[j] # Len(f) /\ Stopped(f, b[j], j) = {} /\ b[j + 1] = b[j] + f[b[j] + 1].len
    <3>1. b[j] \in Nat
      BY <1>5, <2>1 DEF HeaderLen
    <3> QED
      BY <1>4, <2>1, <3>1
  <2>4. q[j][b[j]] = ScanValue(f, q, b[j], j)
    BY <1>3, <1>5, <2>1
  <2>5. ScanValue(f, q, b[j], j)
          = [good |-> q[j + 1][b[j + 1]].good,
             records |-> <<f[b[j] + 1].p>> \o q[j + 1][b[j + 1]].records]
    BY <2>3 DEF ScanValue
  <2>6. <<f[b[j] + 1].p>> \o Passed(f, b, j + 1, k) = Passed(f, b, j, k)
    <3> DEFINE g == Passed(f, b, j + 1, k)
               h == Passed(f, b, j, k)
    <3>1. k - (j + 1) = m /\ k - j = m + 1
      BY <1>4
    <3>2. g = [i \in 1..m |-> f[b[j + 1 + i - 1] + 1].p]
      BY <3>1 DEF Passed
    <3>3. h = [i \in 1..(m + 1) |-> f[b[j + i - 1] + 1].p]
      BY <3>1 DEF Passed
    <3> HIDE DEF g, h
    <3>4. g = [i \in 1..m |-> g[i]] /\ h = [i \in 1..(m + 1) |-> h[i]]
      BY <3>2, <3>3
    <3>5. \A i \in 1..m : h[i + 1] = g[i]
      <4> TAKE i \in 1..m
      <4>1. i + 1 \in 1..(m + 1)
        OBVIOUS
      <4>2. h[i + 1] = f[b[j + (i + 1) - 1] + 1].p /\ g[i] = f[b[j + 1 + i - 1] + 1].p
        BY <3>2, <3>3, <4>1
      <4>3. j + (i + 1) - 1 = j + 1 + i - 1
        BY <2>1
      <4> QED
        BY <4>2, <4>3
    <3>6. h[1] = f[b[j] + 1].p
      <4>1. j + 1 - 1 = j /\ 1 \in 1..(m + 1)
        BY <2>1
      <4> QED
        BY <3>3, <4>1
    <3>7. <<h[1]>> \o g = h
      <4> DEFINE T == {g[i] : i \in 1..m} \union {h[i] : i \in 1..(m + 1)}
      <4>1. g \in [1..m -> T] /\ h \in [1..(m + 1) -> T]
        BY <3>4
      <4> HIDE DEF T
      <4> QED
        BY <3>5, <4>1, Prepended
    <3> QED
      BY <3>6, <3>7 DEF g, h
  <2>7. /\ [good |-> b[k], records |-> Passed(f, b, j + 1, k)].good = b[k]
        /\ [good |-> b[k], records |-> Passed(f, b, j + 1, k)].records = Passed(f, b, j + 1, k)
    OBVIOUS
  <2>8. q[j][b[j]] = [good |-> b[k], records |-> Passed(f, b, j, k)]
    <3> HIDE DEF j
    <3> QED
      BY <2>2, <2>4, <2>5, <2>6, <2>7
  <2> QED
    BY <2>8
<1> HIDE DEF S
<1>8. k \in S
  BY <1>4, <1>6, <1>7, SetInduction
<1>9. k - k = 0
  BY <1>4
<1> QED
  BY <1>1, <1>4, <1>8, <1>9 DEF S

--------------------------------------------------------------------------------
\* When the scan passes a record.
LEMMA PassedMeans ==
  ASSUME NEW f, NEW o, NEW n \in Nat
  PROVE  Stopped(f, o, n) = {} <=>
           /\ n < MaxRecords
           /\ StartsRecord(f, o) /\ Fits(f, o) /\ Verified(f, o)
           /\ ~(n # 0 /\ f[o + 1].seq <= PreviousSeq(f, o))
BY BoundsAssumption DEF Stopped

\* It looks at no cell beyond the record.
LEMMA StoppedAgrees ==
  ASSUME NEW f \in Seq(Cell), NEW g \in Seq(Cell), NEW o \in Nat, NEW n \in Nat, HeaderLen <= o,
         o < Len(f), o + f[o + 1].len <= Len(f), o + f[o + 1].len <= Len(g),
         \A x \in 1..(o + f[o + 1].len) : g[x] = f[x]
  PROVE  Stopped(f, o, n) = {} <=> Stopped(g, o, n) = {}
<1>1. f[o + 1] \in Cell
  OBVIOUS
<1>2. f[o + 1].len \in Nat /\ f[o + 1].len >= 2
  BY <1>1, CellFields
<1>3. g[o + 1] = f[o + 1] /\ g[o] = f[o]
  <2>1. o + 1 \in 1..(o + f[o + 1].len) /\ o \in 1..(o + f[o + 1].len)
    BY <1>2 DEF HeaderLen
  <2> QED
    BY <2>1
<1>4. \A k \in 1..f[o + 1].len : g[o + k] = f[o + k]
  <2> TAKE k \in 1..f[o + 1].len
  <2>1. o + k \in 1..(o + f[o + 1].len)
    BY <1>2
  <2> QED
    BY <2>1
<1>5. StartsRecord(f, o) <=> StartsRecord(g, o)
  BY <1>3 DEF StartsRecord
<1>6. Fits(f, o) /\ Fits(g, o)
  BY <1>3 DEF Fits
<1>7. Verified(f, o) <=> Verified(g, o)
  BY <1>3, <1>4 DEF Verified
<1>8. PreviousSeq(f, o) = PreviousSeq(g, o)
  BY <1>3 DEF PreviousSeq
<1> QED
  BY <1>3, <1>5, <1>6, <1>7, <1>8, PassedMeans

\* A part of a chain is one.
LEMMA ChainPart ==
  ASSUME NEW f, NEW b, NEW k, Chain(f, b, k), NEW j \in Nat, j <= k
  PROVE  Chain(f, b, j)
<1>1. k \in Nat /\ k <= MaxRecords /\ b \in [Nat -> Nat] /\ b[0] = HeaderLen
  BY DEF Chain
<1>2. j <= MaxRecords
  BY <1>1, BoundsAssumption
<1>3. ASSUME NEW i \in Nat, i < j
      PROVE  b[i] < Len(f) /\ Stopped(f, b[i], i) = {} /\ b[i + 1] = b[i] + f[b[i] + 1].len
  <2>1. i < k
    BY <1>1, <1>3
  <2> QED
    BY <2>1 DEF Chain
<1> QED
  BY <1>1, <1>2, <1>3 DEF Chain

\* A file that begins with the same records has the same chain.
LEMMA ChainAgrees ==
  ASSUME NEW f \in Seq(Cell), NEW g \in Seq(Cell), Len(f) >= HeaderLen,
         NEW b, NEW k, Chain(f, b, k), b[k] <= Len(g),
         \A x \in 1..b[k] : g[x] = f[x]
  PROVE  Chain(g, b, k)
<1>1. /\ k \in Nat /\ k <= MaxRecords /\ b \in [Nat -> Nat] /\ b[0] = HeaderLen
      /\ \A j \in Nat : j < k =>
           b[j] < Len(f) /\ Stopped(f, b[j], j) = {} /\ b[j + 1] = b[j] + f[b[j] + 1].len
  BY DEF Chain
<1>2. \A j \in Nat : j <= k => HeaderLen + 2 * j <= b[j] /\ b[j] <= Len(f) /\ b[j] \in Nat
  BY ChainGrows
<1>3. \A j \in Nat : j <= k => b[j] <= b[k]
  <2> DEFINE S == {m \in Nat : m <= k => b[k - m] <= b[k]}
  <2>1. 0 \in S
    <3>1. k - 0 = k /\ b[k] \in Nat
      BY <1>1
    <3> QED
      BY <3>1
  <2>2. ASSUME NEW m \in Nat, m \in S  PROVE m + 1 \in S
    <3> SUFFICES ASSUME m + 1 <= k  PROVE b[k - (m + 1)] <= b[k]
      OBVIOUS
    <3> DEFINE j == k - (m + 1)
    <3>1. j \in Nat /\ j < k /\ j + 1 = k - m /\ m <= k /\ j <= k /\ j + 1 <= k /\ j + 1 \in Nat
      BY <1>1
    <3>2. b[j + 1] <= b[k]
      BY <2>2, <3>1
    <3> HIDE DEF S
    <3>3. b[j] < Len(f) /\ b[j + 1] = b[j] + f[b[j] + 1].len /\ b[j] \in Nat
      BY <1>1, <1>2, <3>1
    <3>4. f[b[j] + 1] \in Cell
      BY <3>3
    <3>5. f[b[j] + 1].len \in Nat
      BY <3>4, CellFields
    <3>6. b[k] \in Nat
      BY <1>1
    <3> HIDE DEF j
    <3>7. b[j] <= b[k]
      BY <3>2, <3>3, <3>5, <3>6
    <3> QED
      BY <3>7 DEF j
  <2> HIDE DEF S
  <2>3. Nat \subseteq S
    BY <2>1, <2>2, SetInduction
  <2> TAKE j \in Nat
  <2> HAVE j <= k
  <2>4. k - j \in Nat /\ k - j <= k /\ k - (k - j) = j
    BY <1>1
  <2> QED
    BY <2>3, <2>4 DEF S
<1>4. ASSUME NEW j \in Nat, j < k
      PROVE  b[j] < Len(g) /\ Stopped(g, b[j], j) = {} /\ b[j + 1] = b[j] + g[b[j] + 1].len
  <2>1. /\ b[j] < Len(f) /\ Stopped(f, b[j], j) = {} /\ b[j + 1] = b[j] + f[b[j] + 1].len
        /\ b[j] \in Nat /\ HeaderLen <= b[j]
    <3>1. j <= k /\ HeaderLen \in Nat
      BY <1>1, <1>4 DEF HeaderLen
    <3>2. HeaderLen + 2 * j <= b[j] /\ b[j] \in Nat
      BY <1>2, <3>1
    <3>3. HeaderLen <= b[j]
      BY <3>1, <3>2
    <3> QED
      BY <1>1, <1>4, <3>2, <3>3
  <2>2. f[b[j] + 1] \in Cell
    BY <2>1
  <2>3. f[b[j] + 1].len \in Nat /\ f[b[j] + 1].len >= 2
    BY <2>2, CellFields
  <2>4. b[j + 1] <= b[k] /\ b[k] \in Nat /\ b[k] <= Len(f)
    BY <1>1, <1>2, <1>3, <1>4
  <2>5. b[j] + f[b[j] + 1].len <= Len(f) /\ b[j] + f[b[j] + 1].len <= Len(g)
    BY <2>1, <2>3, <2>4
  <2>6. \A x \in 1..(b[j] + f[b[j] + 1].len) : g[x] = f[x]
    BY <2>1, <2>3, <2>4
  <2>7. Stopped(g, b[j], j) = {}
    BY <2>1, <2>5, <2>6, StoppedAgrees
  <2>8. b[j] + 1 \in 1..(b[j] + f[b[j] + 1].len)
    BY <2>1, <2>3
  <2>9. g[b[j] + 1] = f[b[j] + 1]
    BY <2>6, <2>8
  <2>10. b[j] < Len(g)
    BY <2>1, <2>3, <2>5
  <2> QED
    BY <2>1, <2>7, <2>9, <2>10
<1> QED
  BY <1>1, <1>4 DEF Chain

--------------------------------------------------------------------------------
\* The files the journal writes: records of the callers' payloads behind the header.
Files == {f \in Seq(Cell) : \A x \in 1..Len(f) : x > HeaderLen => f[x].p \in Payloads}

\* The payloads of a chain.
LEMMA PassedIs ==
  ASSUME NEW f \in Files, Len(f) >= HeaderLen, NEW b, NEW k, Chain(f, b, k)
  PROVE  /\ Passed(f, b, 0, k) \in Seq(Payloads)
         /\ Len(Passed(f, b, 0, k)) = k
         /\ \A i \in 1..k : Passed(f, b, 0, k)[i] = f[b[i - 1] + 1].p
<1>0. f \in Seq(Cell) /\ \A x \in 1..Len(f) : x > HeaderLen => f[x].p \in Payloads
  BY DEF Files
<1>1. /\ k \in Nat /\ b \in [Nat -> Nat]
      /\ \A j \in Nat : j < k => b[j] < Len(f)
  BY DEF Chain
<1>2. \A j \in Nat : j <= k => HeaderLen + 2 * j <= b[j] /\ b[j] <= Len(f) /\ b[j] \in Nat
  BY <1>0, ChainGrows
<1>3. ASSUME NEW i \in 1..k  PROVE f[b[i - 1] + 1].p \in Payloads
  <2>1. i - 1 \in Nat /\ i - 1 < k /\ i - 1 <= k
    BY <1>1
  <2>2. b[i - 1] \in Nat /\ HeaderLen + 2 * (i - 1) <= b[i - 1] /\ b[i - 1] < Len(f)
    BY <1>1, <1>2, <2>1
  <2>3. HeaderLen <= b[i - 1] /\ Len(f) \in Nat
    BY <1>0, <2>1, <2>2 DEF HeaderLen
  <2>4. b[i - 1] + 1 \in 1..Len(f) /\ b[i - 1] + 1 > HeaderLen
    BY <2>2, <2>3 DEF HeaderLen
  <2> QED
    BY <1>0, <2>4
<1> DEFINE s == Passed(f, b, 0, k)
<1>4. s = [i \in 1..k |-> f[b[i - 1] + 1].p]
  <2>1. k - 0 = k /\ \A i \in 1..k : 0 + i - 1 = i - 1
    BY <1>1
  <2> QED
    BY <2>1 DEF Passed
<1> HIDE DEF s
<1>5. s \in [1..k -> Payloads]
  BY <1>3, <1>4
<1>6. s \in Seq(Payloads) /\ Len(s) = k
  BY <1>1, <1>5, IsSequence
<1> QED
  BY <1>4, <1>6 DEF s

\* What History and the scan are, in terms of the longest chain.
LEMMA HistoryIs ==
  ASSUME NEW f \in Files, Len(f) >= HeaderLen, NEW b, NEW k, Chain(f, b, k), Ended(f, b, k)
  PROVE  /\ Scan(f).good = b[k]
         /\ Scan(f).records = History(f)
         /\ History(f) = Passed(f, b, 0, k)
         /\ History(f) \in Seq(Payloads)
         /\ Len(History(f)) = k
<1>0. f \in Seq(Cell)
  BY DEF Files
<1>1. Scan(f) = [good |-> b[k], records |-> Passed(f, b, 0, k)]
  BY <1>0, ScanIs
<1>2. ~(Len(f) < HeaderLen)
  BY <1>0 DEF HeaderLen
<1>3. History(f) = Passed(f, b, 0, k)
  BY <1>1, <1>2 DEF History
<1> QED
  BY <1>1, <1>3, PassedIs

\* A history is a sequence of what the callers appended.
LEMMA HistoryType ==
  ASSUME NEW f \in Files
  PROVE  History(f) \in Seq(Payloads) /\ Len(History(f)) \in Nat
<1>0. f \in Seq(Cell) /\ Len(f) \in Nat /\ HeaderLen \in Nat
  BY DEF Files, HeaderLen
<1>1. CASE Len(f) < HeaderLen
  BY <1>1 DEF History
<1>2. CASE Len(f) >= HeaderLen
  <2>1. PICK b, k : Chain(f, b, k) /\ Ended(f, b, k)
    BY <1>0, <1>2, ChainExists
  <2>2. History(f) \in Seq(Payloads)
    BY <1>2, <2>1, HistoryIs
  <2> QED
    BY <2>2
<1> QED
  BY <1>0, <1>1, <1>2

\* Truncation leaves a file of the journal's.
LEMMA TruncateFile ==
  ASSUME NEW f \in Files, NEW n \in Nat, n <= Len(f)
  PROVE  /\ Truncate(f, n) \in Files /\ Len(Truncate(f, n)) = n
         /\ \A x \in 1..n : Truncate(f, n)[x] = f[x]
<1>0. f \in Seq(Cell) /\ \A x \in 1..Len(f) : x > HeaderLen => f[x].p \in Payloads
  BY DEF Files
<1>1. /\ Truncate(f, n) \in Seq(Cell) /\ Len(Truncate(f, n)) = n
      /\ \A x \in 1..n : Truncate(f, n)[x] = f[x]
  BY <1>0, TruncateIs
<1>2. \A x \in 1..n : x \in 1..Len(f)
  BY <1>0
<1> QED
  BY <1>0, <1>1, <1>2 DEF Files

\* Truncation keeps the records that end before the cut, and what is left of the next one
\* is no record.
LEMMA TruncateChain ==
  ASSUME NEW f \in Seq(Cell), Len(f) >= HeaderLen, NEW b, NEW k, Chain(f, b, k), Ended(f, b, k),
         NEW n \in Nat, HeaderLen <= n, n <= Len(f)
  PROVE  \E j \in Nat : /\ j <= k /\ b[j] <= n /\ (j < k => n < b[j + 1])
                        /\ Chain(Truncate(f, n), b, j) /\ Ended(Truncate(f, n), b, j)
<1> DEFINE t == Truncate(f, n)
           J == {j \in 0..k : b[j] <= n}
<1>0. /\ t \in Seq(Cell) /\ Len(t) = n /\ \A x \in 1..n : t[x] = f[x]
  BY TruncateIs
<1> HIDE DEF t
<1>1. /\ k \in Nat /\ k <= MaxRecords /\ b \in [Nat -> Nat] /\ b[0] = HeaderLen
      /\ \A j \in Nat : j < k =>
           b[j] < Len(f) /\ Stopped(f, b[j], j) = {} /\ b[j + 1] = b[j] + f[b[j] + 1].len
  BY DEF Chain
<1>2. \A j \in Nat : j <= k => HeaderLen + 2 * j <= b[j] /\ b[j] <= Len(f) /\ b[j] \in Nat
  BY ChainGrows
<1>3. J \in SUBSET Nat /\ J # {} /\ IsFiniteSet(J)
  <2>1. 0 \in J
    BY <1>1
  <2>2. J \in SUBSET (0..k)
    OBVIOUS
  <2> HIDE DEF J
  <2>0. IsFiniteSet(0..k)
    BY <1>1, FS_Interval
  <2>3. IsFiniteSet(J)
    BY <2>0, <2>2, FS_Subset
  <2>4. J \subseteq Nat
    BY <1>1, <2>2
  <2> QED
    BY <2>1, <2>3, <2>4
<1>4. PICK j \in J : \A m \in J : m <= j
  <2> HIDE DEF J
  <2> QED
    BY <1>3, FiniteMaximum
<1>5. j \in Nat /\ j <= k /\ b[j] <= n /\ b[j] \in Nat /\ j + 1 \in Nat
  BY <1>1, <1>4
<1>6. j < k => n < b[j + 1]
  <2> SUFFICES ASSUME j < k, ~(n < b[j + 1])  PROVE FALSE
    OBVIOUS
  <2>1. b[j + 1] \in Nat /\ j + 1 \in 0..k
    BY <1>1, <1>5
  <2>2. b[j + 1] <= n
    BY <2>1
  <2> QED
    BY <1>4, <1>5, <2>1, <2>2
<1>7. Chain(f, b, j)
  BY <1>5, ChainPart
<1>8. Chain(t, b, j)
  <2>1. \A x \in 1..b[j] : t[x] = f[x]
    BY <1>0, <1>5
  <2> QED
    BY <1>0, <1>5, <1>7, <2>1, ChainAgrees
<1>9. Ended(t, b, j)
  <2> SUFFICES ASSUME b[j] # n, Stopped(t, b[j], j) = {}  PROVE FALSE
    BY <1>0 DEF Ended
  <2>1. b[j] < n /\ b[j] < Len(f) /\ HeaderLen <= b[j]
    <3>1. HeaderLen + 2 * j <= b[j] /\ HeaderLen \in Nat
      BY <1>2, <1>5 DEF HeaderLen
    <3>2. HeaderLen <= b[j]
      BY <1>5, <3>1
    <3> QED
      BY <1>5, <3>2
  <2>2. t[b[j] + 1] = f[b[j] + 1] /\ f[b[j] + 1] \in Cell
    BY <1>0, <1>5, <2>1
  <2>3. Fits(t, b[j])
    BY <1>5, PassedMeans
  <2>4. f[b[j] + 1].len \in Nat /\ b[j] + f[b[j] + 1].len <= n
    BY <1>0, <2>2, <2>3, CellFields DEF Fits
  <2>5. CASE j < k
    <3>1. b[j + 1] = b[j] + f[b[j] + 1].len
      BY <1>1, <1>5, <2>5
    <3>2. n < b[j + 1]
      BY <1>6, <2>5
    <3> QED
      BY <1>5, <2>4, <3>1, <3>2
  <2>6. CASE j = k
    <3>1. Stopped(f, b[j], j) # {}
      BY <1>5, <2>1, <2>6 DEF Ended
    <3>2. b[j] + f[b[j] + 1].len <= Len(f)
      BY <1>5, <2>4
    <3>3. \A x \in 1..(b[j] + f[b[j] + 1].len) : t[x] = f[x]
      BY <1>0, <1>5, <2>4
    <3>4. Stopped(f, b[j], j) = {} <=> Stopped(t, b[j], j) = {}
      BY <1>0, <1>5, <2>1, <2>4, <3>2, <3>3, StoppedAgrees
    <3> QED
      BY <3>1, <3>4
  <2> QED
    BY <1>1, <1>5, <2>5, <2>6
<1> QED
  BY <1>5, <1>6, <1>8, <1>9 DEF t

--------------------------------------------------------------------------------
\* s is the beginning of t.
Begins(s, t) == Len(s) <= Len(t) /\ s = SubSeq(t, 1, Len(s))

\* s begins t when they agree as far as s goes.
LEMMA BeginsMeans ==
  ASSUME NEW S, NEW s \in Seq(S), NEW t \in Seq(S)
  PROVE  Begins(s, t) <=> Len(s) <= Len(t) /\ \A i \in 1..Len(s) : s[i] = t[i]
<1>1. ASSUME Begins(s, t)  PROVE \A i \in 1..Len(s) : s[i] = t[i]
  BY <1>1 DEF Begins
<1>2. ASSUME Len(s) <= Len(t), \A i \in 1..Len(s) : s[i] = t[i]
      PROVE  s = SubSeq(t, 1, Len(s))
  <2> DEFINE u == SubSeq(t, 1, Len(s))
  <2>1. u \in Seq(S) /\ Len(u) = Len(s) /\ \A i \in 1..Len(s) : u[i] = t[i]
    BY <1>2
  <2> HIDE DEF u
  <2>2. s = u
    BY <1>2, <2>1, SeqEqual
  <2> QED
    BY <2>2 DEF u
<1> QED
  BY <1>1, <1>2 DEF Begins

\* Two sequences that begin each other are the same.
LEMMA BeginsBoth ==
  ASSUME NEW S, NEW s \in Seq(S), NEW t \in Seq(S), Begins(s, t), Begins(t, s)
  PROVE  s = t
BY BeginsMeans, SeqEqual

\* The beginning of a beginning is a beginning.
LEMMA BeginsTransitive ==
  ASSUME NEW S, NEW s \in Seq(S), NEW t \in Seq(S), NEW u \in Seq(S), Begins(s, t), Begins(t, u)
  PROVE  Begins(s, u)
<1>1. Len(s) <= Len(t) /\ Len(t) <= Len(u) /\ Len(s) \in Nat /\ Len(t) \in Nat /\ Len(u) \in Nat
  BY BeginsMeans
<1>2. \A i \in 1..Len(s) : s[i] = t[i]
  BY BeginsMeans
<1>3. \A i \in 1..Len(t) : t[i] = u[i]
  BY BeginsMeans
<1>4. \A i \in 1..Len(s) : s[i] = u[i] /\ Len(s) <= Len(u)
  BY <1>1, <1>2, <1>3
<1> QED
  BY <1>1, <1>4, BeginsMeans

\* The payloads of a chain that the truncated file has.
LEMMA PassedTruncate ==
  ASSUME NEW f \in Files, NEW n \in Nat, n <= Len(f), HeaderLen <= n,
         NEW b, NEW j, Chain(Truncate(f, n), b, j)
  PROVE  \A i \in 1..j : Passed(Truncate(f, n), b, 0, j)[i] = f[b[i - 1] + 1].p
<1> DEFINE t == Truncate(f, n)
<1>1. t \in Files /\ Len(t) = n /\ \A x \in 1..n : t[x] = f[x]
  BY TruncateFile
<1>2. Chain(t, b, j)
  OBVIOUS
<1> HIDE DEF t
<1>3. j \in Nat /\ b \in [Nat -> Nat] /\ \A m \in Nat : m < j => b[m] < n
  BY <1>1, <1>2 DEF Chain
<1>4. ASSUME NEW i \in 1..j  PROVE Passed(t, b, 0, j)[i] = f[b[i - 1] + 1].p
  <2>1. i - 1 \in Nat /\ i - 1 < j
    BY <1>3
  <2>2. b[i - 1] \in Nat /\ b[i - 1] < n
    BY <1>3, <2>1
  <2>3. t[b[i - 1] + 1] = f[b[i - 1] + 1]
    BY <1>1, <2>2
  <2>4. Passed(t, b, 0, j)[i] = t[b[i - 1] + 1].p
    BY <1>1, <1>2, PassedIs
  <2> QED
    BY <2>3, <2>4
<1> QED
  BY <1>4 DEF t

\* Truncating the file truncates its history.
LEMMA HistoryOfPrefix ==
  ASSUME NEW f \in Files, NEW n \in Nat, n <= Len(f)
  PROVE  Begins(History(Truncate(f, n)), History(f))
<1> DEFINE t == Truncate(f, n)
<1>0. /\ f \in Seq(Cell) /\ Len(f) \in Nat /\ HeaderLen \in Nat
      /\ t \in Files /\ Len(t) = n
  BY TruncateFile DEF Files, HeaderLen
<1>1. /\ History(t) \in Seq(Payloads) /\ Len(History(t)) \in Nat
      /\ History(f) \in Seq(Payloads) /\ Len(History(f)) \in Nat
  BY <1>0, HistoryType
<1>2. CASE n < HeaderLen
  <2> HIDE DEF t
  <2>1. History(t) = <<>>
    BY <1>0, <1>2 DEF History
  <2>2. Len(History(t)) = 0 /\ \A i \in 1..Len(History(t)) : History(t)[i] = History(f)[i]
    BY <2>1
  <2>3. Len(History(t)) <= Len(History(f))
    BY <1>1, <2>2
  <2>4. Begins(History(t), History(f))
    <3> DEFINE u == History(t)
               v == History(f)
    <3> HIDE DEF u, v
    <3>1. u \in Seq(Payloads) /\ v \in Seq(Payloads) /\ Len(u) <= Len(v) /\ \A i \in 1..Len(u) : u[i] = v[i]
      BY <1>1, <2>2, <2>3 DEF u, v
    <3>2. Begins(u, v)
      BY <3>1, BeginsMeans
    <3> QED
      BY <3>2 DEF u, v
  <2> QED
    BY <2>4 DEF t
<1>3. CASE HeaderLen <= n
  <2>1. PICK b, k : Chain(f, b, k) /\ Ended(f, b, k)
    BY <1>0, <1>3, ChainExists
  <2>2. PICK j \in Nat : j <= k /\ Chain(t, b, j) /\ Ended(t, b, j)
    BY <1>0, <1>3, <2>1, TruncateChain
  <2>3. /\ History(f) = Passed(f, b, 0, k) /\ Len(History(f)) = k
        /\ \A i \in 1..k : Passed(f, b, 0, k)[i] = f[b[i - 1] + 1].p
    BY <1>0, <1>3, <2>1, HistoryIs, PassedIs
  <2>4. /\ History(t) = Passed(t, b, 0, j) /\ Len(History(t)) = j
    BY <1>0, <1>3, <2>2, HistoryIs
  <2>5. \A i \in 1..j : Passed(t, b, 0, j)[i] = f[b[i - 1] + 1].p
    BY <1>3, <2>2, PassedTruncate
  <2> HIDE DEF t
  <2>6. Begins(History(t), History(f))
    <3>1. \A i \in 1..j : i \in 1..k
      BY <1>1, <2>2, <2>3
    <3>2. \A i \in 1..j : History(t)[i] = History(f)[i]
      BY <2>3, <2>4, <2>5, <3>1
    <3> QED
      BY <1>1, <2>2, <2>3, <2>4, <3>2, BeginsMeans
  <2> QED
    BY <2>6 DEF t
<1> QED
  BY <1>0, <1>2, <1>3

\* What a chain holds is the history of the file up to its end.
LEMMA HistoryAt ==
  ASSUME NEW f \in Files, Len(f) >= HeaderLen, NEW b, NEW j, Chain(f, b, j)
  PROVE  /\ b[j] \in Nat /\ HeaderLen <= b[j] /\ b[j] <= Len(f)
         /\ Chain(Truncate(f, b[j]), b, j)
         /\ History(Truncate(f, b[j])) = Passed(f, b, 0, j)
         /\ History(Truncate(f, b[j])) \in Seq(Payloads)
         /\ Len(History(Truncate(f, b[j]))) = j
         /\ Scan(Truncate(f, b[j])).good = b[j]
<1> DEFINE t == Truncate(f, b[j])
<1>0. f \in Seq(Cell) /\ HeaderLen \in Nat /\ Len(f) \in Nat /\ j \in Nat
  BY DEF Files, HeaderLen, Chain
<1>1. b[j] \in Nat /\ HeaderLen <= b[j] /\ b[j] <= Len(f)
  <2>1. HeaderLen + 2 * j <= b[j] /\ b[j] <= Len(f) /\ b[j] \in Nat
    BY <1>0, ChainGrows
  <2> QED
    BY <1>0, <2>1
<1>2. t \in Files /\ Len(t) = b[j] /\ \A x \in 1..b[j] : t[x] = f[x]
  BY <1>1, TruncateFile
<1>3. Chain(t, b, j)
  <2> HIDE DEF t
  <2>1. t \in Seq(Cell)
    BY <1>2 DEF Files
  <2> QED
    BY <1>0, <1>1, <1>2, <2>1, ChainAgrees
<1>4. Ended(t, b, j)
  BY <1>2 DEF Ended
<1>5. /\ Scan(t).good = b[j] /\ History(t) = Passed(t, b, 0, j)
      /\ History(t) \in Seq(Payloads) /\ Len(History(t)) = j
  <2> HIDE DEF t
  <2> QED
    BY <1>1, <1>2, <1>3, <1>4, HistoryIs
<1>6. \A i \in 1..j : Passed(t, b, 0, j)[i] = f[b[i - 1] + 1].p
  BY <1>1, <1>3, PassedTruncate
<1> HIDE DEF t
<1>7. /\ Passed(f, b, 0, j) \in Seq(Payloads) /\ Len(Passed(f, b, 0, j)) = j
      /\ \A i \in 1..j : Passed(f, b, 0, j)[i] = f[b[i - 1] + 1].p
  BY PassedIs
<1>8. History(t) = Passed(f, b, 0, j)
  <2>1. \A i \in 1..j : History(t)[i] = Passed(f, b, 0, j)[i]
    BY <1>5, <1>6, <1>7
  <2> QED
    BY <1>5, <1>7, <2>1, SeqEqual
<1> QED
  BY <1>1, <1>3, <1>5, <1>8 DEF t

\* Truncating the file where the scan ended keeps its history.
LEMMA GoodPrefix ==
  ASSUME NEW f \in Files, Len(f) >= HeaderLen
  PROVE  /\ Scan(f).good \in Nat /\ HeaderLen <= Scan(f).good /\ Scan(f).good <= Len(f)
         /\ History(Truncate(f, Scan(f).good)) = History(f)
<1>1. f \in Seq(Cell)
  BY DEF Files
<1>2. PICK b, k : Chain(f, b, k) /\ Ended(f, b, k)
  BY <1>1, ChainExists
<1> QED
  BY <1>2, HistoryIs, HistoryAt

--------------------------------------------------------------------------------
\* The cells of a record.
LEMMA RecordIs ==
  ASSUME NEW p \in Payloads, NEW s \in Nat
  PROVE  /\ Length[p] \in Nat /\ Length[p] >= 2
         /\ MakeRecord(p, s) \in Seq(Cell) /\ Len(MakeRecord(p, s)) = Length[p]
         /\ \A i \in 1..Length[p] :
              MakeRecord(p, s)[i] = [p |-> p, seq |-> s, len |-> Length[p], i |-> i]
<1> DEFINE r == MakeRecord(p, s)
<1>1. Length[p] \in Nat \ {0, 1}
  BY LengthAssumption
<1>2. r = [i \in 1..Length[p] |-> [p |-> p, seq |-> s, len |-> Length[p], i |-> i]]
  BY DEF MakeRecord, Cells
<1>3. \A i \in 1..Length[p] : [p |-> p, seq |-> s, len |-> Length[p], i |-> i] \in Cell
  BY <1>1 DEF Cell
<1> HIDE DEF r
<1>4. r \in [1..Length[p] -> Cell]
  BY <1>2, <1>3
<1>5. r \in Seq(Cell) /\ Len(r) = Length[p]
  BY <1>1, <1>4, IsSequence
<1> QED
  BY <1>1, <1>2, <1>5 DEF r

\* What a write of the first n cells of a record leaves in the file.
LEMMA WriteIs ==
  ASSUME NEW f \in Files, NEW at \in Nat, HeaderLen <= at, at <= Len(f),
         NEW p \in Payloads, NEW s \in Nat, NEW n \in 0..Length[p]
  PROVE  LET g == WriteAt(f, at, MakeRecord(p, s), n)
         IN  /\ g \in Files
             /\ Len(g) \in {Len(f), at + n} /\ Len(g) >= Len(f) /\ Len(g) >= at + n
             /\ \A x \in 1..Len(g) : x > at /\ x <= at + n =>
                  g[x] = [p |-> p, seq |-> s, len |-> Length[p], i |-> x - at]
             /\ \A x \in 1..Len(g) : ~(x > at /\ x <= at + n) => x <= Len(f) /\ g[x] = f[x]
<1> DEFINE g == WriteAt(f, at, MakeRecord(p, s), n)
           r == MakeRecord(p, s)
           N == Max({Len(f), at + n})
<1>0. /\ f \in Seq(Cell) /\ \A x \in 1..Len(f) : x > HeaderLen => f[x].p \in Payloads
      /\ Len(f) \in Nat /\ HeaderLen \in Nat
  BY DEF Files, HeaderLen
<1>1. /\ Length[p] \in Nat /\ r \in Seq(Cell) /\ Len(r) = Length[p]
      /\ \A i \in 1..Length[p] : r[i] = [p |-> p, seq |-> s, len |-> Length[p], i |-> i]
  BY RecordIs
<1> HIDE DEF r
<1>2. N \in {Len(f), at + n} /\ N >= Len(f) /\ N >= at + n
  BY <1>0, <1>1, TwoBounds
<1> HIDE DEF N
<1>3. g = [k \in 1..N |-> IF k > at /\ k <= at + n THEN r[k - at] ELSE f[k]]
  BY DEF WriteAt, N, r
<1> HIDE DEF g
<1>4. ASSUME NEW x \in 1..N, x > at, x <= at + n
      PROVE  /\ g[x] = [p |-> p, seq |-> s, len |-> Length[p], i |-> x - at]
             /\ g[x] \in Cell
  <2>1. x - at \in 1..Length[p]
    BY <1>1, <1>2, <1>4
  <2>2. g[x] = r[x - at]
    BY <1>3, <1>4
  <2> QED
    BY <1>1, <2>1, <2>2
<1>5. ASSUME NEW x \in 1..N, ~(x > at /\ x <= at + n)
      PROVE  x <= Len(f) /\ g[x] = f[x] /\ g[x] \in Cell
  <2>1. x \in 1..Len(f)
    BY <1>0, <1>2, <1>5
  <2>2. g[x] = f[x]
    BY <1>3, <1>5
  <2> QED
    BY <1>0, <2>1, <2>2
<1>6. g \in [1..N -> Cell]
  <2>1. \A x \in 1..N : g[x] \in Cell
    BY <1>4, <1>5
  <2> QED
    BY <1>3, <2>1
<1>7. N \in Nat
  BY <1>0, <1>1, <1>2
<1>8. g \in Seq(Cell) /\ Len(g) = N
  BY <1>6, <1>7, IsSequence
<1>9. ASSUME NEW x \in 1..N, x > HeaderLen  PROVE g[x].p \in Payloads
  <2>1. CASE x > at /\ x <= at + n
    <3>1. g[x] = [p |-> p, seq |-> s, len |-> Length[p], i |-> x - at]
      BY <1>4, <2>1
    <3> QED
      BY <3>1
  <2>2. CASE ~(x > at /\ x <= at + n)
    <3>1. x <= Len(f) /\ g[x] = f[x]
      BY <1>5, <2>2
    <3>2. x \in 1..Len(f)
      BY <1>0, <3>1
    <3> QED
      BY <1>0, <1>9, <3>1, <3>2
  <2> QED
    BY <2>1, <2>2
<1>10. g \in Files
  BY <1>8, <1>9 DEF Files
<1> QED
  BY <1>2, <1>4, <1>5, <1>8, <1>10 DEF g

\* It leaves what is before it alone.
LEMMA WriteKeeps ==
  ASSUME NEW f \in Files, NEW at \in Nat, HeaderLen <= at, at <= Len(f),
         NEW p \in Payloads, NEW s \in Nat, NEW n \in 0..Length[p], NEW m \in Nat, m <= at
  PROVE  LET g == WriteAt(f, at, MakeRecord(p, s), n)
         IN  /\ \A x \in 1..at : g[x] = f[x]
             /\ Truncate(g, m) = Truncate(f, m)
<1> DEFINE g == WriteAt(f, at, MakeRecord(p, s), n)
<1>0. Len(f) \in Nat /\ f \in Seq(Cell)
  BY DEF Files
<1>1. /\ g \in Files /\ Len(g) >= Len(f) /\ Len(g) \in Nat
      /\ \A x \in 1..Len(g) : ~(x > at /\ x <= at + n) => x <= Len(f) /\ g[x] = f[x]
  <2>1. g \in Files /\ Len(g) >= Len(f)
        /\ \A x \in 1..Len(g) : ~(x > at /\ x <= at + n) => x <= Len(f) /\ g[x] = f[x]
    BY WriteIs
  <2> HIDE DEF g
  <2> QED
    BY <2>1 DEF Files
<1> HIDE DEF g
<1>2. \A x \in 1..at : x \in 1..Len(g) /\ ~(x > at /\ x <= at + n)
  BY <1>0, <1>1
<1>3. \A x \in 1..at : g[x] = f[x]
  BY <1>1, <1>2
<1>4. m <= Len(f) /\ m <= Len(g)
  BY <1>0, <1>1
<1>5. /\ Truncate(f, m) \in Files /\ Len(Truncate(f, m)) = m
      /\ \A x \in 1..m : Truncate(f, m)[x] = f[x]
  BY <1>4, TruncateFile
<1>6. /\ Truncate(g, m) \in Files /\ Len(Truncate(g, m)) = m
      /\ \A x \in 1..m : Truncate(g, m)[x] = g[x]
  BY <1>1, <1>4, TruncateFile
<1>7. Truncate(f, m) \in Seq(Cell) /\ Truncate(g, m) \in Seq(Cell)
  BY <1>5, <1>6 DEF Files
<1>8. \A x \in 1..m : Truncate(g, m)[x] = Truncate(f, m)[x]
  BY <1>3, <1>5, <1>6
<1>9. Truncate(g, m) = Truncate(f, m)
  BY <1>5, <1>6, <1>7, <1>8, SeqEqual
<1> QED
  BY <1>3, <1>9 DEF g

\* No record starts behind the cell at offset s.
NoneAfter(f, s) == \A x \in 1..Len(f) : x > s + 1 => f[x].i # 1

\* One record more than a chain has.
LEMMA PassedExtends ==
  ASSUME NEW f \in Files, Len(f) >= HeaderLen, NEW b, NEW j, Chain(f, b, j),
         NEW c, Chain(f, c, j + 1), \A i \in Nat : i <= j => c[i] = b[i]
  PROVE  /\ f[b[j] + 1].p \in Payloads
         /\ Passed(f, c, 0, j + 1) = Append(Passed(f, b, 0, j), f[b[j] + 1].p)
<1> DEFINE u == Passed(f, c, 0, j + 1)
           v == Passed(f, b, 0, j)
           x == f[b[j] + 1].p
<1>0. j \in Nat
  BY DEF Chain
<1>1. u \in Seq(Payloads) /\ Len(u) = j + 1 /\ \A i \in 1..(j + 1) : u[i] = f[c[i - 1] + 1].p
  BY PassedIs
<1>2. v \in Seq(Payloads) /\ Len(v) = j /\ \A i \in 1..j : v[i] = f[b[i - 1] + 1].p
  BY PassedIs
<1> HIDE DEF u, v
<1>3. u[j + 1] = x /\ x \in Payloads
  <2>1. j + 1 \in 1..(j + 1) /\ (j + 1) - 1 = j /\ c[j] = b[j]
    BY <1>0
  <2>2. u[j + 1] = f[b[j] + 1].p
    BY <1>1, <2>1
  <2>3. u[j + 1] \in Payloads
    BY <1>0, <1>1, <2>1
  <2> QED
    BY <2>2, <2>3
<1> HIDE DEF x
<1>4. \A i \in 1..j : u[i] = v[i]
  <2> TAKE i \in 1..j
  <2>1. i \in 1..(j + 1) /\ i - 1 \in Nat /\ i - 1 <= j
    BY <1>0
  <2>2. c[i - 1] = b[i - 1]
    BY <2>1
  <2> QED
    BY <1>1, <1>2, <2>1, <2>2
<1>5. /\ Append(v, x) \in Seq(Payloads) /\ Len(Append(v, x)) = j + 1
      /\ Append(v, x)[j + 1] = x /\ \A i \in 1..j : Append(v, x)[i] = v[i]
  BY <1>0, <1>2, <1>3
<1>6. \A i \in 1..(j + 1) : u[i] = Append(v, x)[i]
  <2> TAKE i \in 1..(j + 1)
  <2>1. i = j + 1 \/ i \in 1..j
    BY <1>0
  <2> QED
    BY <1>3, <1>4, <1>5, <2>1
<1>7. u = Append(v, x)
  <2> DEFINE w == Append(v, x)
  <2> HIDE DEF w
  <2>1. w \in Seq(Payloads) /\ Len(w) = j + 1 /\ \A i \in 1..(j + 1) : u[i] = w[i]
    BY <1>5, <1>6 DEF w
  <2>2. u = w
    BY <1>1, <2>1, SeqEqual
  <2> QED
    BY <2>2 DEF w
<1> QED
  BY <1>3, <1>7 DEF u, v, x

\* Behind a chain that nothing but the remains of a failed write follows there is one more
\* record at most.
LEMMA AfterBase ==
  ASSUME NEW f \in Files, Len(f) >= HeaderLen, NEW b, NEW j, Chain(f, b, j), NoneAfter(f, b[j])
  PROVE  \/ History(f) = Passed(f, b, 0, j)
         \/ \E p \in Payloads : History(f) = Append(Passed(f, b, 0, j), p)
<1>0. f \in Seq(Cell) /\ j \in Nat /\ HeaderLen \in Nat /\ Len(f) \in Nat
  BY DEF Files, Chain, HeaderLen
<1>1. b[j] \in Nat /\ HeaderLen <= b[j] /\ b[j] <= Len(f)
  BY HistoryAt
<1>2. CASE Ended(f, b, j)
  BY <1>2, HistoryIs
<1>3. CASE ~Ended(f, b, j)
  <2>1. b[j] < Len(f) /\ Stopped(f, b[j], j) = {}
    BY <1>0, <1>1, <1>3 DEF Ended
  <2>2. PICK c : /\ Chain(f, c, j + 1)
                 /\ c[j + 1] = b[j] + f[b[j] + 1].len
                 /\ \A i \in Nat : i <= j => c[i] = b[i]
    BY <1>0, <2>1, ChainExtends
  <2>3. f[b[j] + 1] \in Cell
    BY <1>0, <1>1, <2>1
  <2>4. f[b[j] + 1].len \in Nat /\ f[b[j] + 1].len >= 2
    BY <2>3, CellFields
  <2>5. c[j + 1] \in Nat /\ c[j + 1] <= Len(f)
    BY <2>2, HistoryAt
  <2>6. Ended(f, c, j + 1)
    <3> SUFFICES ASSUME c[j + 1] # Len(f)  PROVE Stopped(f, c[j + 1], j + 1) # {}
      BY DEF Ended
    <3>1. c[j + 1] + 1 \in 1..Len(f) /\ c[j + 1] + 1 > b[j] + 1
      BY <1>0, <1>1, <2>2, <2>4, <2>5
    <3>2. f[c[j + 1] + 1].i # 1
      BY <3>1 DEF NoneAfter
    <3>3. ~StartsRecord(f, c[j + 1])
      BY <3>2 DEF StartsRecord
    <3> QED
      BY <3>3 DEF Stopped
  <2>7. History(f) = Passed(f, c, 0, j + 1)
    BY <2>2, <2>6, HistoryIs
  <2>8. /\ f[b[j] + 1].p \in Payloads
        /\ Passed(f, c, 0, j + 1) = Append(Passed(f, b, 0, j), f[b[j] + 1].p)
    BY <2>2, PassedExtends
  <2> QED
    BY <2>7, <2>8
<1> QED
  BY <1>2, <1>3

\* g is f with a record of p behind its first j records; c is the chain with it.
Appended(f, b, j, p, g, c) ==
  LET e == b[j] + Length[p]
  IN  /\ Chain(g, c, j + 1) /\ c[j + 1] = e
      /\ PreviousSeq(g, e) = PreviousSeq(f, b[j]) + 1
      /\ NoneAfter(g, e)
      /\ g \in Files /\ Len(g) >= e /\ Len(g) >= Len(f) /\ (b[j] = Len(f) => Len(g) = e)
      /\ History(g) = Append(Passed(f, b, 0, j), p)
      /\ History(Truncate(g, e)) = Append(Passed(f, b, 0, j), p)

\* A record that is written as a whole behind a chain extends it.
LEMMA AppendedIs ==
  ASSUME NEW f \in Files, Len(f) >= HeaderLen, NEW b, NEW j, Chain(f, b, j), j < MaxRecords,
         NoneAfter(f, b[j]), NEW p \in Payloads, NEW g,
         g = WriteAt(f, b[j], MakeRecord(p, PreviousSeq(f, b[j]) + 1), Length[p])
  PROVE  \E c : Appended(f, b, j, p, g, c)
<1> DEFINE s == b[j]
           q == PreviousSeq(f, s) + 1
           e == s + Length[p]
<1>0. f \in Seq(Cell) /\ j \in Nat /\ HeaderLen \in Nat /\ Len(f) \in Nat
  BY DEF Files, Chain, HeaderLen
<1>1. s \in Nat /\ HeaderLen <= s /\ s <= Len(f)
  BY HistoryAt
<1>2. PreviousSeq(f, s) \in Nat
  <2>1. CASE s = HeaderLen
    BY <2>1 DEF PreviousSeq
  <2>2. CASE s # HeaderLen
    <3>1. f[s] \in Cell
      BY <1>0, <1>1, <2>2 DEF HeaderLen
    <3> QED
      BY <2>2, <3>1, CellFields DEF PreviousSeq
  <2> QED
    BY <2>1, <2>2
<1>3. q \in Nat /\ q > PreviousSeq(f, s)
  BY <1>2
<1>4. Length[p] \in Nat /\ Length[p] >= 2
  BY RecordIs
<1>5. g = WriteAt(f, s, MakeRecord(p, q), Length[p])
  OBVIOUS
<1> HIDE DEF s, q
<1>6. /\ g \in Files
      /\ Len(g) \in {Len(f), e} /\ Len(g) >= Len(f) /\ Len(g) >= e
      /\ \A x \in 1..Len(g) : x > s /\ x <= e =>
           g[x] = [p |-> p, seq |-> q, len |-> Length[p], i |-> x - s]
      /\ \A x \in 1..Len(g) : ~(x > s /\ x <= e) => x <= Len(f) /\ g[x] = f[x]
  BY <1>1, <1>3, <1>4, <1>5, WriteIs
<1>7. \A x \in 1..s : g[x] = f[x]
  BY <1>1, <1>3, <1>4, <1>5, WriteKeeps
<1>8. g \in Seq(Cell) /\ Len(g) \in Nat
  BY <1>6 DEF Files
<1>9. Chain(g, b, j)
  <2>1. b[j] <= Len(g)
    BY <1>0, <1>1, <1>6, <1>8 DEF s
  <2>2. \A x \in 1..b[j] : g[x] = f[x]
    BY <1>7 DEF s
  <2> QED
    BY <1>0, <1>8, <2>1, <2>2, ChainAgrees
<1>10. \A i \in 1..Length[p] : g[s + i] = [p |-> p, seq |-> q, len |-> Length[p], i |-> i]
  <2> TAKE i \in 1..Length[p]
  <2>1. s + i \in 1..Len(g) /\ s + i > s /\ s + i <= e /\ (s + i) - s = i
    BY <1>1, <1>4, <1>6, <1>8
  <2> QED
    BY <1>6, <2>1
<1>11. g[s + 1] = [p |-> p, seq |-> q, len |-> Length[p], i |-> 1]
  BY <1>4, <1>10
<1>12. g[s + 1].p = p /\ g[s + 1].seq = q /\ g[s + 1].len = Length[p] /\ g[s + 1].i = 1
  BY <1>11
<1>13. Stopped(g, s, j) = {}
  <2>1. StartsRecord(g, s)
    BY <1>12 DEF StartsRecord
  <2>2. Fits(g, s)
    BY <1>6, <1>12 DEF Fits
  <2>3. Verified(g, s)
    <3>1. \A i \in 1..Length[p] : g[s + i] = [g[s + 1] EXCEPT !.i = i]
      BY <1>10, <1>11
    <3> QED
      BY <1>12, <3>1 DEF Verified
  <2>4. PreviousSeq(g, s) = PreviousSeq(f, s)
    <3>1. s \in 1..s
      BY <1>1 DEF HeaderLen
    <3> QED
      BY <1>7, <3>1 DEF PreviousSeq
  <2>5. ~(g[s + 1].seq <= PreviousSeq(g, s))
    BY <1>2, <1>3, <1>12, <2>4
  <2> QED
    BY <1>0, <2>1, <2>2, <2>3, <2>5, PassedMeans
<1>14. PICK c : /\ Chain(g, c, j + 1) /\ c[j + 1] = e /\ \A i \in Nat : i <= j => c[i] = b[i]
  <2>1. b[j] < Len(g) /\ Stopped(g, b[j], j) = {} /\ b[j] + g[b[j] + 1].len = e
    BY <1>1, <1>4, <1>6, <1>8, <1>12, <1>13 DEF s
  <2> QED
    BY <1>8, <1>9, <2>1, ChainExtends
<1>15. PreviousSeq(g, e) = q
  <2>1. e # HeaderLen
    BY <1>1, <1>4 DEF HeaderLen
  <2>2. g[e].seq = q
    <3>1. Length[p] \in 1..Length[p]
      BY <1>4
    <3>2. g[s + Length[p]] = [p |-> p, seq |-> q, len |-> Length[p], i |-> Length[p]]
      BY <1>10, <3>1
    <3> QED
      BY <3>2
  <2> QED
    BY <2>1, <2>2 DEF PreviousSeq
<1>16. ASSUME NEW x \in 1..Len(g), x > e  PROVE g[x].i # 1
  <2>1. x <= Len(f) /\ g[x] = f[x]
    BY <1>1, <1>4, <1>6, <1>8, <1>16
  <2>2. x \in 1..Len(f) /\ x > s + 1
    BY <1>0, <1>1, <1>4, <1>8, <1>16, <2>1
  <2>3. f[x].i # 1
    BY <2>2 DEF NoneAfter, s
  <2> QED
    BY <2>1, <2>3
<1>17. NoneAfter(g, e)
  <2>1. \A x \in 1..Len(g) : x > e + 1 => x > e
    BY <1>1, <1>4, <1>8
  <2> QED
    BY <1>16, <2>1 DEF NoneAfter
<1>18. Ended(g, c, j + 1)
  <2> SUFFICES ASSUME e # Len(g)  PROVE Stopped(g, e, j + 1) # {}
    BY <1>14 DEF Ended
  <2>1. e + 1 \in 1..Len(g) /\ e + 1 > e
    BY <1>1, <1>4, <1>6, <1>8
  <2>2. ~StartsRecord(g, e)
    BY <1>16, <2>1 DEF StartsRecord
  <2> QED
    BY <2>2 DEF Stopped
<1>19. Len(g) >= HeaderLen
  BY <1>0, <1>6, <1>8
<1>20. Passed(g, c, 0, j + 1) = Append(Passed(g, b, 0, j), p)
  <2>1. Passed(g, c, 0, j + 1) = Append(Passed(g, b, 0, j), g[b[j] + 1].p)
    BY <1>6, <1>9, <1>14, <1>19, PassedExtends
  <2> QED
    BY <1>12, <2>1 DEF s
<1>21. Passed(g, b, 0, j) = Passed(f, b, 0, j)
  <2>1. History(Truncate(f, b[j])) = Passed(f, b, 0, j)
    BY HistoryAt
  <2>2. History(Truncate(g, b[j])) = Passed(g, b, 0, j)
    BY <1>6, <1>9, <1>19, HistoryAt
  <2>3. Truncate(g, s) = Truncate(f, s)
    <3>1. Length[p] \in 0..Length[p] /\ s <= s
      BY <1>1, <1>4
    <3> QED
      BY <1>1, <1>3, <1>5, <3>1, WriteKeeps
  <2> QED
    BY <2>1, <2>2, <2>3 DEF s
<1>22. History(g) = Passed(g, c, 0, j + 1)
  BY <1>6, <1>14, <1>18, <1>19, HistoryIs
<1>23. History(Truncate(g, e)) = Passed(g, c, 0, j + 1)
  BY <1>6, <1>14, <1>19, HistoryAt
<1>24. s = Len(f) => Len(g) = e
  BY <1>0, <1>1, <1>4, <1>6, <1>8
<1>25. /\ Chain(g, c, j + 1) /\ c[j + 1] = e
       /\ PreviousSeq(g, e) = q
       /\ NoneAfter(g, e)
       /\ g \in Files /\ Len(g) >= e /\ Len(g) >= Len(f) /\ (s = Len(f) => Len(g) = e)
       /\ History(g) = Append(Passed(f, b, 0, j), p)
       /\ History(Truncate(g, e)) = Append(Passed(f, b, 0, j), p)
  BY <1>6, <1>14, <1>15, <1>17, <1>20, <1>21, <1>22, <1>23, <1>24
<1>26. Appended(f, b, j, p, g, c)
  BY <1>25 DEF s, q, Appended
<1> QED
  BY <1>26

--------------------------------------------------------------------------------
\* A file with nothing but the header holds no records.
LEMMA HeaderIs ==
  /\ MakeHeader \in Files /\ Len(MakeHeader) = HeaderLen /\ HeaderLen \in Nat
  /\ History(MakeHeader) = <<>>
  /\ \E b : Chain(MakeHeader, b, 0) /\ b[0] = HeaderLen
  /\ PreviousSeq(MakeHeader, HeaderLen) = 0
<1> DEFINE h == MakeHeader
<1>0. HeaderLen = 2
  BY DEF HeaderLen
<1>1. h = [i \in 1..2 |-> [p |-> "header", seq |-> 0, len |-> 2, i |-> i]]
  BY <1>0 DEF MakeHeader, Cells
<1>2. \A i \in 1..2 : [p |-> "header", seq |-> 0, len |-> 2, i |-> i] \in Cell
  BY DEF Cell
<1> HIDE DEF h
<1>3. h \in [1..2 -> Cell]
  BY <1>1, <1>2
<1>4. h \in Seq(Cell) /\ Len(h) = 2
  BY <1>3, IsSequence
<1>5. h \in Files
  <2>1. \A x \in 1..Len(h) : ~(x > HeaderLen)
    BY <1>0, <1>4
  <2> QED
    BY <1>4, <2>1 DEF Files
<1> DEFINE b == [i \in Nat |-> HeaderLen]
<1>6. Chain(h, b, 0) /\ b[0] = HeaderLen
  BY <1>0, BoundsAssumption DEF Chain
<1>7. Ended(h, b, 0)
  BY <1>0, <1>4 DEF Ended
<1> HIDE DEF b
<1>8. History(h) \in Seq(Payloads) /\ Len(History(h)) = 0
  BY <1>0, <1>4, <1>5, <1>6, <1>7, HistoryIs
<1>9. History(h) = <<>>
  BY <1>8
<1>10. PreviousSeq(h, HeaderLen) = 0
  BY DEF PreviousSeq
<1> QED
  BY <1>0, <1>4, <1>5, <1>6, <1>9, <1>10 DEF h

\* A write at the end is a concatenation.
LEMMA WriteAtEnd ==
  ASSUME NEW f \in Files, Len(f) >= HeaderLen, NEW p \in Payloads, NEW s \in Nat
  PROVE  WriteAt(f, Len(f), MakeRecord(p, s), Length[p]) = f \o MakeRecord(p, s)
<1> DEFINE g == WriteAt(f, Len(f), MakeRecord(p, s), Length[p])
           r == MakeRecord(p, s)
           h == f \o r
<1>0. f \in Seq(Cell) /\ Len(f) \in Nat /\ HeaderLen \in Nat
  BY DEF Files, HeaderLen
<1>1. /\ Length[p] \in Nat /\ r \in Seq(Cell) /\ Len(r) = Length[p]
      /\ \A i \in 1..Length[p] : r[i] = [p |-> p, seq |-> s, len |-> Length[p], i |-> i]
  BY RecordIs
<1> HIDE DEF r
<1>2. /\ h \in Seq(Cell) /\ Len(h) = Len(f) + Length[p]
      /\ \A x \in 1..Len(f) : h[x] = f[x]
      /\ \A i \in 1..Length[p] : h[Len(f) + i] = r[i]
  BY <1>0, <1>1
<1>3. /\ g \in Files
      /\ Len(g) \in {Len(f), Len(f) + Length[p]} /\ Len(g) >= Len(f) + Length[p]
      /\ \A x \in 1..Len(g) : x > Len(f) /\ x <= Len(f) + Length[p] =>
           g[x] = [p |-> p, seq |-> s, len |-> Length[p], i |-> x - Len(f)]
      /\ \A x \in 1..Len(g) : ~(x > Len(f) /\ x <= Len(f) + Length[p]) => x <= Len(f) /\ g[x] = f[x]
  <2>1. Length[p] \in 0..Length[p] /\ Len(f) <= Len(f) /\ HeaderLen <= Len(f)
    BY <1>0, <1>1
  <2> DEFINE at == Len(f)
             n == Length[p]
  <2>2. at \in Nat /\ HeaderLen <= at /\ at <= Len(f) /\ n \in 0..Length[p]
    BY <1>0, <2>1
  <2> HIDE DEF at, n, g
  <2>3. g = WriteAt(f, at, MakeRecord(p, s), n)
    BY DEF at, n, g
  <2>4. /\ g \in Files
        /\ Len(g) \in {Len(f), at + n} /\ Len(g) >= at + n
        /\ \A x \in 1..Len(g) : x > at /\ x <= at + n =>
             g[x] = [p |-> p, seq |-> s, len |-> Length[p], i |-> x - at]
        /\ \A x \in 1..Len(g) : ~(x > at /\ x <= at + n) => x <= Len(f) /\ g[x] = f[x]
    BY <2>2, <2>3, WriteIs
  <2> QED
    BY <2>4 DEF at, n
<1> HIDE DEF g, h
<1>4. g \in Seq(Cell) /\ Len(g) = Len(f) + Length[p]
  BY <1>0, <1>1, <1>3 DEF Files
<1>5. ASSUME NEW x \in 1..Len(g)  PROVE g[x] = h[x]
  <2>1. CASE x <= Len(f)
    <3>1. x \in 1..Len(f) /\ ~(x > Len(f) /\ x <= Len(f) + Length[p])
      BY <1>0, <2>1
    <3> QED
      BY <1>2, <1>3, <3>1
  <2>2. CASE x > Len(f)
    <3>1. x - Len(f) \in 1..Length[p] /\ Len(f) + (x - Len(f)) = x /\ x <= Len(f) + Length[p]
      BY <1>0, <1>1, <1>4, <2>2
    <3>2. h[x] = r[x - Len(f)]
      BY <1>2, <3>1
    <3>3. r[x - Len(f)] = [p |-> p, seq |-> s, len |-> Length[p], i |-> x - Len(f)]
      BY <1>1, <3>1
    <3>4. g[x] = [p |-> p, seq |-> s, len |-> Length[p], i |-> x - Len(f)]
      BY <1>3, <2>2, <3>1
    <3> QED
      BY <3>2, <3>3, <3>4
  <2> QED
    BY <1>0, <2>1, <2>2
<1>6. g = h
  BY <1>2, <1>4, <1>5, SeqEqual
<1> QED
  BY <1>6 DEF g, h, r

\* The image of a compaction, record by record.
LEMMA CompactedIsImage ==
  ASSUME NEW records \in Seq(Payloads)
  PROVE  \E im : /\ im[0] = MakeHeader
                 /\ \A n \in Nat : n < Len(records) =>
                      im[n + 1] = im[n] \o MakeRecord(records[n + 1], n + 1)
                 /\ Compacted(records) = im[Len(records)]
<1> DEFINE N == Len(records)
           Fn(g, n) == g = [k \in 0..n |-> IF k = 0 THEN MakeHeader
                                           ELSE g[k - 1] \o MakeRecord(records[k], k)]
           S == {n \in Nat : \E g : Fn(g, n)}
           f == CHOOSE g : Fn(g, N)
<1>0. N \in Nat
  OBVIOUS
<1>1. Compacted(records) = f[N]
  BY DEF Compacted
<1>2. 0 \in S
  <2>1. Fn([k \in 0..0 |-> MakeHeader], 0)
    OBVIOUS
  <2> QED
    BY <2>1
<1>3. ASSUME NEW n \in Nat, n \in S  PROVE n + 1 \in S
  <2>1. PICK g : Fn(g, n)
    BY <1>3
  <2> DEFINE h == [k \in 0..(n + 1) |-> IF k = n + 1 THEN g[n] \o MakeRecord(records[n + 1], n + 1)
                                        ELSE g[k]]
  <2>2. \A k \in 0..n : g[k] = IF k = 0 THEN MakeHeader ELSE g[k - 1] \o MakeRecord(records[k], k)
    BY <2>1
  <2>3. \A k \in 0..(n + 1) :
          h[k] = IF k = 0 THEN MakeHeader ELSE h[k - 1] \o MakeRecord(records[k], k)
    <3> HIDE DEF Fn
    <3> QED
      BY <2>2
  <2>4. Fn(h, n + 1)
    BY <2>3
  <2> HIDE DEF h, Fn
  <2> QED
    BY <2>4
<1>4. N \in S
  <2> HIDE DEF S, N
  <2> QED
    BY <1>0, <1>2, <1>3, SetInduction
<1>5. Fn(f, N)
  <2> HIDE DEF Fn
  <2> QED
    BY <1>4
<1>6. \A k \in 0..N : f[k] = IF k = 0 THEN MakeHeader ELSE f[k - 1] \o MakeRecord(records[k], k)
  <2> HIDE DEF f, N
  <2> QED
    BY <1>5
<1>7. f[0] = MakeHeader /\ \A n \in Nat : n < N => f[n + 1] = f[n] \o MakeRecord(records[n + 1], n + 1)
  <2> HIDE DEF f, N
  <2>1. f[0] = MakeHeader
    BY <1>0, <1>6
  <2>2. ASSUME NEW n \in Nat, n < N  PROVE f[n + 1] = f[n] \o MakeRecord(records[n + 1], n + 1)
    <3>1. n + 1 \in 0..N /\ n + 1 # 0 /\ (n + 1) - 1 = n
      BY <1>0, <2>2
    <3> QED
      BY <1>6, <3>1
  <2> QED
    BY <2>1, <2>2
<1> HIDE DEF f
<1> QED
  BY <1>1, <1>7

\* A compaction writes the records it is given, and nothing else, as a file the scan passes
\* to its end.
LEMMA CompactedIs ==
  ASSUME NEW records \in Seq(Payloads), Len(records) <= MaxRecords
  PROVE  LET f == Compacted(records)
         IN  /\ f \in Files /\ Len(f) >= HeaderLen
             /\ \E b : Chain(f, b, Len(records)) /\ b[Len(records)] = Len(f)
             /\ PreviousSeq(f, Len(f)) = Len(records)
             /\ History(f) = records
<1>1. PICK im : /\ im[0] = MakeHeader
                /\ \A n \in Nat : n < Len(records) =>
                     im[n + 1] = im[n] \o MakeRecord(records[n + 1], n + 1)
                /\ Compacted(records) = im[Len(records)]
  BY CompactedIsImage
<1> DEFINE N == Len(records)
           Good(n) == /\ im[n] \in Files /\ Len(im[n]) >= HeaderLen
                      /\ \E b : Chain(im[n], b, n) /\ b[n] = Len(im[n])
                      /\ PreviousSeq(im[n], Len(im[n])) = n
                      /\ History(im[n]) = SubSeq(records, 1, n)
           S == {n \in Nat : n <= N => Good(n)}
<1>0. N \in Nat
  OBVIOUS
<1>2. 0 \in S
  <2>1. SubSeq(records, 1, 0) = <<>>
    BY SubSeqEmpty
  <2>2. Good(0)
    BY <1>1, <2>1, HeaderIs
  <2> HIDE DEF Good
  <2> QED
    BY <2>2
<1>3. ASSUME NEW n \in Nat, n \in S  PROVE n + 1 \in S
  <2> SUFFICES ASSUME n + 1 <= N  PROVE Good(n + 1)
    OBVIOUS
  <2> DEFINE f == im[n]
             g == im[n + 1]
             p == records[n + 1]
  <2>1. n <= N /\ n < N /\ n + 1 \in 1..N /\ n < MaxRecords
    BY <1>0, BoundsAssumption
  <2>2. Good(n)
    BY <1>3, <2>1
  <2>3. p \in Payloads
    BY <2>1
  <2>4. g = f \o MakeRecord(p, n + 1)
    BY <1>1, <2>1
  <2> HIDE DEF f, g, p, N
  <2>5. PICK b : Chain(f, b, n) /\ b[n] = Len(f)
    BY <2>2 DEF f
  <2>6. /\ f \in Files /\ Len(f) >= HeaderLen /\ PreviousSeq(f, Len(f)) = n
        /\ History(f) = SubSeq(records, 1, n)
    BY <2>2 DEF f
  <2>7. g = WriteAt(f, b[n], MakeRecord(p, PreviousSeq(f, b[n]) + 1), Length[p])
    BY <2>3, <2>4, <2>5, <2>6, WriteAtEnd
  <2>8. NoneAfter(f, b[n])
    <3>1. Len(f) \in Nat
      BY <2>6 DEF Files
    <3> QED
      BY <2>5, <3>1 DEF NoneAfter
  <2> DEFINE e == b[n] + Length[p]
  <2>9. PICK c : Appended(f, b, n, p, g, c)
    BY <2>1, <2>3, <2>5, <2>6, <2>7, <2>8, AppendedIs
  <2>10. /\ Chain(g, c, n + 1) /\ c[n + 1] = e /\ PreviousSeq(g, e) = PreviousSeq(f, b[n]) + 1
         /\ g \in Files /\ Len(g) >= Len(f) /\ (b[n] = Len(f) => Len(g) = e)
         /\ History(g) = Append(Passed(f, b, 0, n), p)
    BY <2>9 DEF Appended
  <2> HIDE DEF e
  <2>11. Len(g) = e /\ Len(g) >= HeaderLen
    BY <2>5, <2>6, <2>10 DEF Files, HeaderLen
  <2>12. PreviousSeq(g, Len(g)) = n + 1
    BY <2>5, <2>6, <2>10, <2>11
  <2>13. Passed(f, b, 0, n) = History(f)
    <3>1. Ended(f, b, n)
      BY <2>5 DEF Ended
    <3> QED
      BY <2>5, <2>6, <3>1, HistoryIs
  <2>14. Append(SubSeq(records, 1, n), p) = SubSeq(records, 1, n + 1)
    <3> DEFINE u == Append(SubSeq(records, 1, n), p)
               v == SubSeq(records, 1, n + 1)
    <3>1. /\ u \in Seq(Payloads) /\ Len(u) = n + 1 /\ u[n + 1] = p
          /\ \A i \in 1..n : u[i] = records[i]
      BY <2>1, <2>3 DEF N
    <3>2. v \in Seq(Payloads) /\ Len(v) = n + 1 /\ \A i \in 1..(n + 1) : v[i] = records[i]
      BY <2>1 DEF N
    <3> HIDE DEF u, v
    <3>3. \A i \in 1..(n + 1) : u[i] = v[i]
      <4> TAKE i \in 1..(n + 1)
      <4>1. i = n + 1 \/ i \in 1..n
        OBVIOUS
      <4> QED
        BY <3>1, <3>2, <4>1 DEF p
    <3>4. u = v
      BY <3>1, <3>2, <3>3, SeqEqual
    <3> QED
      BY <3>4 DEF u, v
  <2>15. History(g) = SubSeq(records, 1, n + 1)
    BY <2>6, <2>10, <2>13, <2>14
  <2> QED
    BY <2>10, <2>11, <2>12, <2>15 DEF g
<1>4. N \in S
  <2> HIDE DEF S, N
  <2> QED
    BY <1>0, <1>2, <1>3, SetInduction
<1>5. Good(N)
  <2> HIDE DEF Good
  <2> QED
    BY <1>0, <1>4
<1>6. SubSeq(records, 1, N) = records
  BY SubSeqFull
<1> QED
  BY <1>1, <1>5, <1>6

--------------------------------------------------------------------------------
\* What is left of t behind s.
Rest(s, t) == SubSeq(t, Len(s) + 1, Len(t))

\* A sequence is its beginning and the rest.
LEMMA RestIs ==
  ASSUME NEW S, NEW s \in Seq(S), NEW t \in Seq(S), Begins(s, t)
  PROVE  /\ Rest(s, t) \in Seq(S) /\ Len(Rest(s, t)) = Len(t) - Len(s)
         /\ \A i \in 1..(Len(t) - Len(s)) : Rest(s, t)[i] = t[Len(s) + i]
         /\ s \o Rest(s, t) = t
<1> DEFINE r == Rest(s, t)
<1>1. Len(s) \in Nat /\ Len(t) \in Nat /\ Len(s) <= Len(t) /\ \A i \in 1..Len(s) : s[i] = t[i]
  BY BeginsMeans
<1>2. /\ r \in Seq(S) /\ Len(r) = Len(t) - Len(s)
      /\ \A i \in 1..(Len(t) - Len(s)) : r[i] = t[Len(s) + i]
  <2>1. SubSeq(t, Len(s) + 1, Len(t)) \in Seq(S)
    BY <1>1
  <2>2. Len(SubSeq(t, Len(s) + 1, Len(t))) = Len(t) - Len(s)
    BY <1>1
  <2>3. ASSUME NEW i \in 1..(Len(t) - Len(s))
        PROVE  SubSeq(t, Len(s) + 1, Len(t))[i] = t[Len(s) + i]
    BY <1>1
  <2> QED
    BY <2>1, <2>2, <2>3 DEF Rest
<1> HIDE DEF r
<1> DEFINE u == s \o r
<1>3. /\ u \in Seq(S) /\ Len(u) = Len(t)
      /\ \A i \in 1..Len(s) : u[i] = s[i]
      /\ \A i \in 1..Len(r) : u[Len(s) + i] = r[i]
  BY <1>1, <1>2
<1> HIDE DEF u
<1>4. ASSUME NEW i \in 1..Len(u)  PROVE u[i] = t[i]
  <2>1. CASE i <= Len(s)
    <3>1. i \in 1..Len(s)
      BY <1>1, <2>1
    <3> QED
      BY <1>1, <1>3, <3>1
  <2>2. CASE i > Len(s)
    <3>1. i - Len(s) \in 1..(Len(t) - Len(s)) /\ Len(s) + (i - Len(s)) = i
      BY <1>1, <1>3, <2>2
    <3>2. u[i] = r[i - Len(s)] /\ r[i - Len(s)] = t[i]
      BY <1>2, <1>3, <3>1
    <3> QED
      BY <3>2
  <2> QED
    BY <1>1, <2>1, <2>2
<1>5. u = t
  BY <1>3, <1>4, SeqEqual
<1> QED
  BY <1>2, <1>5 DEF r, u

\* Between two beginnings of one sequence lies a beginning of the rest.
LEMMA RestBegins ==
  ASSUME NEW S, NEW s \in Seq(S), NEW t \in Seq(S), NEW u \in Seq(S), Begins(s, t), Begins(t, u)
  PROVE  Rest(s, t) = SubSeq(Rest(s, u), 1, Len(t) - Len(s)) /\ Len(t) - Len(s) \in 0..Len(Rest(s, u))
<1>0. Begins(s, u)
  BY BeginsTransitive
<1>1. /\ Len(s) \in Nat /\ Len(t) \in Nat /\ Len(u) \in Nat
      /\ Len(s) <= Len(t) /\ Len(t) <= Len(u) /\ \A i \in 1..Len(t) : t[i] = u[i]
  BY BeginsMeans
<1> DEFINE r == Rest(s, t)
           q == Rest(s, u)
           n == Len(t) - Len(s)
<1>2. r \in Seq(S) /\ Len(r) = n /\ \A i \in 1..n : r[i] = t[Len(s) + i]
  BY RestIs
<1>3. q \in Seq(S) /\ Len(q) = Len(u) - Len(s) /\ \A i \in 1..(Len(u) - Len(s)) : q[i] = u[Len(s) + i]
  BY <1>0, RestIs
<1> HIDE DEF r, q
<1>4. n \in 0..Len(q)
  BY <1>1, <1>3
<1>5. /\ SubSeq(q, 1, n) \in Seq(S) /\ Len(SubSeq(q, 1, n)) = n
      /\ \A i \in 1..n : SubSeq(q, 1, n)[i] = q[i]
  <2> HIDE DEF n
  <2> QED
    BY <1>3, <1>4
<1>6. \A i \in 1..n : r[i] = SubSeq(q, 1, n)[i]
  <2> TAKE i \in 1..n
  <2>1. Len(s) + i \in 1..Len(t) /\ i \in 1..(Len(u) - Len(s))
    BY <1>1
  <2> QED
    BY <1>1, <1>2, <1>3, <1>5, <2>1
<1>7. r = SubSeq(q, 1, n)
  <2> DEFINE w == SubSeq(q, 1, n)
  <2>1. w \in Seq(S) /\ Len(w) = n /\ \A i \in 1..n : r[i] = w[i]
    BY <1>5, <1>6
  <2> HIDE DEF w, n
  <2>2. r = w
    BY <1>2, <2>1, SeqEqual
  <2> QED
    BY <2>2 DEF w
<1> QED
  BY <1>4, <1>7 DEF r, q

\* The rest behind a longer beginning is the end of the rest behind a shorter one.
LEMMA RestOfRest ==
  ASSUME NEW S, NEW s \in Seq(S), NEW t \in Seq(S), NEW u \in Seq(S), Begins(s, t), Begins(t, u)
  PROVE  LET n == Len(t) - Len(s)
         IN  n \in Nat /\ Rest(t, u) = SubSeq(Rest(s, u), n + 1, Len(Rest(s, u)))
<1>0. Begins(s, u)
  BY BeginsTransitive
<1>1. /\ Len(s) \in Nat /\ Len(t) \in Nat /\ Len(u) \in Nat
      /\ Len(s) <= Len(t) /\ Len(t) <= Len(u)
  BY BeginsMeans
<1> DEFINE r == Rest(t, u)
           q == Rest(s, u)
           n == Len(t) - Len(s)
<1>2. r \in Seq(S) /\ Len(r) = Len(u) - Len(t) /\ \A i \in 1..(Len(u) - Len(t)) : r[i] = u[Len(t) + i]
  BY RestIs
<1>3. q \in Seq(S) /\ Len(q) = Len(u) - Len(s) /\ \A i \in 1..(Len(u) - Len(s)) : q[i] = u[Len(s) + i]
  BY <1>0, RestIs
<1> HIDE DEF r, q
<1>4. n \in Nat /\ n + 1 \in 1..(Len(q) + 1) /\ Len(q) \in Nat /\ Len(q) - (n + 1) + 1 = Len(r)
  BY <1>1, <1>2, <1>3
<1> DEFINE w == SubSeq(q, n + 1, Len(q))
<1>5. w \in Seq(S) /\ Len(w) = Len(r) /\ \A i \in 1..Len(r) : w[i] = q[(n + 1) + i - 1]
  <2> HIDE DEF n
  <2>1. w \in Seq(S)
    BY <1>3, <1>4
  <2>2. Len(w) = Len(r)
    <3>1. CASE n + 1 <= Len(q)
      <4>1. Len(w) = Len(q) - (n + 1) + 1
        BY <1>3, <1>4, <3>1
      <4> QED
        BY <1>4, <4>1
    <3>2. CASE n + 1 > Len(q)
      <4>1. Len(w) = 0 /\ Len(r) = 0
        BY <1>3, <1>4, <3>2
      <4> QED
        BY <4>1
    <3> QED
      BY <1>4, <3>1, <3>2
  <2>3. ASSUME NEW i \in 1..Len(r)  PROVE w[i] = q[(n + 1) + i - 1]
    BY <1>3, <1>4
  <2> QED
    BY <2>1, <2>2, <2>3
<1> HIDE DEF w
<1>6. ASSUME NEW i \in 1..Len(r)  PROVE w[i] = r[i]
  <2>1. /\ (n + 1) + i - 1 \in 1..(Len(u) - Len(s)) /\ Len(s) + ((n + 1) + i - 1) = Len(t) + i
        /\ i \in 1..(Len(u) - Len(t))
    BY <1>1, <1>2
  <2>2. q[(n + 1) + i - 1] = u[Len(t) + i]
    BY <1>3, <2>1
  <2>3. r[i] = u[Len(t) + i]
    BY <1>2, <2>1
  <2> QED
    BY <1>5, <2>2, <2>3
<1>7. w = r
  BY <1>2, <1>5, <1>6, SeqEqual
<1> QED
  BY <1>4, <1>7 DEF w, r, q

\* A record appended to a sequence is appended to its rest.
LEMMA RestOfAppend ==
  ASSUME NEW S, NEW s \in Seq(S), NEW t \in Seq(S), Begins(s, t), NEW p \in S
  PROVE  Rest(s, Append(t, p)) = Append(Rest(s, t), p) /\ Begins(s, Append(t, p))
<1> DEFINE u == Append(t, p)
<1>1. Len(s) \in Nat /\ Len(t) \in Nat /\ Len(s) <= Len(t) /\ \A i \in 1..Len(s) : s[i] = t[i]
  BY BeginsMeans
<1>2. u \in Seq(S) /\ Len(u) = Len(t) + 1 /\ u[Len(t) + 1] = p /\ \A i \in 1..Len(t) : u[i] = t[i]
  OBVIOUS
<1> HIDE DEF u
<1>3. Begins(s, u)
  <2>1. Len(s) <= Len(u) /\ \A i \in 1..Len(s) : s[i] = u[i]
    BY <1>1, <1>2
  <2> QED
    BY <1>2, <2>1, BeginsMeans
<1> DEFINE r == Rest(s, t)
           q == Rest(s, u)
           w == Append(r, p)
           n == Len(t) - Len(s)
<1>4. r \in Seq(S) /\ Len(r) = n /\ \A i \in 1..n : r[i] = t[Len(s) + i]
  BY RestIs
<1>5. q \in Seq(S) /\ Len(q) = Len(u) - Len(s) /\ \A i \in 1..(Len(u) - Len(s)) : q[i] = u[Len(s) + i]
  BY <1>2, <1>3, RestIs
<1> HIDE DEF r, q
<1>6. w \in Seq(S) /\ Len(w) = n + 1 /\ w[n + 1] = p /\ \A i \in 1..n : w[i] = r[i]
  BY <1>1, <1>4
<1> HIDE DEF w
<1>7. Len(q) = n + 1 /\ n \in Nat
  BY <1>1, <1>2, <1>5
<1>8. ASSUME NEW i \in 1..(n + 1)  PROVE q[i] = w[i]
  <2>0. i \in 1..(Len(u) - Len(s)) /\ (i = n + 1 \/ i \in 1..n)
    BY <1>1, <1>2
  <2>1. CASE i = n + 1
    <3>1. Len(s) + i = Len(t) + 1
      BY <1>1, <2>1
    <3> QED
      BY <1>2, <1>5, <1>6, <2>0, <2>1, <3>1
  <2>2. CASE i \in 1..n
    <3>1. Len(s) + i \in 1..Len(t)
      BY <1>1, <2>2
    <3> QED
      BY <1>2, <1>4, <1>5, <1>6, <2>0, <2>2, <3>1
  <2> QED
    BY <2>0, <2>1, <2>2
<1>9. q = w
  BY <1>5, <1>6, <1>7, <1>8, SeqEqual
<1> QED
  BY <1>3, <1>9 DEF q, w, r, u

\* Of the records t behind a some settle and some are lost, from the end: t1 behind a1.
SomeSettle(a, t, a1, t1) ==
  \E kept \in L!Prefixes(Rest(a, t)) :
    \E n \in 0..Len(kept) :
      a1 = a \o SubSeq(kept, 1, n) /\ Rest(a1, t1) = SubSeq(kept, n + 1, Len(kept))

\* That is so when a1 and t1 lie between a and t.
LEMMA SettleIs ==
  ASSUME NEW S, NEW a \in Seq(S), NEW t \in Seq(S), NEW a1 \in Seq(S), NEW t1 \in Seq(S),
         Begins(a, a1), Begins(a1, t1), Begins(t1, t)
  PROVE  SomeSettle(a, t, a1, t1)
<1>1. Begins(a, t1)
  BY BeginsTransitive
<1> DEFINE kept == Rest(a, t1)
           n == Len(a1) - Len(a)
<1>2. kept \in L!Prefixes(Rest(a, t))
  <2>1. kept = SubSeq(Rest(a, t), 1, Len(t1) - Len(a)) /\ Len(t1) - Len(a) \in 0..Len(Rest(a, t))
    BY <1>1, RestBegins
  <2> QED
    BY <2>1 DEF L!Prefixes
<1>3. Rest(a, a1) = SubSeq(kept, 1, n) /\ n \in 0..Len(kept)
  BY RestBegins
<1>4. a1 = a \o SubSeq(kept, 1, n)
  <2>1. a \o Rest(a, a1) = a1
    BY RestIs
  <2> QED
    BY <1>3, <2>1
<1>5. Rest(a1, t1) = SubSeq(kept, n + 1, Len(kept))
  BY RestOfRest
<1> QED
  BY <1>2, <1>3, <1>4, <1>5 DEF SomeSettle

\* A failed append leaves a beginning x of the records, or one record more.
LEMMA FailIs ==
  ASSUME NEW a \in Seq(Payloads), NEW t \in Seq(Payloads), NEW x \in Seq(Payloads),
         NEW t1 \in Seq(Payloads), Begins(a, x), Begins(x, t), NEW q \in Payloads,
         t1 = x \/ \E p \in Payloads : t1 = Append(x, p)
  PROVE  \E p \in Payloads, kept \in L!Prefixes(Rest(a, t)) : Rest(a, t1) \in {kept, Append(kept, p)}
<1> DEFINE kept == Rest(a, x)
<1>1. kept \in L!Prefixes(Rest(a, t))
  <2>1. kept = SubSeq(Rest(a, t), 1, Len(x) - Len(a)) /\ Len(x) - Len(a) \in 0..Len(Rest(a, t))
    BY RestBegins
  <2> QED
    BY <2>1 DEF L!Prefixes
<1>2. CASE t1 = x
  BY <1>1, <1>2
<1>3. CASE \E p \in Payloads : t1 = Append(x, p)
  <2>1. PICK p \in Payloads : t1 = Append(x, p)
    BY <1>3
  <2>2. Rest(a, t1) = Append(kept, p)
    BY <2>1, RestOfAppend
  <2> QED
    BY <1>1, <2>2
<1> QED
  BY <1>2, <1>3

\* An acknowledged append settles a beginning x of the records, and itself.
LEMMA AcknowledgeIs ==
  ASSUME NEW a \in Seq(Payloads), NEW t \in Seq(Payloads), NEW x \in Seq(Payloads),
         NEW q \in Payloads, Begins(a, x), Begins(x, t)
  PROVE  \E p \in Payloads, kept \in L!Prefixes(Rest(a, t)) : Append(x, q) = a \o kept \o <<p>>
<1> DEFINE kept == Rest(a, x)
<1>1. kept \in L!Prefixes(Rest(a, t))
  <2>1. kept = SubSeq(Rest(a, t), 1, Len(x) - Len(a)) /\ Len(x) - Len(a) \in 0..Len(Rest(a, t))
    BY RestBegins
  <2> QED
    BY <2>1 DEF L!Prefixes
<1>2. a \o kept = x
  BY RestIs
<1>3. Append(x, q) = x \o <<q>>
  BY AppendIsConcat
<1> QED
  BY <1>1, <1>2, <1>3

\* Nothing is left behind the whole.
LEMMA RestOfSelf ==
  ASSUME NEW S, NEW s \in Seq(S)
  PROVE  Rest(s, s) = <<>> /\ Begins(s, s)
<1>1. Begins(s, s)
  BY BeginsMeans
<1>2. Rest(s, s) \in Seq(S) /\ Len(Rest(s, s)) = Len(s) - Len(s)
  BY <1>1, RestIs
<1>3. Len(s) - Len(s) = 0
  OBVIOUS
<1> QED
  BY <1>1, <1>2, <1>3

--------------------------------------------------------------------------------
\* The record at the end of the chain has been started and does not fit.
Torn(f, b, k) ==
  /\ k < MaxRecords /\ b[k] < Len(f)
  /\ StartsRecord(f, b[k]) /\ ~Fits(f, b[k])

\* The file holds records, and at most the beginning of another one.
Clean(f) == \E b, k : Chain(f, b, k) /\ (b[k] = Len(f) \/ Torn(f, b, k))

\* An append continues the records before offset s with sequence number q.
Positioned(f, s, q) ==
  /\ Len(f) >= HeaderLen
  /\ \E b, j : Chain(f, b, j) /\ b[j] = s
  /\ q = PreviousSeq(f, s) + 1
  /\ NoneAfter(f, s)

\* The scan of a clean file ends with its chain.
LEMMA CleanEnds ==
  ASSUME NEW f, NEW b, NEW k, b[k] = Len(f) \/ Torn(f, b, k)
  PROVE  Ended(f, b, k)
BY DEF Torn, Ended, Stopped

\* Truncation leaves a clean file clean.
LEMMA CleanTruncate ==
  ASSUME NEW f \in Files, Clean(f), NEW n \in Nat, HeaderLen <= n, n <= Len(f)
  PROVE  Clean(Truncate(f, n))
<1> DEFINE t == Truncate(f, n)
<1>0. f \in Seq(Cell) /\ Len(f) \in Nat /\ HeaderLen \in Nat /\ Len(f) >= HeaderLen
  BY DEF Files, HeaderLen
<1>1. PICK b, k : Chain(f, b, k) /\ (b[k] = Len(f) \/ Torn(f, b, k))
  BY DEF Clean
<1>2. Ended(f, b, k)
  BY <1>1, CleanEnds
<1>3. PICK j \in Nat : /\ j <= k /\ b[j] <= n /\ (j < k => n < b[j + 1])
                       /\ Chain(t, b, j) /\ Ended(t, b, j)
  BY <1>0, <1>1, <1>2, TruncateChain
<1>4. t \in Files /\ Len(t) = n /\ \A x \in 1..n : t[x] = f[x]
  BY TruncateFile
<1> HIDE DEF t
<1>5. /\ k \in Nat /\ k <= MaxRecords /\ b \in [Nat -> Nat]
      /\ \A i \in Nat : i < k =>
           b[i] < Len(f) /\ Stopped(f, b[i], i) = {} /\ b[i + 1] = b[i] + f[b[i] + 1].len
  BY <1>1 DEF Chain
<1>6. b[j] \in Nat
  BY <1>5
<1>7. ASSUME b[j] # n  PROVE Torn(t, b, j)
  <2>1. b[j] < n /\ t[b[j] + 1] = f[b[j] + 1]
    BY <1>3, <1>4, <1>6, <1>7
  <2>2. CASE j < k
    <3>1. Stopped(f, b[j], j) = {} /\ b[j + 1] = b[j] + f[b[j] + 1].len
      BY <1>5, <2>2
    <3>2. StartsRecord(f, b[j])
      BY <3>1, PassedMeans
    <3>3. StartsRecord(t, b[j])
      BY <2>1, <3>2 DEF StartsRecord
    <3>4. b[j] + t[b[j] + 1].len > n
      BY <1>3, <2>1, <2>2, <3>1
    <3>5. f[b[j] + 1] \in Cell
      BY <1>0, <1>6, <2>1
    <3>6. t[b[j] + 1].len \in Nat
      BY <2>1, <3>5, CellFields
    <3>7. ~Fits(t, b[j])
      BY <1>4, <1>6, <3>4, <3>6 DEF Fits
    <3> QED
      BY <1>4, <1>5, <2>1, <2>2, <3>3, <3>7, BoundsAssumption DEF Torn
  <2>3. CASE j = k
    <3>1. Torn(f, b, j)
      BY <1>0, <1>1, <2>1, <2>3, <1>6
    <3>2. StartsRecord(t, b[j])
      BY <2>1, <3>1 DEF Torn, StartsRecord
    <3>3. f[b[j] + 1] \in Cell
      BY <1>0, <1>6, <2>1
    <3>4. t[b[j] + 1].len \in Nat
      BY <2>1, <3>3, CellFields
    <3>5. ~(b[j] + t[b[j] + 1].len <= Len(f))
      BY <2>1, <3>1 DEF Torn, Fits
    <3>6. ~Fits(t, b[j])
      BY <1>0, <1>4, <1>6, <3>4, <3>5 DEF Fits
    <3>7. j < MaxRecords
      BY <3>1 DEF Torn
    <3> QED
      BY <1>4, <2>1, <3>2, <3>6, <3>7 DEF Torn
  <2> QED
    BY <1>3, <1>5, <2>2, <2>3
<1>8. Clean(t)
  BY <1>3, <1>4, <1>7 DEF Clean
<1> QED
  BY <1>8 DEF t

\* The scan of a clean file ends in a writable outcome.
LEMMA CleanRecovers ==
  ASSUME NEW f \in Files, Len(f) >= HeaderLen, Clean(f)
  PROVE  Recovery(f) \subseteq {"Empty", "Clean", "TornTailRecovered"}
<1>0. Len(f) \in Nat
  BY DEF Files
<1>1. PICK b, k : Chain(f, b, k) /\ (b[k] = Len(f) \/ Torn(f, b, k))
  BY DEF Clean
<1>2. Ended(f, b, k)
  BY <1>1, CleanEnds
<1>3. Scan(f).good = b[k] /\ Scan(f).records = History(f) /\ Len(History(f)) = k
  BY <1>1, <1>2, HistoryIs
<1>4. CASE b[k] = Len(f)
  <2>1. ~(b[k] < Len(f))
    BY <1>0, <1>4
  <2> QED
    BY <1>3, <2>1 DEF Recovery, Outcomes
<1>5. CASE Torn(f, b, k)
  <2>1. b[k] < Len(f) /\ k < MaxRecords /\ StartsRecord(f, b[k]) /\ ~Fits(f, b[k])
    BY <1>5 DEF Torn
  <2>2. k \in Nat
    BY <1>1 DEF Chain
  <2>3. Stopped(f, b[k], k) = {"TornTailRecovered"}
    BY <2>1, <2>2, BoundsAssumption DEF Stopped
  <2> QED
    BY <1>3, <2>1, <2>3 DEF Recovery, Outcomes
<1> QED
  BY <1>1, <1>4, <1>5

\* Where the scan of a file ended an append may continue, once the rest is gone.
LEMMA ScanPositions ==
  ASSUME NEW f \in Files, Len(f) >= HeaderLen
  PROVE  LET g == Scan(f).good
             t == Truncate(f, g)
         IN  Positioned(t, g, PreviousSeq(f, g) + 1) /\ Clean(t) /\ PreviousSeq(f, g) \in Nat
<1> DEFINE g == Scan(f).good
           t == Truncate(f, g)
<1>0. f \in Seq(Cell) /\ Len(f) \in Nat /\ HeaderLen \in Nat /\ HeaderLen >= 1
  BY DEF Files, HeaderLen
<1>1. PICK b, k : Chain(f, b, k) /\ Ended(f, b, k)
  BY <1>0, ChainExists
<1>2. g = b[k]
  BY <1>1, HistoryIs
<1>3. g \in Nat /\ HeaderLen <= g /\ g <= Len(f) /\ Chain(t, b, k)
  BY <1>1, <1>2, HistoryAt
<1> HIDE DEF g
<1>4. t \in Files /\ Len(t) = g /\ \A x \in 1..g : t[x] = f[x]
  BY <1>3, TruncateFile
<1> HIDE DEF t
<1>5. PreviousSeq(t, g) = PreviousSeq(f, g)
  <2>1. g \in 1..g
    BY <1>0, <1>3
  <2> QED
    BY <1>4, <2>1 DEF PreviousSeq
<1>6. NoneAfter(t, g)
  BY <1>3, <1>4 DEF NoneAfter
<1>7. Positioned(t, g, PreviousSeq(f, g) + 1)
  BY <1>2, <1>3, <1>4, <1>5, <1>6 DEF Positioned
<1>8. Clean(t)
  BY <1>2, <1>3, <1>4 DEF Clean
<1>9. PreviousSeq(f, g) \in Nat
  <2>1. f[g] \in Cell
    BY <1>0, <1>3
  <2> QED
    BY <2>1, CellFields DEF PreviousSeq
<1> QED
  BY <1>7, <1>8, <1>9 DEF g, t

\* A scan that reports Clean or Empty has reached the end.
LEMMA ReachedEnd ==
  ASSUME NEW f \in Files, Len(f) >= HeaderLen, NEW o \in {"Clean", "Empty"}, o \in Recovery(f)
  PROVE  Scan(f).good = Len(f) /\ Truncate(f, Scan(f).good) = f
<1>0. f \in Seq(Cell) /\ Len(f) \in Nat
  BY DEF Files
<1>1. Scan(f).good \in Nat /\ Scan(f).good <= Len(f)
  BY GoodPrefix
<1>2. ASSUME NEW m, NEW n  PROVE o \notin Stopped(f, m, n)
  BY DEF Stopped
<1>3. ~(Scan(f).good < Len(f))
  BY <1>2 DEF Recovery, Outcomes
<1>4. Scan(f).good = Len(f)
  BY <1>0, <1>1, <1>3
<1>5. Truncate(f, Len(f)) = f
  BY <1>0, SubSeqFull DEF Truncate
<1> QED
  BY <1>4, <1>5

\* A write behind a clean file's last record leaves it clean, wherever it stops.
LEMMA CleanWrite ==
  ASSUME NEW f \in Files, Len(f) >= HeaderLen, NEW b, NEW j, Chain(f, b, j), b[j] = Len(f),
         j < MaxRecords, NEW p \in Payloads, NEW n \in 0..Length[p], NEW g,
         g = WriteAt(f, b[j], MakeRecord(p, PreviousSeq(f, b[j]) + 1), n)
  PROVE  Clean(g)
<1> DEFINE q == PreviousSeq(f, b[j]) + 1
<1>0. f \in Seq(Cell) /\ Len(f) \in Nat /\ HeaderLen \in Nat /\ HeaderLen >= 1
  BY DEF Files, HeaderLen
<1>1. Length[p] \in Nat /\ Length[p] >= 2
  BY RecordIs
<1>2. q \in Nat
  <2>1. f[b[j]] \in Cell
    BY <1>0
  <2>2. PreviousSeq(f, b[j]) \in Nat
    BY <2>1, CellFields DEF PreviousSeq
  <2> QED
    BY <2>2
<1> DEFINE s == b[j]
<1>3. s \in Nat /\ HeaderLen <= s /\ s <= Len(f)
  BY <1>0
<1>4. g = WriteAt(f, s, MakeRecord(p, q), n)
  OBVIOUS
<1> HIDE DEF q
<1>5. /\ g \in Files
      /\ Len(g) \in {Len(f), s + n} /\ Len(g) >= Len(f) /\ Len(g) >= s + n
      /\ \A x \in 1..Len(g) : x > s /\ x <= s + n =>
           g[x] = [p |-> p, seq |-> q, len |-> Length[p], i |-> x - s]
  <2> HIDE DEF s
  <2> QED
    BY <1>2, <1>3, <1>4, WriteIs
<1>6. \A x \in 1..s : g[x] = f[x]
  <2> HIDE DEF s
  <2> QED
    BY <1>2, <1>3, <1>4, WriteKeeps
<1>7. g \in Seq(Cell) /\ Len(g) \in Nat /\ Len(g) = s + n
  <2>1. g \in Seq(Cell) /\ Len(g) \in Nat
    BY <1>5 DEF Files
  <2> QED
    BY <1>0, <1>1, <1>5, <2>1
<1>8. Chain(g, b, j)
  <2>1. b[j] <= Len(g)
    BY <1>3, <1>5, <1>7
  <2> QED
    BY <1>0, <1>6, <1>7, <2>1, ChainAgrees
<1>9. CASE n = 0
  <2>1. b[j] = Len(g)
    BY <1>3, <1>7, <1>9
  <2> QED
    BY <1>8, <2>1 DEF Clean
<1>10. CASE n = Length[p]
  <2>1. NoneAfter(f, b[j])
    BY <1>0 DEF NoneAfter
  <2>2. PICK c : Appended(f, b, j, p, g, c)
    BY <1>10, <2>1, AppendedIs
  <2>3. Chain(g, c, j + 1) /\ c[j + 1] = Len(g)
    BY <2>2 DEF Appended
  <2> QED
    BY <2>3 DEF Clean
<1>11. CASE n # 0 /\ n # Length[p]
  <2>1. s + 1 \in 1..Len(g) /\ s + 1 > s /\ s + 1 <= s + n /\ (s + 1) - s = 1
    BY <1>1, <1>3, <1>7, <1>11
  <2>2. g[s + 1] = [p |-> p, seq |-> q, len |-> Length[p], i |-> 1]
    BY <1>5, <2>1
  <2>3. g[s + 1].i = 1 /\ g[s + 1].len = Length[p]
    BY <2>2
  <2>4. StartsRecord(g, b[j])
    BY <2>3 DEF StartsRecord
  <2>5. ~Fits(g, b[j])
    BY <1>1, <1>3, <1>7, <1>11, <2>3 DEF Fits
  <2>6. b[j] < Len(g)
    BY <1>1, <1>3, <1>7, <1>11
  <2>7. Torn(g, b, j)
    BY <2>4, <2>5, <2>6 DEF Torn
  <2> QED
    BY <1>8, <2>7 DEF Clean
<1> QED
  BY <1>9, <1>10, <1>11

\* An interrupted write leaves the journal positioned where it was.
LEMMA Rewritten ==
  ASSUME NEW f \in Files, NEW s, NEW q, Positioned(f, s, q),
         NEW p \in Payloads, NEW n \in 0..Length[p], NEW g, g = WriteAt(f, s, MakeRecord(p, q), n)
  PROVE  /\ g \in Files /\ Len(g) >= Len(f) /\ Positioned(g, s, q)
         /\ \A m \in Nat : m <= s => Truncate(g, m) = Truncate(f, m)
<1>1. PICK b, j : Chain(f, b, j) /\ b[j] = s
  BY DEF Positioned
<1>0. /\ f \in Seq(Cell) /\ Len(f) \in Nat /\ HeaderLen \in Nat /\ HeaderLen >= 1
      /\ Len(f) >= HeaderLen /\ q = PreviousSeq(f, s) + 1 /\ NoneAfter(f, s)
  BY DEF Files, HeaderLen, Positioned
<1>2. s \in Nat /\ HeaderLen <= s /\ s <= Len(f)
  BY <1>0, <1>1, HistoryAt
<1>3. q \in Nat
  <2>1. f[s] \in Cell
    BY <1>0, <1>2
  <2>2. PreviousSeq(f, s) \in Nat
    BY <2>1, CellFields DEF PreviousSeq
  <2> QED
    BY <1>0, <2>2
<1>4. Length[p] \in Nat /\ Length[p] >= 2
  BY RecordIs
<1>5. /\ g \in Files
      /\ Len(g) >= Len(f) /\ Len(g) >= s + n
      /\ \A x \in 1..Len(g) : x > s /\ x <= s + n =>
           g[x] = [p |-> p, seq |-> q, len |-> Length[p], i |-> x - s]
      /\ \A x \in 1..Len(g) : ~(x > s /\ x <= s + n) => x <= Len(f) /\ g[x] = f[x]
  BY <1>2, <1>3, WriteIs
<1>6. \A m \in Nat : m <= s => Truncate(g, m) = Truncate(f, m)
  BY <1>2, <1>3, WriteKeeps
<1>7. \A x \in 1..s : g[x] = f[x]
  BY <1>2, <1>3, WriteKeeps
<1>8. g \in Seq(Cell) /\ Len(g) \in Nat
  BY <1>5 DEF Files
<1>9. Chain(g, b, j)
  <2>1. b[j] <= Len(g) /\ \A x \in 1..b[j] : g[x] = f[x]
    BY <1>0, <1>1, <1>2, <1>5, <1>7, <1>8
  <2> QED
    BY <1>0, <1>1, <1>8, <2>1, ChainAgrees
<1>10. PreviousSeq(g, s) = PreviousSeq(f, s)
  <2>1. s \in 1..s
    BY <1>0, <1>2
  <2> QED
    BY <1>7, <2>1 DEF PreviousSeq
<1>11. NoneAfter(g, s)
  <2> SUFFICES ASSUME NEW x \in 1..Len(g), x > s + 1  PROVE g[x].i # 1
    BY DEF NoneAfter
  <2>1. CASE x <= s + n
    <3>1. x > s
      BY <1>2, <1>8
    <3>2. g[x] = [p |-> p, seq |-> q, len |-> Length[p], i |-> x - s]
      BY <1>5, <2>1, <3>1
    <3>3. g[x].i = x - s
      BY <3>2
    <3> QED
      BY <1>2, <1>8, <3>3
  <2>2. CASE ~(x <= s + n)
    <3>1. x <= Len(f) /\ g[x] = f[x]
      BY <1>5, <2>2
    <3>2. x \in 1..Len(f)
      BY <1>0, <3>1
    <3> QED
      BY <1>0, <3>1, <3>2 DEF NoneAfter
  <2> QED
    BY <2>1, <2>2
<1>12. Len(g) >= HeaderLen
  BY <1>0, <1>5, <1>8
<1>13. Positioned(g, s, q)
  BY <1>0, <1>1, <1>9, <1>10, <1>11, <1>12 DEF Positioned
<1> QED
  BY <1>5, <1>6, <1>13

--------------------------------------------------------------------------------
\* The inductive invariant: the file is one of the journal's, as long as what was flushed,
DiskInv ==
  /\ file \in Files
  /\ flushed \in Nat /\ flushed <= Len(file)
  /\ acked \in Nat /\ generation \in Nat /\ faulted \in BOOLEAN

\* what load reads is there,
HandleInv ==
  /\ handle \in {"none", "ro", "rw"} /\ writable \in BOOLEAN
  /\ size_bytes \in Nat /\ next_sequence \in Nat /\ good_bytes \in Nat
  /\ handle # "none" => good_bytes <= Len(file)

\* an open and writable journal is positioned behind whole records,
OpenInv == handle # "none" /\ writable => Positioned(file, size_bytes, next_sequence)

\* and unless an operation has failed the file is clean and the position its end.
CleanInv ==
  ~faulted =>
    /\ Len(file) >= HeaderLen => Clean(file)
    /\ handle # "none" /\ writable => size_bytes = Len(file)

JournalInv == DiskInv /\ HandleInv /\ OpenInv /\ CleanInv

\* The records before the position where the next one is written are fewer than max_records.
HasRoom == Len(History(Truncate(file, size_bytes))) < MaxRecords

\* No append goes beyond max_records.  Journal::append does not see to that: it checks the
\* bytes only, and the scan of the next open stops at max_records and refuses the journal.
\* The theorems are about the behaviours in which the callers stay within the bound.
Appends == \E p \in Payloads : AppendRecord(p) \/ AppendFails(p) \/ CrashInAppend(p)
RoomForRecords == [][Appends => HasRoom]_vars

\* Before the first open the file is empty: the invariant holds.
LEMMA JournalInit == Init => JournalInv
<1> SUFFICES ASSUME Init  PROVE JournalInv
  OBVIOUS
<1>1. <<>> \in Files /\ Len(<<>>) = 0
  <2>1. <<>> \in Seq(Cell) /\ Len(<<>>) = 0
    OBVIOUS
  <2> QED
    BY <2>1 DEF Files
<1>2. ~(0 >= HeaderLen)
  BY DEF HeaderLen
<1>3. DiskInv
  <2>1. faulted \in BOOLEAN
    BY DEF Init
  <2>2. flushed \in Nat /\ flushed <= Len(file) /\ acked \in Nat /\ generation \in Nat
    BY <1>1 DEF Init
  <2>3. file \in Files
    BY <1>1 DEF Init
  <2> QED
    BY <2>1, <2>2, <2>3 DEF DiskInv
<1>4. HandleInv
  BY DEF Init, HandleInv
<1>5. OpenInv
  BY DEF Init, OpenInv
<1>6. CleanInv
  BY <1>1, <1>2 DEF Init, CleanInv
<1> QED
  BY <1>3, <1>4, <1>5, <1>6 DEF JournalInv

\* The header, or a part of it.
LEMMA HeaderPart ==
  ASSUME NEW n \in 0..HeaderLen
  PROVE  LET f == WriteAt(<<>>, 0, MakeHeader, n)
         IN  /\ f \in Files /\ Len(f) = n /\ History(f) = <<>>
             /\ n = HeaderLen => Clean(f)
<1> DEFINE f == WriteAt(<<>>, 0, MakeHeader, n)
           h == MakeHeader
<1>1. h \in Files /\ Len(h) = HeaderLen /\ HeaderLen \in Nat /\ History(h) = <<>>
  BY HeaderIs
<1>2. h \in Seq(Cell)
  BY <1>1 DEF Files
<1> HIDE DEF h
<1>3. Max({0, n}) = n
  BY <1>1, TwoBounds
<1>4. f = [k \in 1..n |-> h[k]]
  <2>1. f = [k \in 1..Max({0, 0 + n}) |-> IF k > 0 /\ k <= 0 + n THEN h[k - 0] ELSE <<>>[k]]
    BY DEF WriteAt, h
  <2>2. 0 + n = n /\ \A k \in 1..n : k > 0 /\ k <= 0 + n /\ k - 0 = k
    BY <1>1
  <2> HIDE DEF f
  <2> QED
    BY <1>3, <2>1, <2>2
<1>5. Truncate(h, n) \in Files /\ Len(Truncate(h, n)) = n /\ \A k \in 1..n : Truncate(h, n)[k] = h[k]
  BY <1>1, TruncateFile
<1>6. Truncate(h, n) = f
  <2> HIDE DEF f
  <2>1. Truncate(h, n) \in Seq(Cell)
    BY <1>5 DEF Files
  <2>2. f \in [1..n -> Cell]
    BY <1>1, <1>2, <1>4
  <2>3. f \in Seq(Cell) /\ Len(f) = n
    BY <1>1, <2>2, IsSequence
  <2>4. \A k \in 1..n : Truncate(h, n)[k] = f[k]
    BY <1>4, <1>5
  <2> QED
    BY <1>5, <2>1, <2>3, <2>4, SeqEqual
<1> HIDE DEF f
<1>7. History(f) = <<>>
  <2>1. Begins(History(f), History(h))
    BY <1>1, <1>6, HistoryOfPrefix
  <2>2. History(f) \in Seq(Payloads) /\ Len(History(f)) <= 0
    BY <1>1, <1>5, <1>6, <2>1, HistoryType DEF Begins
  <2> QED
    BY <2>2
<1>8. ASSUME n = HeaderLen  PROVE Clean(f)
  <2>1. f = h
    BY <1>1, <1>2, <1>6, <1>8, SubSeqFull DEF Truncate
  <2>2. PICK b : Chain(h, b, 0) /\ b[0] = HeaderLen
    BY HeaderIs DEF h
  <2> QED
    BY <1>1, <2>1, <2>2 DEF Clean
<1> QED
  BY <1>5, <1>6, <1>7, <1>8 DEF f, h

--------------------------------------------------------------------------------
\* A new header (Journal::open on an empty file, or truncating) keeps the invariant.
LEMMA OpenFreshKeeps ==
  ASSUME JournalInv, NEW mode \in Modes, OpenFresh(mode)
  PROVE  JournalInv'
<1>0. DiskInv
  BY DEF JournalInv
<1>1. /\ MakeHeader \in Files /\ Len(MakeHeader) = HeaderLen /\ HeaderLen \in Nat
      /\ PreviousSeq(MakeHeader, HeaderLen) = 0
  BY HeaderIs
<1>2. PICK b : Chain(MakeHeader, b, 0) /\ b[0] = HeaderLen
  BY HeaderIs
<1>3. /\ file' = MakeHeader /\ flushed' = HeaderLen /\ handle' = "rw" /\ faulted' = faulted
      /\ size_bytes' = HeaderLen /\ next_sequence' = 1 /\ good_bytes' = HeaderLen /\ writable' = TRUE
      /\ acked' \in Nat /\ generation' \in Nat
  BY <1>0 DEF OpenFresh, CountsReplacement, DiskInv
<1>4. NoneAfter(MakeHeader, HeaderLen)
  BY <1>1 DEF NoneAfter
<1>5. Positioned(MakeHeader, HeaderLen, 1)
  BY <1>1, <1>2, <1>4 DEF Positioned
<1>6. Clean(MakeHeader)
  BY <1>1, <1>2 DEF Clean
<1>7. DiskInv'
  BY <1>0, <1>1, <1>3 DEF DiskInv
<1>8. HandleInv'
  BY <1>1, <1>3 DEF HandleInv
<1>9. OpenInv'
  BY <1>3, <1>5 DEF OpenInv
<1>10. CleanInv'
  BY <1>1, <1>3, <1>6 DEF CleanInv
<1> QED
  BY <1>7, <1>8, <1>9, <1>10 DEF JournalInv

\* So does a header that is cut short: the handle is not kept.
LEMMA OpenFreshFailsKeeps ==
  ASSUME JournalInv, handle = "none", NEW mode \in Modes, OpenFreshFails(mode)
  PROVE  JournalInv'
<1>0. DiskInv /\ HandleInv
  BY DEF JournalInv
<1>1. PICK n \in 0..HeaderLen : file' = WriteAt(<<>>, 0, MakeHeader, n)
  BY DEF OpenFreshFails
<1>2. /\ file' \in Files /\ Len(file') = n /\ n \in Nat /\ HeaderLen \in Nat /\ n <= HeaderLen
      /\ n = HeaderLen => Clean(file')
  <2>1. HeaderLen \in Nat
    BY DEF HeaderLen
  <2> QED
    BY <1>1, <2>1, HeaderPart
<1>3. /\ flushed' = 0 /\ handle' = handle /\ faulted' = faulted
      /\ size_bytes' = size_bytes /\ next_sequence' = next_sequence
      /\ good_bytes' = good_bytes /\ writable' = writable
      /\ acked' \in Nat /\ generation' \in Nat
  BY <1>0 DEF OpenFreshFails, CountsReplacement, DiskInv, journal
<1>4. DiskInv'
  BY <1>0, <1>2, <1>3 DEF DiskInv
<1>5. HandleInv'
  BY <1>0, <1>3 DEF HandleInv
<1>6. OpenInv'
  BY <1>3 DEF OpenInv
<1>7. CleanInv'
  BY <1>2, <1>3 DEF CleanInv
<1> QED
  BY <1>4, <1>5, <1>6, <1>7 DEF JournalInv

\* A file shorter than the header is served, not written.
LEMMA OpenShortKeeps ==
  ASSUME JournalInv, NEW mode \in Modes, OpenShort(mode)
  PROVE  JournalInv'
<1>0. DiskInv /\ CleanInv
  BY DEF JournalInv
<1>1. /\ file' = file /\ flushed' = flushed /\ faulted' = faulted
      /\ acked' = acked /\ generation' = generation
      /\ handle' \in {"ro", "rw"} /\ size_bytes' = 0 /\ next_sequence' = 1
      /\ good_bytes' = 0 /\ writable' = FALSE
  BY DEF OpenShort, disk, history, HandleFor
<1>2. Len(file) \in Nat
  BY <1>0 DEF DiskInv, Files
<1>3. DiskInv'
  BY <1>0, <1>1 DEF DiskInv
<1>4. HandleInv'
  <2>1. writable' \in BOOLEAN
    BY <1>1
  <2>2. good_bytes' <= Len(file') /\ size_bytes' \in Nat /\ next_sequence' \in Nat /\ good_bytes' \in Nat
    BY <1>1, <1>2
  <2>3. handle' \in {"none", "ro", "rw"}
    BY <1>1
  <2> QED
    BY <2>1, <2>2, <2>3 DEF HandleInv
<1>5. OpenInv'
  BY <1>1 DEF OpenInv
<1>6. CleanInv'
  BY <1>0, <1>1 DEF CleanInv
<1> QED
  BY <1>3, <1>4, <1>5, <1>6 DEF JournalInv

\* A scanned file is writable only when the scan reached its end.
LEMMA OpenScannedKeeps ==
  ASSUME JournalInv, NEW mode \in Modes, OpenScanned(mode)
  PROVE  JournalInv'
<1> DEFINE g == Scan(file).good
<1>0. DiskInv /\ CleanInv
  BY DEF JournalInv
<1>1. /\ file' = file /\ flushed' = flushed /\ faulted' = faulted
      /\ acked' = acked /\ generation' = generation
      /\ handle' \in {"ro", "rw"} /\ size_bytes' = Len(file)
      /\ next_sequence' = PreviousSeq(file, g) + 1
      /\ good_bytes' = g /\ Len(file) >= HeaderLen
  BY DEF OpenScanned, Recovered, disk, history, HandleFor
<1>2. PICK outcome \in Recovery(file) :
        writable' = (mode = "OpenOrCreateReadWrite" /\ outcome \in {"Clean", "Empty"})
  BY DEF OpenScanned
<1>3. file \in Files /\ Len(file) \in Nat
  BY <1>0 DEF DiskInv, Files
<1>4. /\ g \in Nat /\ g <= Len(file) /\ PreviousSeq(file, g) \in Nat
      /\ Positioned(Truncate(file, g), g, PreviousSeq(file, g) + 1)
  BY <1>1, <1>3, GoodPrefix, ScanPositions
<1>5. ASSUME writable'  PROVE g = Len(file) /\ Truncate(file, g) = file
  <2>1. outcome \in {"Clean", "Empty"}
    BY <1>2, <1>5
  <2> QED
    BY <1>1, <1>2, <1>3, <2>1, ReachedEnd
<1> HIDE DEF g
<1>6. DiskInv'
  BY <1>0, <1>1 DEF DiskInv
<1>7. HandleInv'
  <2>1. writable' \in BOOLEAN
    BY <1>2
  <2> QED
    BY <1>1, <1>3, <1>4, <2>1 DEF HandleInv
<1>8. OpenInv'
  <2> SUFFICES ASSUME writable'  PROVE Positioned(file', size_bytes', next_sequence')
    BY DEF OpenInv
  <2>1. g = Len(file) /\ Truncate(file, g) = file
    BY <1>5
  <2> QED
    BY <1>1, <1>4, <2>1
<1>9. CleanInv'
  BY <1>0, <1>1 DEF CleanInv
<1> QED
  BY <1>6, <1>7, <1>8, <1>9 DEF JournalInv

\* A torn tail that was cut off leaves a file positioned at its end.
LEMMA OpenTornKeeps ==
  ASSUME JournalInv, NEW mode \in Modes, OpenTorn(mode)
  PROVE  JournalInv'
<1> DEFINE g == Scan(file).good
           t == Truncate(file, g)
<1>0. DiskInv /\ CleanInv
  BY DEF JournalInv
<1>1. /\ file' = t /\ flushed' = g /\ faulted' = faulted
      /\ acked' = acked /\ generation' = generation
      /\ handle' \in {"ro", "rw"} /\ size_bytes' = g
      /\ next_sequence' = PreviousSeq(file, g) + 1
      /\ good_bytes' = g /\ Len(file) >= HeaderLen /\ writable' = TRUE
  BY DEF OpenTorn, Recovered, history, HandleFor
<1>2. file \in Files /\ Len(file) \in Nat
  BY <1>0 DEF DiskInv, Files
<1>3. /\ g \in Nat /\ g <= Len(file) /\ PreviousSeq(file, g) \in Nat
      /\ Positioned(t, g, PreviousSeq(file, g) + 1) /\ Clean(t)
  BY <1>1, <1>2, GoodPrefix, ScanPositions
<1> HIDE DEF g
<1>4. t \in Files /\ Len(t) = g
  BY <1>2, <1>3, TruncateFile
<1> HIDE DEF t
<1>5. DiskInv'
  BY <1>0, <1>1, <1>3, <1>4 DEF DiskInv
<1>6. HandleInv'
  BY <1>1, <1>3, <1>4 DEF HandleInv
<1>7. OpenInv'
  BY <1>1, <1>3 DEF OpenInv
<1>8. CleanInv'
  BY <1>1, <1>3, <1>4 DEF CleanInv
<1> QED
  BY <1>5, <1>6, <1>7, <1>8 DEF JournalInv

\* One that could not be cut off leaves the journal not writable.
LEMMA OpenTornFailsKeeps ==
  ASSUME JournalInv, NEW mode \in Modes, OpenTornFails(mode)
  PROVE  JournalInv'
<1> DEFINE g == Scan(file).good
           t == Truncate(file, g)
<1>0. DiskInv
  BY DEF JournalInv
<1>1. /\ file' \in {file, t} /\ flushed' = Min({flushed, g}) /\ faulted' = TRUE
      /\ acked' = acked /\ generation' = generation
      /\ handle' \in {"ro", "rw"} /\ size_bytes' = Len(file)
      /\ next_sequence' = PreviousSeq(file, g) + 1
      /\ good_bytes' = g /\ Len(file) >= HeaderLen /\ writable' = FALSE
  BY DEF OpenTornFails, Recovered, HandleFor
<1>2. file \in Files /\ Len(file) \in Nat /\ flushed \in Nat
  BY <1>0 DEF DiskInv, Files
<1>3. g \in Nat /\ g <= Len(file) /\ PreviousSeq(file, g) \in Nat
  BY <1>1, <1>2, GoodPrefix, ScanPositions
<1> HIDE DEF g
<1>4. t \in Files /\ Len(t) = g
  BY <1>2, <1>3, TruncateFile
<1> HIDE DEF t
<1>5. file' \in Files /\ g <= Len(file') /\ flushed' \in Nat /\ flushed' <= g /\ Len(file') \in Nat
  <2>1. Min({flushed, g}) \in {flushed, g} /\ Min({flushed, g}) <= g
    BY <1>2, <1>3, TwoBounds
  <2> QED
    BY <1>1, <1>2, <1>3, <1>4, <2>1
<1>6. DiskInv'
  BY <1>0, <1>1, <1>3, <1>5 DEF DiskInv
<1>7. HandleInv'
  <2>1. writable' \in BOOLEAN
    BY <1>1
  <2>2. good_bytes' <= Len(file') /\ size_bytes' \in Nat /\ next_sequence' \in Nat /\ good_bytes' \in Nat
    BY <1>1, <1>2, <1>3, <1>5
  <2>3. handle' \in {"none", "ro", "rw"}
    BY <1>1
  <2> QED
    BY <2>1, <2>2, <2>3 DEF HandleInv
<1>8. OpenInv'
  BY <1>1 DEF OpenInv
<1>9. CleanInv'
  BY <1>1 DEF CleanInv
<1> QED
  BY <1>6, <1>7, <1>8, <1>9 DEF JournalInv

\* Journal::open keeps the invariant, whichever way it ends.
LEMMA OpenKeeps ==
  ASSUME JournalInv, NEW mode \in Modes, Open(mode)
  PROVE  JournalInv'
BY OpenFreshKeeps, OpenFreshFailsKeeps, OpenShortKeeps, OpenScannedKeeps, OpenTornKeeps,
   OpenTornFailsKeeps DEF Open

\* Where an append begins.
LEMMA AppendBase ==
  ASSUME JournalInv, HasRoom, NEW p \in Payloads, MayAppend(p)
  PROVE  /\ file \in Files /\ Len(file) \in Nat /\ Len(file) >= HeaderLen /\ size_bytes <= Len(file)
         /\ Positioned(file, size_bytes, next_sequence)
         /\ \E b, j : Chain(file, b, j) /\ b[j] = size_bytes /\ j < MaxRecords
<1>1. Positioned(file, size_bytes, next_sequence)
  BY DEF JournalInv, OpenInv, MayAppend
<1>2. file \in Files /\ Len(file) \in Nat
  BY DEF JournalInv, DiskInv, Files
<1>3. PICK b, j : Chain(file, b, j) /\ b[j] = size_bytes
  BY <1>1 DEF Positioned
<1>4. Len(file) >= HeaderLen
  BY <1>1 DEF Positioned
<1>5. b[j] <= Len(file) /\ Len(History(Truncate(file, b[j]))) = j
  BY <1>2, <1>3, <1>4, HistoryAt
<1>6. j < MaxRecords
  BY <1>3, <1>5 DEF HasRoom
<1> QED
  BY <1>1, <1>2, <1>3, <1>4, <1>5, <1>6

\* An append (write and flush) keeps the invariant: the journal is positioned behind the record.
LEMMA AppendRecordKeeps ==
  ASSUME JournalInv, HasRoom, NEW p \in Payloads, AppendRecord(p)
  PROVE  JournalInv'
<1>0. DiskInv /\ HandleInv /\ CleanInv
  BY DEF JournalInv
<1>1. MayAppend(p)
  BY DEF AppendRecord
<1>2. /\ file' = WriteAt(file, size_bytes, MakeRecord(p, next_sequence), Length[p])
      /\ size_bytes' = size_bytes + Length[p] /\ flushed' = size_bytes'
      /\ next_sequence' = next_sequence + 1 /\ acked' = acked + 1
      /\ generation' = generation /\ faulted' = faulted /\ handle' = handle
      /\ good_bytes' = good_bytes /\ writable' = writable
  BY DEF AppendRecord
<1>3. /\ file \in Files /\ Len(file) \in Nat /\ Len(file) >= HeaderLen /\ size_bytes <= Len(file)
      /\ next_sequence = PreviousSeq(file, size_bytes) + 1 /\ NoneAfter(file, size_bytes)
  BY <1>1, AppendBase DEF Positioned
<1>4. PICK b, j : Chain(file, b, j) /\ b[j] = size_bytes /\ j < MaxRecords
  BY <1>1, AppendBase
<1>5. PICK c : Appended(file, b, j, p, file', c)
  BY <1>2, <1>3, <1>4, AppendedIs
<1>6. /\ Chain(file', c, j + 1) /\ c[j + 1] = size_bytes'
      /\ PreviousSeq(file', size_bytes') + 1 = next_sequence' /\ NoneAfter(file', size_bytes')
      /\ file' \in Files /\ Len(file') >= size_bytes' /\ Len(file') >= Len(file)
      /\ size_bytes = Len(file) => Len(file') = size_bytes'
  BY <1>2, <1>3, <1>4, <1>5 DEF Appended
<1>7. Length[p] \in Nat /\ Len(file') \in Nat
  <2>1. Length[p] \in Nat
    BY LengthAssumption
  <2>2. Len(file') \in Nat
    BY <1>6 DEF Files
  <2> QED
    BY <2>1, <2>2
<1>8. DiskInv'
  BY <1>0, <1>2, <1>6, <1>7 DEF DiskInv, HandleInv
<1>9. HandleInv'
  BY <1>0, <1>2, <1>3, <1>6, <1>7 DEF HandleInv
<1>10. OpenInv'
  <2>1. Len(file') >= HeaderLen
    BY <1>3, <1>6, <1>7 DEF HeaderLen
  <2> QED
    BY <1>6, <2>1 DEF OpenInv, Positioned
<1>11. CleanInv'
  <2> SUFFICES ASSUME ~faulted'  PROVE Clean(file') /\ size_bytes' = Len(file')
    BY DEF CleanInv
  <2>1. size_bytes = Len(file)
    BY <1>0, <1>1, <1>2 DEF CleanInv, MayAppend
  <2>2. c[j + 1] = Len(file')
    BY <1>6, <2>1
  <2> QED
    BY <1>6, <2>1, <2>2 DEF Clean
<1> QED
  BY <1>8, <1>9, <1>10, <1>11 DEF JournalInv

\* A write that is cut short.
LEMMA InterruptedIs ==
  ASSUME JournalInv, HasRoom, NEW p \in Payloads, Interrupted(p)
  PROVE  /\ file' \in Files /\ Len(file') \in Nat /\ Len(file') >= Len(file)
         /\ Positioned(file', size_bytes, next_sequence)
         /\ \A m \in Nat : m <= size_bytes => Truncate(file', m) = Truncate(file, m)
         /\ flushed' = Min({flushed, size_bytes})
         /\ flushed' \in Nat /\ flushed' <= size_bytes /\ flushed' <= flushed /\ flushed' <= Len(file')
         /\ acked' = acked /\ generation' = generation
         /\ ~faulted => Clean(file')
<1>0. DiskInv /\ HandleInv /\ CleanInv
  BY DEF JournalInv
<1>1. MayAppend(p)
  BY DEF Interrupted
<1>2. PICK n \in 0..Length[p] : file' = WriteAt(file, size_bytes, MakeRecord(p, next_sequence), n)
  BY DEF Interrupted
<1>3. /\ file \in Files /\ Len(file) \in Nat /\ Len(file) >= HeaderLen /\ size_bytes <= Len(file)
      /\ Positioned(file, size_bytes, next_sequence)
  BY <1>1, AppendBase
<1>4. /\ file' \in Files /\ Len(file') >= Len(file) /\ Positioned(file', size_bytes, next_sequence)
      /\ \A m \in Nat : m <= size_bytes => Truncate(file', m) = Truncate(file, m)
  BY <1>2, <1>3, Rewritten
<1>5. Len(file') \in Nat
  BY <1>4 DEF Files
<1>6. flushed' = Min({flushed, size_bytes}) /\ acked' = acked /\ generation' = generation
  BY DEF Interrupted
<1>7. flushed' \in Nat /\ flushed' <= size_bytes /\ flushed' <= flushed /\ flushed' <= Len(file')
  <2>1. flushed \in Nat /\ size_bytes \in Nat
    BY <1>0 DEF DiskInv, HandleInv
  <2>2. /\ Min({flushed, size_bytes}) \in {flushed, size_bytes}
        /\ Min({flushed, size_bytes}) <= flushed /\ Min({flushed, size_bytes}) <= size_bytes
    BY <2>1, TwoBounds
  <2> QED
    BY <1>3, <1>4, <1>5, <1>6, <2>1, <2>2
<1>8. ASSUME ~faulted  PROVE Clean(file')
  <2>1. size_bytes = Len(file)
    BY <1>0, <1>1, <1>8 DEF CleanInv, MayAppend
  <2>2. PICK b, j : Chain(file, b, j) /\ b[j] = size_bytes /\ j < MaxRecords
    BY <1>1, AppendBase
  <2>3. next_sequence = PreviousSeq(file, b[j]) + 1
    BY <1>3, <2>2 DEF Positioned
  <2> QED
    BY <1>2, <1>3, <2>1, <2>2, <2>3, CleanWrite
<1> QED
  BY <1>4, <1>5, <1>6, <1>7, <1>8

\* A failed append keeps it: size_bytes has not moved.
LEMMA AppendFailsKeeps ==
  ASSUME JournalInv, HasRoom, NEW p \in Payloads, AppendFails(p)
  PROVE  JournalInv'
<1>0. DiskInv /\ HandleInv
  BY DEF JournalInv
<1>1. /\ Interrupted(p) /\ faulted' = TRUE
      /\ handle' = handle /\ size_bytes' = size_bytes /\ next_sequence' = next_sequence
      /\ good_bytes' = good_bytes /\ writable' = writable
  BY DEF AppendFails, journal
<1>2. /\ file' \in Files /\ Len(file') \in Nat /\ Len(file') >= Len(file)
      /\ Positioned(file', size_bytes, next_sequence)
      /\ flushed' \in Nat /\ flushed' <= Len(file')
      /\ acked' = acked /\ generation' = generation
  BY <1>1, InterruptedIs
<1>3. DiskInv'
  <2>1. faulted' \in BOOLEAN
    BY <1>1
  <2> QED
    BY <1>0, <1>2, <2>1 DEF DiskInv
<1>4. HandleInv'
  <2>1. Len(file) \in Nat
    BY <1>0 DEF DiskInv, Files
  <2> QED
    BY <1>0, <1>1, <1>2, <2>1 DEF HandleInv
<1>5. OpenInv'
  BY <1>1, <1>2 DEF OpenInv
<1>6. CleanInv'
  BY <1>1 DEF CleanInv
<1> QED
  BY <1>3, <1>4, <1>5, <1>6 DEF JournalInv

\* A crash within an append keeps it: without an earlier fault the file is clean.
LEMMA CrashInAppendKeeps ==
  ASSUME JournalInv, HasRoom, NEW p \in Payloads, CrashInAppend(p)
  PROVE  JournalInv'
<1>0. DiskInv
  BY DEF JournalInv
<1>1. /\ Interrupted(p) /\ faulted' = faulted /\ handle' = "none" /\ size_bytes' = 0
      /\ next_sequence' = 1 /\ good_bytes' = 0 /\ writable' = FALSE
  BY DEF CrashInAppend, Gone
<1>2. /\ file' \in Files /\ flushed' \in Nat /\ flushed' <= Len(file')
      /\ acked' = acked /\ generation' = generation
      /\ ~faulted => Clean(file')
  BY <1>1, InterruptedIs
<1>3. DiskInv'
  BY <1>0, <1>1, <1>2 DEF DiskInv
<1>4. HandleInv'
  BY <1>1 DEF HandleInv
<1>5. OpenInv'
  BY <1>1 DEF OpenInv
<1>6. CleanInv'
  BY <1>1, <1>2 DEF CleanInv
<1> QED
  BY <1>3, <1>4, <1>5, <1>6 DEF JournalInv

\* Journal::flush keeps the invariant.
LEMMA FlushKeeps ==
  ASSUME JournalInv, Flush
  PROVE  JournalInv'
<1>0. DiskInv /\ HandleInv /\ OpenInv /\ CleanInv
  BY DEF JournalInv
<1>1. /\ file' = file /\ flushed' = Len(file) /\ acked' = acked /\ generation' = generation
      /\ faulted' = faulted /\ handle' = handle /\ size_bytes' = size_bytes
      /\ next_sequence' = next_sequence /\ good_bytes' = good_bytes /\ writable' = writable
  BY DEF Flush, history, journal
<1>2. DiskInv'
  BY <1>0, <1>1 DEF DiskInv, Files
<1>3. HandleInv'
  BY <1>0, <1>1 DEF HandleInv
<1>4. OpenInv'
  BY <1>0, <1>1 DEF OpenInv
<1>5. CleanInv'
  BY <1>0, <1>1 DEF CleanInv
<1> QED
  BY <1>2, <1>3, <1>4, <1>5 DEF JournalInv

\* Journal::close keeps it, whether its flush fails or not.
LEMMA CloseKeeps ==
  ASSUME JournalInv, Close
  PROVE  JournalInv'
<1>0. DiskInv /\ HandleInv /\ CleanInv
  BY DEF JournalInv
<1>1. /\ file' = file /\ flushed' \in {flushed, Len(file)}
      /\ acked' = acked /\ generation' = generation /\ handle' = "none"
      /\ size_bytes' = size_bytes /\ next_sequence' = next_sequence
      /\ good_bytes' = good_bytes /\ writable' = writable
  BY DEF Close, Release
<1>2. faulted' = faulted \/ faulted' = TRUE
  BY DEF Close
<1>3. DiskInv'
  <2>1. faulted' \in BOOLEAN
    BY <1>0, <1>2 DEF DiskInv
  <2> QED
    BY <1>0, <1>1, <2>1 DEF DiskInv, Files
<1>4. HandleInv'
  BY <1>0, <1>1 DEF HandleInv
<1>5. OpenInv'
  BY <1>1 DEF OpenInv
<1>6. CleanInv'
  BY <1>0, <1>1, <1>2 DEF CleanInv
<1> QED
  BY <1>3, <1>4, <1>5, <1>6 DEF JournalInv

\* What the callers compact to is a sequence of payloads.
LEMMA KeptRecords ==
  ASSUME JournalInv, NEW records \in Kept
  PROVE  records \in Seq(Payloads)
<1>1. handle # "none" /\ \E n \in 1..Len(Load) + 1 : records = SubSeq(Load, n, Len(Load))
  BY DEF Kept
<1>2. file \in Files /\ good_bytes \in Nat /\ good_bytes <= Len(file)
  BY <1>1 DEF JournalInv, DiskInv, HandleInv
<1>3. Truncate(file, good_bytes) \in Files
  BY <1>2, TruncateFile
<1>4. Load \in Seq(Payloads) /\ Len(Load) \in Nat
  BY <1>3, HistoryType DEF Load
<1> QED
  BY <1>1, <1>4

\* A compaction keeps the invariant, reopened or not.
LEMMA CompactKeeps ==
  ASSUME JournalInv, NEW records \in Kept, Compact(records)
  PROVE  JournalInv'
<1>0. DiskInv /\ HandleInv
  BY DEF JournalInv
<1>1. records \in Seq(Payloads) /\ Len(records) \in Nat /\ Len(records) <= MaxRecords
  BY KeptRecords DEF Compact, MayCompact
<1>2. /\ file' = Compacted(records) /\ flushed' = Len(file') /\ generation' = generation + 1
      /\ acked' = 0
  BY DEF Compact
<1>3. /\ file' \in Files /\ Len(file') >= HeaderLen
      /\ PreviousSeq(file', Len(file')) = Len(records)
  BY <1>1, <1>2, CompactedIs
<1>4. PICK b : Chain(file', b, Len(records)) /\ b[Len(records)] = Len(file')
  BY <1>1, <1>2, CompactedIs
<1>5. Len(file') \in Nat
  BY <1>3 DEF Files
<1>6. Clean(file')
  BY <1>4 DEF Clean
<1>7. CASE /\ handle' = "rw" /\ size_bytes' = Len(file') /\ good_bytes' = Len(file')
           /\ next_sequence' = Len(records) + 1 /\ writable' = TRUE /\ faulted' = faulted
  <2>1. DiskInv'
    BY <1>0, <1>2, <1>3, <1>5, <1>7 DEF DiskInv
  <2>2. HandleInv'
    BY <1>1, <1>5, <1>7 DEF HandleInv
  <2>3. NoneAfter(file', Len(file'))
    BY <1>5 DEF NoneAfter
  <2>4. OpenInv'
    BY <1>3, <1>4, <1>7, <2>3 DEF OpenInv, Positioned
  <2>5. CleanInv'
    BY <1>6, <1>7 DEF CleanInv
  <2> QED
    BY <2>1, <2>2, <2>4, <2>5 DEF JournalInv
<1>8. CASE Release /\ faulted' = TRUE
  <2>0. /\ handle' = "none" /\ size_bytes' = size_bytes /\ next_sequence' = next_sequence
        /\ good_bytes' = good_bytes /\ writable' = writable
    BY <1>8 DEF Release
  <2>1. DiskInv'
    <3>1. faulted' \in BOOLEAN
      BY <1>8
    <3> QED
      BY <1>0, <1>2, <1>3, <1>5, <3>1 DEF DiskInv
  <2>2. HandleInv'
    BY <1>0, <2>0 DEF HandleInv
  <2>3. OpenInv'
    BY <2>0 DEF OpenInv
  <2>4. CleanInv'
    BY <1>8 DEF CleanInv
  <2> QED
    BY <2>1, <2>2, <2>3, <2>4 DEF JournalInv
<1> QED
  BY <1>7, <1>8 DEF Compact

\* A compaction whose rename fails keeps it: the original file is untouched.
LEMMA CompactNotReplacedKeeps ==
  ASSUME JournalInv, NEW records \in Kept, CompactNotReplaced(records)
  PROVE  JournalInv'
<1>0. DiskInv /\ HandleInv
  BY DEF JournalInv
<1>1. /\ file' = file /\ flushed' = flushed /\ acked' = acked /\ generation' = generation
      /\ handle' = "none" /\ size_bytes' = size_bytes /\ next_sequence' = next_sequence
      /\ good_bytes' = good_bytes /\ writable' = writable /\ faulted' = TRUE
  BY DEF CompactNotReplaced, Release
<1>2. DiskInv'
  <2>1. faulted' \in BOOLEAN
    BY <1>1
  <2> QED
    BY <1>0, <1>1, <2>1 DEF DiskInv
<1>3. HandleInv'
  BY <1>0, <1>1 DEF HandleInv
<1>4. OpenInv'
  BY <1>1 DEF OpenInv
<1>5. CleanInv'
  BY <1>1 DEF CleanInv
<1> QED
  BY <1>2, <1>3, <1>4, <1>5 DEF JournalInv

\* A crash between operations keeps it: what is left is a prefix of the file.
LEMMA CrashKeeps ==
  ASSUME JournalInv, Crash
  PROVE  JournalInv'
<1>0. DiskInv /\ CleanInv
  BY DEF JournalInv
<1>1. PICK n \in flushed..Len(file) : file' = Truncate(file, n)
  BY DEF Crash
<1>2. /\ handle' = "none" /\ size_bytes' = 0 /\ next_sequence' = 1 /\ good_bytes' = 0
      /\ writable' = FALSE /\ flushed' = flushed /\ acked' = acked /\ generation' = generation
      /\ faulted' = faulted
  BY DEF Crash, Gone, history
<1>3. file \in Files /\ Len(file) \in Nat /\ flushed \in Nat
  BY <1>0 DEF DiskInv, Files
<1>4. n \in Nat /\ flushed <= n /\ n <= Len(file)
  BY <1>1, <1>3
<1>5. file' \in Files /\ Len(file') = n
  BY <1>1, <1>3, <1>4, TruncateFile
<1>6. DiskInv'
  BY <1>0, <1>2, <1>4, <1>5 DEF DiskInv
<1>7. HandleInv'
  BY <1>2 DEF HandleInv
<1>8. OpenInv'
  BY <1>2 DEF OpenInv
<1>9. CleanInv'
  <2> SUFFICES ASSUME ~faulted', Len(file') >= HeaderLen  PROVE Clean(file')
    BY <1>2 DEF CleanInv
  <2>1. HeaderLen <= n /\ HeaderLen <= Len(file) /\ HeaderLen \in Nat
    BY <1>3, <1>4, <1>5 DEF HeaderLen
  <2>2. Clean(file)
    BY <1>0, <1>2, <1>3, <2>1 DEF CleanInv
  <2> QED
    BY <1>1, <1>3, <1>4, <2>1, <2>2, CleanTruncate
<1> QED
  BY <1>6, <1>7, <1>8, <1>9 DEF JournalInv

\* Every step keeps the invariant while there is room for records.
LEMMA JournalStep ==
  ASSUME JournalInv, [Next]_vars, [Appends => HasRoom]_vars
  PROVE  JournalInv'
<1>1. CASE Next /\ (Appends => HasRoom)
  <2>1. CASE Appends
    BY <1>1, <2>1, AppendRecordKeeps, AppendFailsKeeps, CrashInAppendKeeps DEF Appends
  <2>2. CASE ~Appends
    BY <1>1, <2>2, OpenKeeps, CompactKeeps, CompactNotReplacedKeeps, FlushKeeps, CloseKeeps,
       CrashKeeps DEF Next, Appends
  <2> QED
    BY <2>1, <2>2
<1>2. CASE UNCHANGED vars
  BY <1>2 DEF vars, disk, history, journal, JournalInv, DiskInv, HandleInv, OpenInv, CleanInv
<1> QED
  BY <1>1, <1>2

--------------------------------------------------------------------------------
\* The mapped state: the durable log begins the history, the rest of which is pending.
LEMMA MappedState ==
  ASSUME JournalInv
  PROVE  /\ Settled \in Nat /\ Settled <= Len(file) /\ Settled <= flushed
         /\ DurableLog \in Seq(Payloads) /\ History(file) \in Seq(Payloads)
         /\ Begins(DurableLog, History(file))
         /\ Pending = Rest(DurableLog, History(file))
<1>1. file \in Files /\ Len(file) \in Nat /\ flushed \in Nat /\ size_bytes \in Nat /\ flushed <= Len(file)
  BY DEF JournalInv, DiskInv, HandleInv, Files
<1>2. Min({flushed, size_bytes}) \in {flushed, size_bytes} /\ Min({flushed, size_bytes}) <= flushed
  BY <1>1, TwoBounds
<1>3. Settled \in Nat /\ Settled <= Len(file) /\ Settled <= flushed
  BY <1>1, <1>2 DEF Settled
<1>4. Truncate(file, Settled) \in Files
  BY <1>1, <1>3, TruncateFile
<1>5. DurableLog \in Seq(Payloads) /\ History(file) \in Seq(Payloads)
  BY <1>1, <1>4, HistoryType DEF DurableLog
<1>6. Begins(DurableLog, History(file))
  BY <1>1, <1>3, HistoryOfPrefix DEF DurableLog
<1> QED
  BY <1>3, <1>5, <1>6 DEF Pending, Rest

\* The same of the state after a step.
LEMMA MappedStatePrime ==
  ASSUME JournalInv'
  PROVE  /\ Settled' \in Nat /\ Settled' <= Len(file') /\ Settled' <= flushed'
         /\ DurableLog' \in Seq(Payloads) /\ History(file') \in Seq(Payloads)
         /\ Begins(DurableLog', History(file'))
         /\ Pending' = Rest(DurableLog', History(file'))
         /\ DurableLog' = History(Truncate(file', Settled'))
<1>1. /\ file' \in Files /\ Len(file') \in Nat /\ flushed' \in Nat /\ size_bytes' \in Nat
      /\ flushed' <= Len(file')
  BY DEF JournalInv, DiskInv, HandleInv, Files
<1>2. /\ Min({flushed', size_bytes'}) \in {flushed', size_bytes'}
      /\ Min({flushed', size_bytes'}) <= flushed'
  BY <1>1, TwoBounds
<1>3. Settled' \in Nat /\ Settled' <= Len(file') /\ Settled' <= flushed'
  BY <1>1, <1>2 DEF Settled
<1>4. Truncate(file', Settled') \in Files
  BY <1>1, <1>3, TruncateFile
<1>5. DurableLog' = History(Truncate(file', Settled'))
  BY DEF DurableLog
<1>6. DurableLog' \in Seq(Payloads) /\ History(file') \in Seq(Payloads)
  BY <1>5, <1>1, <1>4, HistoryType
<1>7. Begins(DurableLog', History(file'))
  BY <1>5, <1>1, <1>3, HistoryOfPrefix
<1> QED
  BY <1>5, <1>3, <1>6, <1>7 DEF Pending, Rest

\* A longer prefix of a file has a longer history.
LEMMA LongerPrefix ==
  ASSUME NEW f \in Files, NEW n \in Nat, NEW m \in Nat, n <= m, m <= Len(f)
  PROVE  Begins(History(Truncate(f, n)), History(Truncate(f, m)))
<1>0. f \in Seq(Cell) /\ Len(f) \in Nat
  BY DEF Files
<1>1. Truncate(f, m) \in Files /\ Len(Truncate(f, m)) = m
  BY TruncateFile
<1>2. Begins(History(Truncate(Truncate(f, m), n)), History(Truncate(f, m)))
  BY <1>1, HistoryOfPrefix
<1>3. Truncate(Truncate(f, m), n) = Truncate(f, n)
  BY <1>0, TruncateTwice
<1> QED
  BY <1>2, <1>3

\* Steps that lose records from the end, settle them, or change nothing.
LEMMA Settles ==
  ASSUME JournalInv, JournalInv', Begins(DurableLog, DurableLog'),
         Begins(History(file'), History(file)), acked' = acked, generation' = generation
  PROVE  L!Settle
<1>1. /\ DurableLog \in Seq(Payloads) /\ History(file) \in Seq(Payloads)
      /\ Begins(DurableLog, History(file)) /\ Pending = Rest(DurableLog, History(file))
  BY MappedState
<1>2. /\ DurableLog' \in Seq(Payloads) /\ History(file') \in Seq(Payloads)
      /\ Begins(DurableLog', History(file')) /\ Pending' = Rest(DurableLog', History(file'))
  BY MappedStatePrime
<1>3. SomeSettle(DurableLog, History(file), DurableLog', History(file'))
  BY <1>1, <1>2, SettleIs
<1>4. \E kept \in L!Prefixes(Pending) :
        \E n \in 0..Len(kept) :
          /\ DurableLog' = DurableLog \o SubSeq(kept, 1, n)
          /\ Pending' = SubSeq(kept, n + 1, Len(kept))
  BY <1>1, <1>2, <1>3 DEF SomeSettle
<1> QED
  BY <1>4 DEF L!Settle

\* With the file as it was, that is so when no less of it is settled.
LEMMA SettlesInPlace ==
  ASSUME JournalInv, JournalInv', file' = file, Settled <= Settled', acked' = acked,
         generation' = generation
  PROVE  L!Settle
<1>1. file \in Files /\ Settled \in Nat /\ History(file) \in Seq(Payloads)
  BY MappedState DEF JournalInv, DiskInv
<1>2. Settled' \in Nat /\ Settled' <= Len(file) /\ DurableLog' = History(Truncate(file, Settled'))
  BY MappedStatePrime
<1>3. Begins(DurableLog, DurableLog')
  BY <1>1, <1>2, LongerPrefix DEF DurableLog
<1>4. Begins(History(file'), History(file))
  BY <1>1, RestOfSelf
<1> QED
  BY <1>3, <1>4, Settles

\* A replaced history.
LEMMA ReplacesHistory ==
  ASSUME JournalInv', DurableLog' = History(file'), acked' = 0, generation' = generation + 1
  PROVE  L!Replace
<1>1. /\ DurableLog' \in Seq(Payloads) /\ Pending' = Rest(DurableLog', History(file'))
  BY MappedStatePrime
<1>2. Pending' = <<>>
  BY <1>1, RestOfSelf
<1> QED
  BY <1>1, <1>2 DEF L!Replace

\* A new header replaces the history, or changes nothing when there was none.
LEMMA OpenFreshMaps ==
  ASSUME JournalInv, JournalInv', NEW mode \in Modes, handle = "none",
         OpenFresh(mode) \/ OpenFreshFails(mode)
  PROVE  L!Next
<1>1. History(file') = <<>>
  <2>1. CASE OpenFresh(mode)
    BY <2>1, HeaderIs DEF OpenFresh
  <2>2. CASE OpenFreshFails(mode)
    <3>1. PICK n \in 0..HeaderLen : file' = WriteAt(<<>>, 0, MakeHeader, n)
      BY <2>2 DEF OpenFreshFails
    <3> QED
      BY <3>1, HeaderPart
  <2> QED
    BY <2>1, <2>2
<1>2. DurableLog' = <<>>
  <2>1. DurableLog' \in Seq(Payloads) /\ Begins(DurableLog', History(file'))
    BY MappedStatePrime
  <2>2. Len(DurableLog') <= 0
    BY <1>1, <2>1 DEF Begins
  <2> QED
    BY <2>1, <2>2
<1>3. CountsReplacement(mode)
  BY DEF OpenFresh, OpenFreshFails
<1>4. CASE Replaces(mode)
  <2>1. acked' = 0 /\ generation' = generation + 1
    BY <1>3, <1>4 DEF CountsReplacement
  <2> QED
    BY <1>1, <1>2, <2>1, ReplacesHistory DEF L!Next
<1>5. CASE ~Replaces(mode)
  <2>1. acked' = acked /\ generation' = generation
    <3>1. generation \in Nat
      BY DEF JournalInv, DiskInv
    <3> QED
      BY <1>3, <1>5, <3>1 DEF CountsReplacement
  <2>2. file = <<>>
    BY <1>5 DEF Replaces, OpenFresh, OpenFreshFails
  <2>3. History(file) = <<>>
    BY <2>2 DEF History, HeaderLen
  <2>4. DurableLog = <<>>
    <3>1. DurableLog \in Seq(Payloads) /\ Begins(DurableLog, History(file))
      BY MappedState
    <3>2. Len(DurableLog) <= 0
      BY <2>3, <3>1 DEF Begins
    <3> QED
      BY <3>1, <3>2
  <2>5. Begins(<<>>, <<>>)
    BY DEF Begins
  <2>6. L!Settle
    BY <1>1, <1>2, <2>1, <2>3, <2>4, <2>5, Settles
  <2> QED
    BY <2>6 DEF L!Next
<1> QED
  BY <1>4, <1>5

\* An open that writes nothing changes nothing of the log.
LEMMA OpenPlainMaps ==
  ASSUME JournalInv, JournalInv', NEW mode \in Modes, handle = "none",
         OpenShort(mode) \/ OpenScanned(mode)
  PROVE  L!Next
<1>1. file' = file /\ flushed' = flushed /\ acked' = acked /\ generation' = generation
  BY DEF OpenShort, OpenScanned, disk, history
<1>2. Settled = flushed
  BY DEF Settled
<1>3. Settled' = flushed
  <2>1. flushed \in Nat /\ Len(file) \in Nat /\ flushed <= Len(file)
    BY DEF JournalInv, DiskInv, Files
  <2>2. CASE OpenShort(mode)
    <3>1. writable' = FALSE
      BY <2>2 DEF OpenShort
    <3> QED
      BY <1>1, <3>1 DEF Settled
  <2>3. CASE OpenScanned(mode)
    <3>1. size_bytes' = Len(file)
      BY <2>3 DEF OpenScanned
    <3>2. Min({flushed, Len(file)}) \in {flushed, Len(file)} /\ Min({flushed, Len(file)}) <= flushed
      BY <2>1, TwoBounds
    <3>3. Min({flushed, Len(file)}) = flushed
      BY <2>1, <3>2
    <3> QED
      BY <1>1, <3>1, <3>3 DEF Settled
  <2> QED
    BY <2>2, <2>3
<1>4. Settled <= Settled'
  BY <1>2, <1>3, MappedState
<1>5. L!Settle
  BY <1>1, <1>4, SettlesInPlace
<1> QED
  BY <1>5 DEF L!Next

\* Cutting off a torn tail settles every complete record; failing to do so loses none.
LEMMA OpenTornMaps ==
  ASSUME JournalInv, JournalInv', NEW mode \in Modes, handle = "none",
         OpenTorn(mode) \/ OpenTornFails(mode)
  PROVE  L!Next
<1> DEFINE g == Scan(file).good
<1>0. file \in Files /\ flushed \in Nat /\ flushed <= Len(file) /\ file \in Seq(Cell) /\ Len(file) \in Nat
  BY DEF JournalInv, DiskInv, Files
<1>1. /\ Len(file) >= HeaderLen /\ file' \in {file, Truncate(file, g)}
      /\ acked' = acked /\ generation' = generation
  BY DEF OpenTorn, OpenTornFails, history
<1>2. g \in Nat /\ g <= Len(file) /\ History(Truncate(file, g)) = History(file)
  BY <1>0, <1>1, GoodPrefix
<1>3. History(file') = History(file)
  BY <1>1, <1>2
<1>4. /\ Settled \in Nat /\ DurableLog \in Seq(Payloads) /\ History(file) \in Seq(Payloads)
      /\ Begins(DurableLog, History(file)) /\ Settled = flushed
  BY MappedState DEF Settled
<1>5. Begins(DurableLog, DurableLog')
  <2>0. /\ Settled' \in Nat /\ DurableLog' \in Seq(Payloads)
        /\ Begins(DurableLog', History(file')) /\ DurableLog' = History(Truncate(file', Settled'))
        /\ Settled' <= Len(file')
    BY MappedStatePrime
  <2>1. CASE OpenTorn(mode)
    <3>1. file' = Truncate(file, g) /\ flushed' = g /\ size_bytes' = g
      BY <2>1 DEF OpenTorn
    <3>2. Settled' = g
      <4>1. Min({g, g}) = g
        BY <1>2, TwoBounds
      <4> QED
        BY <3>1, <4>1 DEF Settled
    <3>3. DurableLog' = History(file)
      <4>1. Truncate(Truncate(file, g), g) = Truncate(file, g)
        BY <1>0, <1>2, TruncateTwice
      <4> QED
        BY <1>2, <2>0, <3>1, <3>2, <4>1
    <3> QED
      BY <1>4, <3>3
  <2>2. CASE OpenTornFails(mode)
    <3>1. flushed' = Min({flushed, g}) /\ writable' = FALSE
      BY <2>2 DEF OpenTornFails
    <3> DEFINE m == Min({flushed, g})
    <3>2. m \in {flushed, g} /\ m <= flushed /\ m <= g /\ m \in Nat
      BY <1>0, <1>2, TwoBounds
    <3> HIDE DEF m
    <3>3. Settled' = m
      BY <3>1 DEF Settled, m
    <3>4. Truncate(file', m) = Truncate(file, m)
      <4>1. Truncate(Truncate(file, g), m) = Truncate(file, m)
        BY <1>0, <1>2, <3>2, TruncateTwice
      <4> QED
        BY <1>1, <4>1
    <3>5. DurableLog' = History(Truncate(file, m))
      BY <2>0, <3>3, <3>4
    <3>6. CASE m = flushed
      <4>1. DurableLog' = DurableLog
        BY <1>4, <3>5, <3>6 DEF DurableLog
      <4> QED
        BY <1>4, <4>1, RestOfSelf
    <3>7. CASE m = g
      <4>1. DurableLog' = History(file)
        BY <1>2, <3>5, <3>7
      <4> QED
        BY <1>4, <4>1
    <3> QED
      BY <3>2, <3>6, <3>7
  <2> QED
    BY <2>1, <2>2
<1>6. Begins(History(file'), History(file))
  BY <1>3, <1>4, RestOfSelf
<1>7. L!Settle
  BY <1>1, <1>5, <1>6, Settles
<1> QED
  BY <1>7 DEF L!Next

\* What the records before size_bytes are, in the file and in the durable log.
LEMMA SettledBase ==
  ASSUME JournalInv, HasRoom, NEW p \in Payloads, MayAppend(p)
  PROVE  LET x == History(Truncate(file, size_bytes))
         IN  /\ x \in Seq(Payloads) /\ Begins(DurableLog, x) /\ Begins(x, History(file))
             /\ Settled = Min({flushed, size_bytes}) /\ Settled <= size_bytes
<1>1. file \in Files /\ Len(file) \in Nat /\ size_bytes <= Len(file)
  BY AppendBase
<1>2. size_bytes \in Nat /\ flushed \in Nat
  BY DEF JournalInv, DiskInv, HandleInv
<1>3. Settled = Min({flushed, size_bytes})
  BY DEF Settled, MayAppend
<1>4. Settled <= size_bytes /\ Settled \in Nat
  BY <1>2, <1>3, TwoBounds
<1>5. Truncate(file, size_bytes) \in Files
  BY <1>1, <1>2, TruncateFile
<1>6. History(Truncate(file, size_bytes)) \in Seq(Payloads)
  BY <1>5, HistoryType
<1>7. Begins(DurableLog, History(Truncate(file, size_bytes)))
  BY <1>1, <1>2, <1>4, LongerPrefix DEF DurableLog
<1>8. Begins(History(Truncate(file, size_bytes)), History(file))
  BY <1>1, <1>2, HistoryOfPrefix
<1> QED
  BY <1>3, <1>4, <1>6, <1>7, <1>8

\* An append that succeeds is an acknowledged one.
LEMMA AppendRecordMaps ==
  ASSUME JournalInv, JournalInv', HasRoom, NEW p \in Payloads, AppendRecord(p)
  PROVE  L!Next
<1> DEFINE x == History(Truncate(file, size_bytes))
<1>1. MayAppend(p)
  BY DEF AppendRecord
<1>2. x \in Seq(Payloads) /\ Begins(DurableLog, x) /\ Begins(x, History(file))
  BY <1>1, SettledBase
<1>3. /\ file' = WriteAt(file, size_bytes, MakeRecord(p, next_sequence), Length[p])
      /\ size_bytes' = size_bytes + Length[p] /\ flushed' = size_bytes'
      /\ acked' = acked + 1 /\ generation' = generation /\ handle' = handle /\ writable' = writable
  BY DEF AppendRecord
<1>4. /\ file \in Files /\ Len(file) >= HeaderLen
      /\ next_sequence = PreviousSeq(file, size_bytes) + 1 /\ NoneAfter(file, size_bytes)
  BY <1>1, AppendBase DEF Positioned
<1>5. PICK b, j : Chain(file, b, j) /\ b[j] = size_bytes /\ j < MaxRecords
  BY <1>1, AppendBase
<1>6. x = Passed(file, b, 0, j)
  BY <1>4, <1>5, HistoryAt
<1>7. PICK c : Appended(file, b, j, p, file', c)
  BY <1>3, <1>4, <1>5, AppendedIs
<1>8. History(file') = Append(x, p) /\ History(Truncate(file', size_bytes')) = Append(x, p)
  BY <1>3, <1>5, <1>6, <1>7 DEF Appended
<1> HIDE DEF x
<1>9. DurableLog' = Append(x, p)
  <2>1. handle' # "none" /\ writable'
    BY <1>1, <1>3 DEF MayAppend
  <2>2. size_bytes' \in Nat
    BY DEF JournalInv, HandleInv
  <2>3. Min({size_bytes', size_bytes'}) = size_bytes'
    BY <2>2, TwoBounds
  <2>4. Settled' = size_bytes'
    BY <1>3, <2>1, <2>3 DEF Settled
  <2>5. DurableLog' = History(Truncate(file', Settled'))
    BY MappedStatePrime
  <2> QED
    BY <1>8, <2>4, <2>5
<1>10. Pending' = <<>>
  <2>1. DurableLog' \in Seq(Payloads) /\ Pending' = Rest(DurableLog', History(file'))
    BY MappedStatePrime
  <2> QED
    BY <1>8, <1>9, <2>1, RestOfSelf
<1>11. /\ DurableLog \in Seq(Payloads) /\ History(file) \in Seq(Payloads)
       /\ Pending = Rest(DurableLog, History(file))
  BY MappedState
<1>12. \E q \in Payloads, kept \in L!Prefixes(Rest(DurableLog, History(file))) :
         Append(x, p) = DurableLog \o kept \o <<q>>
  BY <1>2, <1>11, AcknowledgeIs
<1>13. \E q \in Payloads, kept \in L!Prefixes(Pending) : DurableLog' = DurableLog \o kept \o <<q>>
  BY <1>9, <1>11, <1>12
<1>14. L!Acknowledge
  BY <1>3, <1>10, <1>13 DEF L!Acknowledge
<1> QED
  BY <1>14 DEF L!Next

\* An interrupted append, with the journal still open or gone.
LEMMA InterruptedMaps ==
  ASSUME JournalInv, JournalInv', HasRoom, NEW p \in Payloads, Interrupted(p),
         Settled' = flushed'
  PROVE  L!Next
<1> DEFINE x == History(Truncate(file, size_bytes))
<1>1. MayAppend(p)
  BY DEF Interrupted
<1>2. /\ x \in Seq(Payloads) /\ Begins(DurableLog, x) /\ Begins(x, History(file))
      /\ Settled = Min({flushed, size_bytes}) /\ Settled <= size_bytes
  BY <1>1, SettledBase
<1>3. /\ file' \in Files /\ Positioned(file', size_bytes, next_sequence)
      /\ \A m \in Nat : m <= size_bytes => Truncate(file', m) = Truncate(file, m)
      /\ flushed' = Min({flushed, size_bytes}) /\ acked' = acked /\ generation' = generation
  BY InterruptedIs
<1>4. /\ DurableLog \in Seq(Payloads) /\ History(file) \in Seq(Payloads) /\ Settled \in Nat
      /\ Pending = Rest(DurableLog, History(file))
  BY MappedState
<1>5. /\ DurableLog' = History(Truncate(file', Settled')) /\ History(file') \in Seq(Payloads)
      /\ Pending' = Rest(DurableLog', History(file'))
  BY MappedStatePrime
<1>6. DurableLog' = DurableLog
  BY <1>2, <1>3, <1>4, <1>5 DEF DurableLog
<1>7. PICK b, j : Chain(file', b, j) /\ b[j] = size_bytes
  BY <1>3 DEF Positioned
<1>8. Len(file') >= HeaderLen /\ NoneAfter(file', size_bytes)
  BY <1>3 DEF Positioned
<1>9. Passed(file', b, 0, j) = x
  <2>1. History(Truncate(file', b[j])) = Passed(file', b, 0, j)
    BY <1>3, <1>7, <1>8, HistoryAt
  <2>2. size_bytes \in Nat /\ size_bytes <= size_bytes
    BY DEF JournalInv, HandleInv
  <2>3. Truncate(file', size_bytes) = Truncate(file, size_bytes)
    BY <1>3, <2>2
  <2> QED
    BY <1>7, <2>1, <2>3
<1>10. History(file') = x \/ \E q \in Payloads : History(file') = Append(x, q)
  BY <1>3, <1>7, <1>8, <1>9, AfterBase
<1> HIDE DEF x
<1>11. \E q \in Payloads, kept \in L!Prefixes(Rest(DurableLog, History(file))) :
         Rest(DurableLog, History(file')) \in {kept, Append(kept, q)}
  BY <1>2, <1>4, <1>5, <1>10, FailIs
<1>12. \E q \in Payloads, kept \in L!Prefixes(Pending) : Pending' \in {kept, Append(kept, q)}
  BY <1>4, <1>5, <1>6, <1>11
<1>13. L!Fail
  BY <1>3, <1>6, <1>12 DEF L!Fail
<1> QED
  BY <1>13 DEF L!Next

\* A failed append is one.
LEMMA AppendFailsMaps ==
  ASSUME JournalInv, JournalInv', HasRoom, NEW p \in Payloads, AppendFails(p)
  PROVE  L!Next
<1>1. Interrupted(p) /\ handle' = handle /\ writable' = writable /\ size_bytes' = size_bytes
  BY DEF AppendFails, journal
<1>2. handle # "none" /\ writable
  BY <1>1 DEF Interrupted, MayAppend
<1>3. flushed' \in Nat /\ flushed' <= size_bytes /\ size_bytes \in Nat
  BY <1>1, InterruptedIs DEF JournalInv, HandleInv
<1>4. Min({flushed', size_bytes}) \in {flushed', size_bytes} /\ Min({flushed', size_bytes}) <= flushed'
  BY <1>3, TwoBounds
<1>5. Min({flushed', size_bytes}) = flushed'
  BY <1>3, <1>4
<1>6. Settled' = flushed'
  BY <1>1, <1>2, <1>5 DEF Settled
<1> QED
  BY <1>1, <1>6, InterruptedMaps

\* A crash within an append is a failed append.
LEMMA CrashInAppendMaps ==
  ASSUME JournalInv, JournalInv', HasRoom, NEW p \in Payloads, CrashInAppend(p)
  PROVE  L!Next
<1>1. Interrupted(p) /\ handle' = "none"
  BY DEF CrashInAppend, Gone
<1>2. Settled' = flushed'
  BY <1>1 DEF Settled
<1> QED
  BY <1>1, <1>2, InterruptedMaps

\* A compaction replaces the history, reopened or not.
LEMMA CompactMaps ==
  ASSUME JournalInv, JournalInv', NEW records \in Kept, Compact(records)
  PROVE  L!Next
<1>1. flushed' = Len(file') /\ acked' = 0 /\ generation' = generation + 1
  BY DEF Compact
<1>2. file' \in Seq(Cell) /\ Len(file') \in Nat
  BY DEF JournalInv, DiskInv, Files
<1>3. Settled' = Len(file')
  <2>1. CASE handle' = "rw" /\ size_bytes' = Len(file')
    <3>1. Min({Len(file'), Len(file')}) = Len(file')
      BY <1>2, TwoBounds
    <3> QED
      BY <1>1, <2>1, <3>1 DEF Settled
  <2>2. CASE handle' = "none"
    BY <1>1, <2>2 DEF Settled
  <2> QED
    BY <2>1, <2>2 DEF Compact, Release
<1>4. Truncate(file', Len(file')) = file'
  BY <1>2, SubSeqFull DEF Truncate
<1>5. DurableLog' = History(file')
  BY <1>3, <1>4, MappedStatePrime
<1> QED
  BY <1>1, <1>5, ReplacesHistory DEF L!Next

\* A flush, a close and a compaction that is not carried out settle records at most.
LEMMA PlainMaps ==
  ASSUME JournalInv, JournalInv',
         Flush \/ Close \/ \E records \in Kept : CompactNotReplaced(records)
  PROVE  L!Next
<1>1. file' = file /\ acked' = acked /\ generation' = generation
  BY DEF Flush, Close, CompactNotReplaced, history
<1>2. flushed \in Nat /\ Len(file) \in Nat /\ flushed <= Len(file) /\ size_bytes \in Nat
  BY DEF JournalInv, DiskInv, HandleInv, Files
<1>3. /\ Settled \in Nat /\ Settled <= flushed /\ Settled <= Len(file)
  BY MappedState
<1>4. Settled <= Settled'
  <2>1. CASE Flush
    <3>1. /\ flushed' = Len(file) /\ handle' = handle /\ writable' = writable
          /\ size_bytes' = size_bytes
      BY <2>1 DEF Flush, journal
    <3>2. CASE handle # "none" /\ writable
      <4>1. Settled = Min({flushed, size_bytes}) /\ Settled' = Min({Len(file), size_bytes})
        BY <3>1, <3>2 DEF Settled
      <4>2. Settled <= size_bytes
        BY <1>2, <4>1, TwoBounds
      <4>3. Settled' \in {Len(file), size_bytes}
        BY <1>2, <4>1, TwoBounds
      <4> QED
        BY <1>2, <1>3, <4>2, <4>3
    <3>3. CASE ~(handle # "none" /\ writable)
      <4>1. Settled' = Len(file)
        BY <3>1, <3>3 DEF Settled
      <4> QED
        BY <1>3, <4>1
    <3> QED
      BY <3>2, <3>3
  <2>2. CASE Close \/ \E records \in Kept : CompactNotReplaced(records)
    <3>1. handle' = "none" /\ flushed' \in {flushed, Len(file)}
      BY <2>2 DEF Close, CompactNotReplaced, Release
    <3>2. Settled' = flushed'
      BY <3>1 DEF Settled
    <3> QED
      BY <1>3, <3>1, <3>2
  <2> QED
    BY <2>1, <2>2
<1>5. L!Settle
  BY <1>1, <1>4, SettlesInPlace
<1> QED
  BY <1>5 DEF L!Next

\* A crash settles what was flushed and loses records from the end.
LEMMA CrashMaps ==
  ASSUME JournalInv, JournalInv', Crash
  PROVE  L!Next
<1>0. file \in Files /\ Len(file) \in Nat /\ flushed \in Nat /\ flushed <= Len(file) /\ file \in Seq(Cell)
  BY DEF JournalInv, DiskInv, Files
<1>1. PICK n \in flushed..Len(file) : file' = Truncate(file, n)
  BY DEF Crash
<1>2. handle' = "none" /\ flushed' = flushed /\ acked' = acked /\ generation' = generation
  BY DEF Crash, Gone, history
<1>3. n \in Nat /\ flushed <= n /\ n <= Len(file)
  BY <1>0, <1>1
<1>4. Begins(History(file'), History(file))
  BY <1>0, <1>1, <1>3, HistoryOfPrefix
<1>5. Settled' = flushed
  BY <1>2 DEF Settled
<1>6. DurableLog' = History(Truncate(file, flushed))
  <2>1. Truncate(Truncate(file, n), flushed) = Truncate(file, flushed)
    BY <1>0, <1>3, TruncateTwice
  <2> QED
    BY <1>1, <1>5, <2>1, MappedStatePrime
<1>7. Begins(DurableLog, DurableLog')
  <2>1. Settled \in Nat /\ Settled <= flushed
    BY MappedState
  <2> QED
    BY <1>0, <1>6, <2>1, LongerPrefix DEF DurableLog
<1>8. L!Settle
  BY <1>2, <1>4, <1>7, Settles
<1> QED
  BY <1>8 DEF L!Next

\* Every step of the journal is a step of the log, or changes nothing of it.
LEMMA StepMaps ==
  ASSUME JournalInv, JournalInv', [Next]_vars, [Appends => HasRoom]_vars
  PROVE  [L!Next]_L!vars
<1>1. CASE \E mode \in Modes : Open(mode)
  BY <1>1, OpenFreshMaps, OpenPlainMaps, OpenTornMaps DEF Open
<1>2. CASE Appends /\ HasRoom
  BY <1>2, AppendRecordMaps, AppendFailsMaps, CrashInAppendMaps DEF Appends
<1>3. CASE \E records \in Kept : Compact(records) \/ CompactNotReplaced(records)
  BY <1>3, CompactMaps, PlainMaps
<1>4. CASE Flush \/ Close
  BY <1>4, PlainMaps
<1>5. CASE Crash
  BY <1>5, CrashMaps
<1>6. CASE UNCHANGED vars
  <2>1. /\ file' = file /\ flushed' = flushed /\ acked' = acked /\ generation' = generation
        /\ handle' = handle /\ size_bytes' = size_bytes /\ writable' = writable
    BY <1>6 DEF vars, disk, history, journal
  <2>2. Settled' = Settled
    BY <2>1 DEF Settled
  <2>3. DurableLog' = DurableLog
    BY <2>1, <2>2 DEF DurableLog
  <2>4. Pending' = Pending
    BY <2>1, <2>3 DEF Pending
  <2> QED
    BY <2>1, <2>3, <2>4 DEF L!vars
<1> QED
  BY <1>1, <1>2, <1>3, <1>4, <1>5, <1>6 DEF Next, Appends

\* A journal without a file is the empty log.
LEMMA LogStarts ==
  ASSUME Init
  PROVE  L!Init
<1>1. file = <<>> /\ flushed = 0 /\ handle = "none" /\ acked = 0 /\ generation = 0
  BY DEF Init
<1>2. JournalInv
  BY JournalInit
<1>3. History(file) = <<>>
  BY <1>1 DEF History, HeaderLen
<1>4. /\ DurableLog \in Seq(Payloads) /\ Begins(DurableLog, History(file))
      /\ Pending = Rest(DurableLog, History(file))
  BY <1>2, MappedState
<1>5. DurableLog = <<>>
  <2>1. Len(DurableLog) <= 0
    BY <1>3, <1>4 DEF Begins
  <2> QED
    BY <1>4, <2>1
<1>6. Pending = <<>>
  BY <1>3, <1>4, <1>5, RestOfSelf
<1> QED
  BY <1>1, <1>5, <1>6 DEF L!Init

\* What a successful open for writing serves.
LEMMA OpenServes ==
  ASSUME JournalInv, JournalInv', [Next]_vars,
         handle = "none", handle' = "rw", writable', generation' = generation
  PROVE  Load' = DurableLog \o Pending
<1>0. file \in Files /\ file \in Seq(Cell) /\ generation \in Nat
  BY DEF JournalInv, DiskInv, Files
<1>1. /\ DurableLog \in Seq(Payloads) /\ History(file) \in Seq(Payloads)
      /\ Begins(DurableLog, History(file)) /\ Pending = Rest(DurableLog, History(file))
  BY MappedState
<1>2. DurableLog \o Pending = History(file)
  BY <1>1, RestIs
<1>3. PICK mode \in Modes : Open(mode)
  <2>1. handle' # handle
    OBVIOUS
  <2>2. ~UNCHANGED vars
    BY <2>1 DEF vars, journal
  <2>3. Next
    BY <2>2
  <2>4. \A p \in Payloads : ~MayAppend(p)
    BY DEF MayAppend
  <2>5. ~\E p \in Payloads : AppendRecord(p) \/ AppendFails(p) \/ CrashInAppend(p)
    BY <2>4 DEF AppendRecord, AppendFails, CrashInAppend, Interrupted
  <2>6. ~\E records \in Kept : Compact(records) \/ CompactNotReplaced(records)
    BY DEF Kept
  <2>7. ~(Flush \/ Close \/ Crash)
    BY DEF Flush, Close, Crash, Gone
  <2> QED
    BY <2>3, <2>5, <2>6, <2>7 DEF Next
<1>4. Load' = History(Truncate(file', good_bytes'))
  BY DEF Load
<1>5. CASE OpenFresh(mode)
  <2>1. file = <<>>
    BY <1>0, <1>5 DEF OpenFresh, CountsReplacement, Replaces
  <2>2. History(file) = <<>>
    BY <2>1 DEF History, HeaderLen
  <2>3. file' = MakeHeader /\ good_bytes' = HeaderLen
    BY <1>5 DEF OpenFresh
  <2>4. MakeHeader \in Seq(Cell) /\ Len(MakeHeader) = HeaderLen /\ History(MakeHeader) = <<>>
    BY HeaderIs DEF Files
  <2>5. Truncate(MakeHeader, HeaderLen) = MakeHeader
    BY <2>4, SubSeqFull DEF Truncate
  <2> QED
    BY <1>2, <1>4, <2>2, <2>3, <2>4, <2>5
<1>6. CASE OpenFreshFails(mode)
  BY <1>6 DEF OpenFreshFails, journal
<1>7. CASE OpenShort(mode)
  BY <1>7 DEF OpenShort
<1>8. CASE OpenScanned(mode)
  <2>1. file' = file /\ good_bytes' = Scan(file).good /\ Len(file) >= HeaderLen
    BY <1>8 DEF OpenScanned, Recovered, disk
  <2> QED
    BY <1>0, <1>2, <1>4, <2>1, GoodPrefix
<1>9. CASE OpenTorn(mode)
  <2>1. /\ file' = Truncate(file, Scan(file).good) /\ good_bytes' = Scan(file).good
        /\ Len(file) >= HeaderLen
    BY <1>9 DEF OpenTorn, Recovered
  <2>2. /\ Scan(file).good \in Nat /\ Scan(file).good <= Len(file)
        /\ History(Truncate(file, Scan(file).good)) = History(file)
    BY <1>0, <2>1, GoodPrefix
  <2>3. Truncate(Truncate(file, Scan(file).good), Scan(file).good) = Truncate(file, Scan(file).good)
    BY <1>0, <2>2, TruncateTwice
  <2> QED
    BY <1>2, <1>4, <2>1, <2>2, <2>3
<1>10. CASE OpenTornFails(mode)
  BY <1>10 DEF OpenTornFails
<1> QED
  BY <1>3, <1>5, <1>6, <1>7, <1>8, <1>9, <1>10 DEF Open

\* The byte bound is reached before the record bound: a record has two cells at least.
RecordsFit == MaxBytes < HeaderLen + 2 * (MaxRecords + 1)

\* Then an append that the byte bound admits is within the record bound.
LEMMA RecordsFitIsRoom ==
  ASSUME JournalInv, RecordsFit
  PROVE  Appends => HasRoom
<1> SUFFICES ASSUME NEW p \in Payloads, MayAppend(p)
             PROVE  Len(History(Truncate(file, size_bytes))) < MaxRecords
  BY DEF HasRoom, Appends, AppendRecord, AppendFails, CrashInAppend, Interrupted
<1>1. Positioned(file, size_bytes, next_sequence) /\ file \in Files /\ size_bytes \in Nat
  BY DEF JournalInv, OpenInv, MayAppend, DiskInv, HandleInv
<1>2. PICK b, j : Chain(file, b, j) /\ b[j] = size_bytes
  BY <1>1 DEF Positioned
<1>3. Len(file) >= HeaderLen /\ file \in Seq(Cell) /\ j \in Nat
  BY <1>1, <1>2 DEF Positioned, Files, Chain
<1>4. Len(History(Truncate(file, size_bytes))) = j
  BY <1>1, <1>2, <1>3, HistoryAt
<1>5. HeaderLen + 2 * j <= size_bytes
  BY <1>2, <1>3, ChainGrows
<1>6. Length[p] \in Nat /\ Length[p] >= 2 /\ size_bytes + Length[p] <= MaxBytes
  BY LengthAssumption DEF MayAppend
<1>7. j < MaxRecords
  BY <1>1, <1>3, <1>5, <1>6, BoundsAssumption DEF RecordsFit, HeaderLen
<1> QED
  BY <1>4, <1>7

--------------------------------------------------------------------------------
\* The inductive invariant of journal.cpp: at every moment, after any crashes, failed
\* writes, truncations and compactions, an open and writable journal is positioned behind
\* whole records with nothing but the remains of one failed write after them, and a file no
\* operation on which has failed holds whole records and at most the beginning of another.
THEOREM JournalInvariance == Spec /\ RoomForRecords => []JournalInv
<1>1. Init => JournalInv
  BY JournalInit
<1>2. JournalInv /\ [Next]_vars /\ [Appends => HasRoom]_vars => JournalInv'
  BY JournalStep
<1> QED
  BY <1>1, <1>2, PTL DEF Spec, RoomForRecords

\* Without I/O errors no sequence of appends, compactions and crashes leaves a file that
\* Journal::open refuses to write to (CrashLeavesWritable): its scan ends at the end of the
\* file or at a torn tail.
THEOREM CrashLeavesWritableHolds == Spec /\ RoomForRecords => []CrashLeavesWritable
<1>1. JournalInv => CrashLeavesWritable
  BY CleanRecovers DEF JournalInv, DiskInv, CleanInv, CrashLeavesWritable
<1> QED
  BY <1>1, JournalInvariance, PTL

\* Opening for writing serves every acknowledged record and then complete records only
\* (RecoveredIsServed): what Journal::load returns is the durable log and the pending records.
THEOREM RecoveredIsServedHolds == Spec /\ RoomForRecords => RecoveredIsServed
<1>1. JournalInv /\ JournalInv' /\ [Next]_vars =>
        [handle = "none" /\ handle' = "rw" /\ writable' /\ generation' = generation =>
           Load' = DurableLog \o Pending]_vars
  BY OpenServes
<1> QED
  BY <1>1, JournalInvariance, PTL DEF Spec, RecoveredIsServed

\* The journal implements the abstract log (ImplementsLog): no crash, failed write, recovery
\* or failed compaction takes an acknowledged record away or changes the order of two.
THEOREM JournalImplementsLog == Spec /\ RoomForRecords => ImplementsLog
<1>1. Init => L!Init
  BY LogStarts
<1>2. JournalInv /\ JournalInv' /\ [Next]_vars /\ [Appends => HasRoom]_vars => [L!Next]_L!vars
  BY StepMaps
<1> QED
  BY <1>1, <1>2, JournalInvariance, PTL DEF Spec, RoomForRecords, ImplementsLog, L!Spec

\* The condition of the theorems above holds of every behaviour when the byte bound is
\* reached before the record bound, as it is in the checked instance.
THEOREM RecordsFitSuffices == RecordsFit => (Spec => RoomForRecords)
<1> SUFFICES ASSUME RecordsFit  PROVE Spec => RoomForRecords
  OBVIOUS
<1>1. Init => JournalInv
  BY JournalInit
<1>2. JournalInv => [Appends => HasRoom]_vars
  BY RecordsFitIsRoom
<1>3. JournalInv /\ [Next]_vars => JournalInv'
  BY <1>2, JournalStep
<1> QED
  BY <1>1, <1>2, <1>3, PTL DEF Spec, RoomForRecords
================================================================================
