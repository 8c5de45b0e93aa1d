--------------------------- MODULE DebugLogProofs ---------------------------
(***************************************************************************)
(* The debug log writes its lines in order and loses none, for any number  *)
(* of lines and any order in which the tasks send them, with any limits.   *)
(*                                                                         *)
(* That a late line was given up follows from Gapless: what is below a     *)
(* line that is through is through as well or was given up, and a line     *)
(* that still waits is not through.                                        *)
(***************************************************************************)
EXTENDS DebugLog, FiniteSetTheorems, SequenceTheorems, TLAPS

\* The lines that have been through the buffer.
Done == ToSet(Out) \cup lost

\* Lines without repetition, of which one comes after a higher one only if
\* its number is in sk.
Fine(q, sk) ==
  /\ q \in Seq(Nat)
  /\ \A i, j \in 1..Len(q) : i < j => q[i] # q[j] /\ (q[i] > q[j] => q[j] \in sk)

Typed ==
  /\ issued \in Nat /\ tasks \in SUBSET (0..issued-1)
  /\ writer \in {"none", "running", "draining", "ended"}
  /\ chan \in Seq(Nat) /\ buffer \in Seq(Nat) /\ file \in Seq(Nat)
  /\ pending \in SUBSET Nat /\ lost \in SUBSET Nat /\ missed \in SUBSET Nat

\* No line is in two places.
Apart ==
  /\ \A i, j \in 1..Len(chan) : chan[i] = chan[j] => i = j
  /\ ToSet(Out) \cap ToSet(chan) = {}
  /\ pending \cap (ToSet(Out) \cup ToSet(chan)) = {}
  /\ lost \cap (ToSet(Out) \cup ToSet(chan) \cup pending) = {}

\* While the writer runs, a number below next_seq, or below a line that is
\* through, is through itself or was given up.
Gapless ==
  writer \in {"none", "running"} =>
    /\ next_seq \in Nat
    /\ \A y \in 0..next_seq-1 : y \in Done \cup skipped
    /\ \A x \in Done : \A y \in 0..x-1 : y \in Done \cup skipped

\* A writer that has been told to end reads no more.
Ending ==
  /\ writer \in {"draining", "ended"} => pending = {} /\ ToSet(chan) \subseteq missed
  /\ writer = "ended" => buffer = <<>>

DInv ==
  /\ Typed
  /\ Sent = ToSet(Out) \cup ToSet(chan) \cup pending \cup lost \cup missed
  /\ Fine(Out, skipped)
  /\ Apart /\ Gapless /\ Ending

-----------------------------------------------------------------------------
(* Sets of numbers *)

\* A set of natural numbers that is not empty has a least element.
LEMMA Least ==
  ASSUME NEW T \in SUBSET Nat, T # {}
  PROVE  \E x \in T : \A y \in T : x <= y
<1>1. \E x \in T : \A y \in T : ~(<<y, x>> \in OpToRel(<, Nat))
  BY NatLessThanWellFounded, WFMin, Zenon
<1>2. PICK x \in T : \A y \in T : ~(<<y, x>> \in OpToRel(<, Nat))
  BY <1>1
<1>3. \A y \in T : ~(y < x)
  BY <1>2 DEF OpToRel
<1> QED
  BY <1>3

LEMMA MinIs ==
  ASSUME NEW T \in SUBSET Nat, T # {}
  PROVE  Min(T) \in T /\ \A y \in T : Min(T) <= y
BY Least DEF Min

\* Sorting keeps the elements and puts them in order.
LEMMA SortedIs ==
  ASSUME NEW S \in SUBSET Nat, IsFiniteSet(S)
  PROVE  /\ Sorted(S) \in Seq(Nat)
         /\ ToSet(Sorted(S)) = S
         /\ \A i, j \in 1..Len(Sorted(S)) : i < j => Sorted(S)[i] < Sorted(S)[j]
<1> DEFINE n == Cardinality(S)
           Below(x) == {y \in S : y < x}
           rank == [x \in S |-> Cardinality(Below(x))]
<1>n. n \in Nat
  BY FS_CardinalityType
<1>f. ASSUME NEW x PROVE IsFiniteSet(Below(x)) /\ Cardinality(Below(x)) \in Nat
  <2>1. Below(x) \in SUBSET S
    OBVIOUS
  <2> HIDE DEF Below
  <2> QED
    BY <2>1, FS_Subset, FS_CardinalityType
<1>1. ASSUME NEW x \in S PROVE Cardinality(Below(x)) \in 0..n-1
  <2>1. Below(x) \in SUBSET S /\ Below(x) # S
    OBVIOUS
  <2> HIDE DEF Below
  <2>2. Cardinality(Below(x)) <= n /\ Cardinality(Below(x)) # n
    BY <2>1, FS_Subset
  <2> HIDE DEF n
  <2> QED
    BY <2>2, <1>f, <1>n
<1>2. ASSUME NEW x \in S, NEW y \in S, x < y
      PROVE  Cardinality(Below(x)) < Cardinality(Below(y))
  <2>0. x \in Nat /\ y \in Nat /\ \A z \in S : z \in Nat
    OBVIOUS
  <2>a. \A z : z \in Below(x) => z \in Below(y)
    <3> SUFFICES ASSUME NEW z \in S, z < x PROVE z < y
      OBVIOUS
    <3> QED
      BY <1>2, <2>0
  <2>b. x \in Below(y) /\ x \notin Below(x)
    BY <1>2, <2>0
  <2>1. Below(x) \in SUBSET Below(y) /\ x \in Below(y) /\ x \notin Below(x)
    BY <2>a, <2>b
  <2> HIDE DEF Below
  <2>2. Cardinality(Below(x)) <= Cardinality(Below(y))
        /\ Cardinality(Below(x)) # Cardinality(Below(y))
    BY <2>1, <1>f, FS_Subset
  <2>3. PICK a \in Nat, b \in Nat : a = Cardinality(Below(x)) /\ b = Cardinality(Below(y))
    BY <1>f
  <2>4. a < b
    BY <2>2, <2>3
  <2> QED
    BY <2>3, <2>4
<1>3. \A x \in S : rank[x] = Cardinality(Below(x)) /\ rank[x] \in 0..n-1
  BY <1>1
<1>4. \A x, y \in S : x < y => rank[x] < rank[y]
  BY <1>2, <1>3
<1>r. rank \in [S -> 0..n-1]
  BY <1>1
<1> HIDE DEF rank, n, Below
<1>5. \A x, y \in S : rank[x] = rank[y] => x = y
  <2> SUFFICES ASSUME NEW x \in S, NEW y \in S, rank[x] = rank[y], x # y
               PROVE  FALSE
    OBVIOUS
  <2>1. x < y \/ y < x
    OBVIOUS
  <2>2. rank[x] \in Int /\ rank[y] \in Int
    BY <1>3, <1>n
  <2> QED
    BY <2>1, <2>2, <1>4
<1>6. rank \in Surjection(S, 0..n-1)
  <2>1. rank \in Injection(S, 0..n-1)
    BY <1>r, <1>5 DEF Injection, IsInjective
  <2>2. IsFiniteSet(0..n-1) /\ Cardinality(0..n-1) = n
    <3>1. PICK z \in Int, m \in Int : z = 0 /\ m = n - 1
      BY <1>n
    <3>2. IsFiniteSet(z..m) /\ Cardinality(z..m) = IF z > m THEN 0 ELSE m-z+1
      BY FS_Interval
    <3> QED
      BY <3>1, <3>2, <1>n
  <2>3. Cardinality(S) = Cardinality(0..n-1)
    BY <2>2 DEF n
  <2> QED
    BY <2>1, <2>2, <2>3, FS_Injection
<1>7. \A i \in 1..n : \E x \in S : Cardinality(Below(x)) = i - 1
  <2> SUFFICES ASSUME NEW i \in 1..n PROVE \E x \in S : rank[x] = i - 1
    BY <1>3
  <2>1. i - 1 \in 0..n-1
    BY <1>n
  <2> QED
    BY <2>1, <1>6 DEF Surjection
<1>8. Sorted(S) = [i \in 1..n |-> CHOOSE x \in S : Cardinality(Below(x)) = i - 1]
  BY DEF Sorted, n, Below
<1>9. \A i \in 1..n : Sorted(S)[i] \in S /\ rank[Sorted(S)[i]] = i - 1
  <2> SUFFICES ASSUME NEW i \in 1..n
               PROVE  Sorted(S)[i] \in S /\ rank[Sorted(S)[i]] = i - 1
    OBVIOUS
  <2>1. Sorted(S)[i] = CHOOSE x \in S : Cardinality(Below(x)) = i - 1
    BY <1>8
  <2>2. Sorted(S)[i] \in S /\ Cardinality(Below(Sorted(S)[i])) = i - 1
    BY <2>1, <1>7
  <2> QED
    BY <2>2, <1>3
<1>10. Sorted(S) \in Seq(S) /\ Len(Sorted(S)) = n /\ DOMAIN Sorted(S) = 1..n
  <2>1. Sorted(S) \in [1..n -> S]
    BY <1>8, <1>9
  <2> QED
    BY <2>1, <1>n
<1>11. ToSet(Sorted(S)) = S
  <2>1. ASSUME NEW x \in S PROVE \E i \in 1..n : Sorted(S)[i] = x
    <3>1. PICK k \in 0..n-1 : k = rank[x]
      BY <1>3
    <3>2. k + 1 \in 1..n /\ (k + 1) - 1 = k
      BY <1>n
    <3>3. Sorted(S)[k + 1] \in S /\ rank[Sorted(S)[k + 1]] = k
      BY <3>2, <1>9
    <3> QED
      BY <3>1, <3>2, <3>3, <1>5
  <2>2. ToSet(Sorted(S)) = {Sorted(S)[i] : i \in 1..n}
    BY <1>10 DEF ToSet
  <2> QED
    BY <2>1, <2>2, <1>9
<1>12. ASSUME NEW i \in 1..n, NEW j \in 1..n, i < j PROVE Sorted(S)[i] < Sorted(S)[j]
  <2>1. PICK x \in S, y \in S : /\ x = Sorted(S)[i] /\ rank[x] = i - 1
                                /\ y = Sorted(S)[j] /\ rank[y] = j - 1
    BY <1>9
  <2>2. ~(y < x) /\ x # y
    BY <2>1, <1>12, <1>4, <1>n
  <2> QED
    BY <2>1, <2>2
<1>13. Sorted(S) \in Seq(Nat)
  <2>1. Sorted(S) \in [1..n -> Nat]
    BY <1>8, <1>9
  <2> QED
    BY <2>1, <1>n
<1> QED
  BY <1>10, <1>11, <1>12, <1>13

\* The lines from s on up to the first gap are as many as the numbers up to it.
LEMMA RunIs ==
  ASSUME NEW p \in SUBSET Nat, NEW bound \in Nat, \A x \in p : x < bound, NEW s \in Nat
  PROVE  \E m \in Nat : /\ s <= m /\ RunFrom(s, p) = s..m-1
                        /\ Cardinality(RunFrom(s, p)) = m - s
<1> DEFINE T == {y \in Nat : s <= y /\ y \notin p}
<1>1. T # {}
  <2>1. s + bound \in T
    OBVIOUS
  <2> QED
    BY <2>1
<1>2. PICK m \in T : \A y \in T : m <= y
  BY <1>1, Least
<1>3. m \in Nat /\ s <= m /\ m \notin p
  OBVIOUS
<1>4. \A x \in s..m-1 : x \in p
  BY <1>2, <1>3
<1> HIDE DEF T
<1>5. ASSUME NEW x \in RunFrom(s, p) PROVE x \in s..m-1
  <2>1. x \in p /\ x \in Nat /\ s <= x /\ s..x \subseteq p
    BY DEF RunFrom
  <2>2. m \notin s..x
    BY <2>1, <1>3
  <2> QED
    BY <2>1, <2>2, <1>3
<1>6. ASSUME NEW x \in s..m-1 PROVE x \in RunFrom(s, p)
  <2>1. x \in p /\ s <= x
    BY <1>4
  <2>2. \A y \in s..x : y \in s..m-1
    BY <1>3
  <2> QED
    BY <2>1, <2>2, <1>4 DEF RunFrom
<1>7. RunFrom(s, p) = s..m-1
  BY <1>5, <1>6
<1>8. Cardinality(s..m-1) = m - s
  <2>1. PICK z \in Int, e \in Int : z = s /\ e = m - 1
    BY <1>3
  <2>2. Cardinality(z..e) = IF z > e THEN 0 ELSE e-z+1
    BY FS_Interval
  <2> QED
    BY <2>1, <2>2, <1>3
<1> QED
  BY <1>3, <1>7, <1>8

-----------------------------------------------------------------------------
(* Lines in sequence *)

LEMMA Joined2 ==
  ASSUME NEW a \in Seq(Nat), NEW b \in Seq(Nat)
  PROVE  /\ a \o b \in Seq(Nat) /\ Len(a \o b) = Len(a) + Len(b)
         /\ Len(a) \in Nat /\ Len(b) \in Nat
         /\ \A i \in 1..Len(a) : (a \o b)[i] = a[i]
         /\ \A i \in 1..Len(b) : (a \o b)[Len(a) + i] = b[i]
         /\ ToSet(a \o b) = ToSet(a) \cup ToSet(b)
         /\ ToSet(a) = {a[i] : i \in 1..Len(a)}
<1>1. /\ a \o b \in Seq(Nat) /\ Len(a \o b) = Len(a) + Len(b)
      /\ Len(a) \in Nat /\ Len(b) \in Nat
      /\ DOMAIN a = 1..Len(a) /\ DOMAIN b = 1..Len(b)
  OBVIOUS
<1>2. DOMAIN (a \o b) = 1..(Len(a) + Len(b))
  BY <1>1
<1>3. /\ \A i \in 1..Len(a) : (a \o b)[i] = a[i]
      /\ \A i \in 1..Len(b) : (a \o b)[Len(a) + i] = b[i]
  BY <1>1
<1>4. ASSUME NEW x \in ToSet(a \o b) PROVE x \in ToSet(a) \cup ToSet(b)
  <2>1. PICK k \in 1..(Len(a) + Len(b)) : x = (a \o b)[k]
    BY <1>2 DEF ToSet
  <2>2. CASE k <= Len(a)
    <3>1. k \in 1..Len(a)
      BY <1>1, <2>2
    <3> QED
      BY <2>1, <3>1, <1>1, <1>3 DEF ToSet
  <2>3. CASE k > Len(a)
    <3>1. PICK m \in 1..Len(b) : k = Len(a) + m
      <4>1. k - Len(a) \in 1..Len(b) /\ k = Len(a) + (k - Len(a))
        BY <1>1, <2>3
      <4> QED
        BY <4>1
    <3> QED
      BY <2>1, <3>1, <1>1, <1>3 DEF ToSet
  <2> QED
    BY <2>2, <2>3, <1>1
<1>5. ASSUME NEW x \in ToSet(a) PROVE x \in ToSet(a \o b)
  <2>1. PICK k \in 1..Len(a) : x = a[k]
    BY <1>1 DEF ToSet
  <2>2. k \in 1..(Len(a) + Len(b)) /\ x = (a \o b)[k]
    BY <2>1, <1>1, <1>3
  <2> QED
    BY <2>2, <1>2 DEF ToSet
<1>6. ASSUME NEW x \in ToSet(b) PROVE x \in ToSet(a \o b)
  <2>1. PICK k \in 1..Len(b) : x = b[k]
    BY <1>1 DEF ToSet
  <2>2. Len(a) + k \in 1..(Len(a) + Len(b)) /\ x = (a \o b)[Len(a) + k]
    BY <2>1, <1>1, <1>3
  <2> QED
    BY <2>2, <1>2 DEF ToSet
<1>7. ToSet(a \o b) = ToSet(a) \cup ToSet(b)
  BY <1>4, <1>5, <1>6
<1>8. ToSet(a) = {a[i] : i \in 1..Len(a)}
  BY <1>1 DEF ToSet
<1> QED
  BY <1>1, <1>3, <1>7, <1>8

\* Giving up more numbers does no harm.
LEMMA FineGrows ==
  ASSUME NEW q, NEW sk, NEW more, Fine(q, sk), sk \subseteq more
  PROVE  Fine(q, more)
BY DEF Fine

\* Two pieces are fine together when each is, they have no line in common and
\* those of the second that come late were given up.
LEMMA FineJoin ==
  ASSUME NEW q, NEW r, NEW sk, Fine(q, sk), Fine(r, sk),
         \A x \in ToSet(q), y \in ToSet(r) : x # y /\ (x > y => y \in sk)
  PROVE  Fine(q \o r, sk)
<1>q. q \in Seq(Nat) /\ r \in Seq(Nat)
  BY DEF Fine
<1>j. /\ q \o r \in Seq(Nat) /\ Len(q \o r) = Len(q) + Len(r)
      /\ Len(q) \in Nat /\ Len(r) \in Nat
      /\ \A i \in 1..Len(q) : (q \o r)[i] = q[i]
      /\ \A i \in 1..Len(r) : (q \o r)[Len(q) + i] = r[i]
  BY <1>q, Joined2
<1>m. /\ \A i \in 1..Len(q) : q[i] \in ToSet(q) /\ q[i] \in Nat
      /\ \A i \in 1..Len(r) : r[i] \in ToSet(r) /\ r[i] \in Nat
  BY <1>q DEF ToSet
<1> SUFFICES ASSUME NEW i \in 1..Len(q \o r), NEW j \in 1..Len(q \o r), i < j
             PROVE  /\ (q \o r)[i] # (q \o r)[j]
                    /\ (q \o r)[i] > (q \o r)[j] => (q \o r)[j] \in sk
  BY <1>j DEF Fine
<1>1. CASE j <= Len(q)
  <2>1. i \in 1..Len(q) /\ j \in 1..Len(q)
    BY <1>1, <1>j
  <2>2. q[i] # q[j] /\ (q[i] > q[j] => q[j] \in sk)
    BY <2>1 DEF Fine
  <2> QED
    BY <2>1, <2>2, <1>j
<1>2. CASE i <= Len(q) /\ j > Len(q)
  <2>1. i \in 1..Len(q) /\ j - Len(q) \in 1..Len(r) /\ j = Len(q) + (j - Len(q))
    BY <1>2, <1>j
  <2>2. PICK m \in 1..Len(r) : j = Len(q) + m
    BY <2>1
  <2>3. q[i] # r[m] /\ (q[i] > r[m] => r[m] \in sk)
    BY <2>1, <1>m
  <2> QED
    BY <2>1, <2>2, <2>3, <1>j
<1>3. CASE i > Len(q)
  <2>1. /\ i - Len(q) \in 1..Len(r) /\ i = Len(q) + (i - Len(q))
        /\ j - Len(q) \in 1..Len(r) /\ j = Len(q) + (j - Len(q))
    BY <1>3, <1>j
  <2>2. PICK k \in 1..Len(r), m \in 1..Len(r) : i = Len(q) + k /\ j = Len(q) + m
    BY <2>1
  <2>3. k < m
    BY <2>2, <1>j
  <2>4. r[k] # r[m] /\ (r[k] > r[m] => r[m] \in sk)
    BY <2>3 DEF Fine
  <2>5. (q \o r)[i] = r[k] /\ (q \o r)[j] = r[m]
    BY <2>2, <1>j
  <2> QED
    BY <2>4, <2>5
<1> QED
  BY <1>1, <1>2, <1>3, <1>j

\* And the other way round.
LEMMA FineSplit ==
  ASSUME NEW q \in Seq(Nat), NEW r \in Seq(Nat), NEW sk, Fine(q \o r, sk)
  PROVE  /\ Fine(q, sk) /\ Fine(r, sk)
         /\ \A x \in ToSet(q), y \in ToSet(r) : x # y /\ (x > y => y \in sk)
<1>0. PICK l \in Nat, k \in Nat : l = Len(q) /\ k = Len(r)
  OBVIOUS
<1>p. PICK p : p = q \o r
  OBVIOUS
<1>j. /\ Len(p) = l + k
      /\ \A i \in 1..l : p[i] = q[i]
      /\ \A i \in 1..k : p[l + i] = r[i]
  BY <1>0, <1>p, Joined2
<1>f. \A i, j \in 1..(l + k) : i < j => p[i] # p[j] /\ (p[i] > p[j] => p[j] \in sk)
  BY <1>p, <1>j DEF Fine
<1>1. Fine(q, sk)
  <2> SUFFICES ASSUME NEW i \in 1..l, NEW j \in 1..l, i < j
               PROVE  q[i] # q[j] /\ (q[i] > q[j] => q[j] \in sk)
    BY <1>0 DEF Fine
  <2>1. i \in 1..(l + k) /\ j \in 1..(l + k)
    OBVIOUS
  <2>2. p[i] # p[j] /\ (p[i] > p[j] => p[j] \in sk)
    BY <2>1, <1>f
  <2> QED
    BY <2>2, <1>j
<1>2. Fine(r, sk)
  <2> SUFFICES ASSUME NEW i \in 1..k, NEW j \in 1..k, i < j
               PROVE  r[i] # r[j] /\ (r[i] > r[j] => r[j] \in sk)
    BY <1>0 DEF Fine
  <2>1. l + i \in 1..(l + k) /\ l + j \in 1..(l + k) /\ l + i < l + j
    OBVIOUS
  <2>2. p[l + i] # p[l + j] /\ (p[l + i] > p[l + j] => p[l + j] \in sk)
    BY <2>1, <1>f
  <2> QED
    BY <2>2, <1>j
<1>3. ASSUME NEW x \in ToSet(q), NEW y \in ToSet(r) PROVE x # y /\ (x > y => y \in sk)
  <2>1. PICK i \in 1..l : x = q[i]
    BY <1>0 DEF ToSet
  <2>2. PICK j \in 1..k : y = r[j]
    BY <1>0 DEF ToSet
  <2>3. i \in 1..(l + k) /\ l + j \in 1..(l + k) /\ i < l + j
    OBVIOUS
  <2>4. p[i] # p[l + j] /\ (p[i] > p[l + j] => p[l + j] \in sk)
    BY <2>3, <1>f
  <2> QED
    BY <2>1, <2>2, <2>4, <1>j
<1> QED
  BY <1>1, <1>2, <1>3

\* Lines by their numbers are fine.
LEMMA FineSorted ==
  ASSUME NEW S \in SUBSET Nat, IsFiniteSet(S), NEW sk
  PROVE  Fine(Sorted(S), sk)
<1>1. PICK q \in Seq(Nat) : q = Sorted(S) /\ \A i, j \in 1..Len(q) : i < j => q[i] < q[j]
  BY SortedIs
<1>2. \A i \in 1..Len(q) : q[i] \in Nat
  OBVIOUS
<1>3. \A i, j \in 1..Len(q) : i < j => q[i] # q[j] /\ ~(q[i] > q[j])
  BY <1>1, <1>2
<1> QED
  BY <1>1, <1>3 DEF Fine

\* flush_byte_buffer: what is not written any more is lost, and only that.
LEMMA FlushKeeps ==
  ASSUME Typed, NEW b \in Seq(Nat), NEW n \in 0..Len(b), NEW ok \in BOOLEAN, NEW sk,
         Flush(b, n, ok), Fine(file \o b, sk), lost \cap ToSet(file \o b) = {}
  PROVE  /\ file' \in Seq(Nat) /\ buffer' \in Seq(Nat) /\ lost' \in SUBSET Nat
         /\ Fine(Out', sk)
         /\ ToSet(Out') \cup lost' = ToSet(file \o b) \cup lost
         /\ ToSet(Out') \cap lost' = {}
         /\ n = Len(b) => buffer' = <<>>
<1>t. file \in Seq(Nat) /\ lost \in SUBSET Nat
  BY DEF Typed
<1>0. PICK a, c : a = SubSeq(b, 1, n) /\ c = SubSeq(b, n + 1, Len(b))
  OBVIOUS
<1>n. n \in Nat /\ Len(b) \in Nat /\ n <= Len(b)
  OBVIOUS
<1>a. a \in Seq(Nat) /\ Len(a) = n /\ \A i \in 1..n : a[i] = b[i]
  BY <1>0, <1>n
<1>c. c \in Seq(Nat) /\ Len(c) = Len(b) - n
  BY <1>0, <1>n
<1>1. a \o c = b
  <2>1. PICK l \in Nat : l = Len(b)
    BY <1>n
  <2>2. 1 \in 1..l+1 /\ n \in (1 - 1)..l /\ l \in n..l
    BY <2>1, <1>n
  <2>3. PICK z \in Nat : z = 1 /\ z \in 1..Len(b)+1 /\ n \in z-1..Len(b) /\ l \in n..Len(b)
    BY <2>1, <2>2
  <2>4. SubSeq(b, z, n) \o SubSeq(b, n + 1, l) = SubSeq(b, z, l)
    BY <2>3, ConcatAdjacentSubSeq
  <2>5. a \o c = SubSeq(b, 1, l)
    BY <2>1, <2>3, <2>4, <1>0
  <2> QED
    BY <2>1, <2>5, SubSeqFull
<1>3. ToSet(b) = ToSet(a) \cup ToSet(c) /\ ToSet(file \o b) = ToSet(file) \cup ToSet(b)
  BY <1>1, <1>a, <1>c, <1>t, Joined2
<1>4. buffer' = c /\ file' = (IF ok THEN file \o a ELSE file)
      /\ lost' = (IF ok THEN lost ELSE lost \cup {b[i] : i \in 1..n})
  BY <1>0 DEF Flush
<1>5. {b[i] : i \in 1..n} = ToSet(a)
  <2>1. ToSet(a) = {a[i] : i \in 1..n}
    BY <1>a, Joined2
  <2> QED
    BY <2>1, <1>a
<1>e. n = Len(b) => buffer' = <<>>
  BY <1>4, <1>c, <1>n
<1>o. Out' = file' \o buffer'
  BY DEF Out
<1>6. /\ Fine(file, sk) /\ Fine(a \o c, sk)
      /\ \A x \in ToSet(file), y \in ToSet(b) : x # y /\ (x > y => y \in sk)
  BY <1>1, <1>t, FineSplit
<1>7. /\ Fine(a, sk) /\ Fine(c, sk)
      /\ \A x \in ToSet(a), y \in ToSet(c) : x # y /\ (x > y => y \in sk)
  BY <1>6, <1>a, <1>c, FineSplit
<1>8. CASE ok
  <2>0. PICK d : d = file \o a
    OBVIOUS
  <2>1. file' = d /\ d \in Seq(Nat) /\ lost' = lost
    BY <1>8, <1>4, <1>a, <1>t, <2>0
  <2>2. ToSet(d) = ToSet(file) \cup ToSet(a)
    BY <2>0, <1>a, <1>t, Joined2
  <2>3. Fine(d, sk)
    BY <2>0, <1>6, <1>7, <1>3, FineJoin
  <2>4. Fine(d \o c, sk)
    BY <2>2, <2>3, <1>6, <1>7, <1>3, FineJoin
  <2>5. ToSet(d \o c) = ToSet(file \o b)
    BY <2>1, <2>2, <1>c, <1>3, Joined2
  <2>6. Out' = d \o c
    BY <2>1, <1>o, <1>4
  <2> QED
    BY <2>1, <2>4, <2>5, <2>6, <1>e, <1>4, <1>c, <1>t
<1>9. CASE ~ok
  <2>1. file' = file /\ lost' = lost \cup ToSet(a)
    BY <1>9, <1>4, <1>5
  <2>2. Out' = file \o c
    BY <2>1, <1>o, <1>4
  <2>5. Fine(file \o c, sk)
    BY <1>6, <1>7, <1>3, FineJoin
  <2>6. ToSet(file \o c) = ToSet(file) \cup ToSet(c)
    BY <1>t, <1>c, Joined2
  <2>7. ToSet(a) \subseteq Nat
    BY <1>a DEF ToSet
  <2>8. ToSet(a) \cap (ToSet(file) \cup ToSet(c)) = {}
    BY <1>6, <1>7, <1>3
  <2> QED
    BY <2>1, <2>2, <2>5, <2>6, <2>7, <2>8, <1>3, <1>4, <1>e, <1>c, <1>t
<1> QED
  BY <1>8, <1>9

-----------------------------------------------------------------------------
(* The steps *)

LEMMA InitD ==
  ASSUME Init
  PROVE  DInv
<1>1. Out = <<>>
  BY DEF Init, Out
<1>2. ToSet(Out) = {} /\ ToSet(chan) = {} /\ Sent = {}
  BY <1>1 DEF Init, ToSet, Sent
<1>3. Typed
  BY DEF Init, Typed
<1>4. Fine(Out, skipped)
  BY <1>1 DEF Fine
<1>5. Apart
  BY <1>2 DEF Init, Apart
<1>6. Gapless
  BY <1>2 DEF Init, Gapless, Done
<1>7. Ending
  BY DEF Init, Ending
<1> QED
  BY <1>2, <1>3, <1>4, <1>5, <1>6, <1>7 DEF DInv, Init

\* A line that waits has been sent and is not through.
LEMMA Waiting ==
  ASSUME DInv
  PROVE  /\ \A y \in Leftover : y \in 0..issued-1 /\ y \notin Done
         /\ issued \in Nat /\ Leftover \in SUBSET Nat
<1>1. Leftover \subseteq Sent
  BY DEF DInv, Leftover
<1>2. issued \in Nat /\ Sent \subseteq 0..issued-1
  BY DEF DInv, Typed, Sent
<1>3. \A y \in Leftover : y \notin Done
  BY DEF DInv, Apart, Leftover, Done
<1> QED
  BY <1>1, <1>2, <1>3

\* Lines that have waited go to the end of the buffer: those that are late
\* were given up, for all other numbers below a line that is through are
\* through.
LEMMA Collected ==
  ASSUME DInv, writer \in {"none", "running"},
         NEW S \in SUBSET Leftover, NEW sk, skipped \subseteq sk,
         NEW b, b = buffer \o Sorted(S)
  PROVE  /\ b \in Seq(Nat)
         /\ Fine(file \o b, sk)
         /\ ToSet(file \o b) = ToSet(Out) \cup S
         /\ lost \cap ToSet(file \o b) = {}
<1>t. file \in Seq(Nat) /\ buffer \in Seq(Nat) /\ Out = file \o buffer
  BY DEF DInv, Typed, Out
<1>1. S \in SUBSET Nat /\ IsFiniteSet(S)
  <2>1. PICK z \in Int, m \in Int : z = 0 /\ m = issued - 1
    BY Waiting
  <2>2. IsFiniteSet(z..m)
    BY FS_Interval
  <2>3. S \in SUBSET (z..m)
    BY <2>1, Waiting
  <2> QED
    BY <2>2, <2>3, Waiting, FS_Subset
<1>2. PICK r : r = Sorted(S)
  OBVIOUS
<1>3. r \in Seq(Nat) /\ ToSet(r) = S /\ Fine(r, sk)
  BY <1>1, <1>2, SortedIs, FineSorted
<1>4. Fine(Out, sk)
  BY FineGrows DEF DInv
<1>5. /\ Fine(file, sk) /\ Fine(buffer, sk)
      /\ \A x \in ToSet(file), y \in ToSet(buffer) : x # y /\ (x > y => y \in sk)
  BY <1>4, <1>t, FineSplit
<1>6. ToSet(Out) = ToSet(file) \cup ToSet(buffer)
  BY <1>t, Joined2
<1>7. ASSUME NEW x \in ToSet(Out), NEW y \in S PROVE x # y /\ (x > y => y \in sk)
  <2>1. x \in Done /\ y \notin Done /\ y \in Nat
    BY Waiting, <1>1 DEF Done
  <2>2. x \in Nat
    BY <1>t, <1>6 DEF ToSet
  <2>3. x > y => y \in 0..x-1
    BY <2>1, <2>2
  <2>4. x > y => y \in Done \cup skipped
    BY <2>1, <2>3 DEF DInv, Gapless
  <2> QED
    BY <2>1, <2>4
<1>8. b \in Seq(Nat) /\ ToSet(b) = ToSet(buffer) \cup S
  BY <1>2, <1>3, <1>t, Joined2
<1>9. Fine(b, sk)
  BY <1>2, <1>3, <1>5, <1>6, <1>7, FineJoin
<1>10. Fine(file \o b, sk)
  BY <1>5, <1>6, <1>7, <1>8, <1>9, FineJoin
<1>11. ToSet(file \o b) = ToSet(Out) \cup S
  <2>1. b \in Seq(Nat) /\ file \in Seq(Nat)
    BY <1>8, <1>t
  <2>2. ToSet(file \o b) = ToSet(file) \cup ToSet(b)
    BY <2>1, Joined2
  <2> QED
    BY <2>2, <1>6, <1>8
<1>12. lost \cap ToSet(file \o b) = {}
  BY <1>11 DEF DInv, Apart, Leftover
<1> QED
  BY <1>8, <1>10, <1>11, <1>12

LEMMA DebugD ==
  ASSUME DInv, Debug
  PROVE  DInv'
<1>1. issued \in Nat /\ tasks \in SUBSET (0..issued-1)
  BY DEF DInv, Typed
<1>2. Sent' = Sent
  <2>1. issued' = issued + 1 /\ tasks' = tasks \cup {issued}
    BY DEF Debug
  <2>2. 0..(issued + 1)-1 = (0..issued-1) \cup {issued}
    BY <1>1
  <2> QED
    BY <2>1, <2>2, <1>1 DEF Sent
<1>3. UNCHANGED <<writer, chan, missed, pending, next_seq, buffer, file, skipped, lost>>
  BY DEF Debug, writerVars
<1>4. Out' = Out /\ Done' = Done
  BY <1>3 DEF Out, Done
<1>5. Typed'
  BY <1>3 DEF DInv, Typed, Debug
<1>6. Apart' /\ Gapless' /\ Ending'
  BY <1>3, <1>4 DEF DInv, Apart, Gapless, Ending
<1>7. Fine(Out, skipped)'
  BY <1>3, <1>4 DEF DInv, Fine
<1>8. Sent' = (ToSet(Out) \cup ToSet(chan) \cup pending \cup lost \cup missed)'
  BY <1>2, <1>3, <1>4 DEF DInv
<1> QED
  BY <1>5, <1>6, <1>7, <1>8 DEF DInv

LEMMA SendD ==
  ASSUME DInv, NEW s \in tasks, Send(s)
  PROVE  DInv'
<1>1. issued \in Nat /\ tasks \in SUBSET (0..issued-1) /\ chan \in Seq(Nat)
      /\ s \in Nat /\ s \notin Sent
  BY DEF DInv, Typed, Sent
<1>2. /\ tasks' = tasks \ {s} /\ issued' = issued
      /\ writer' = IF writer = "none" THEN "running" ELSE writer
      /\ UNCHANGED <<pending, next_seq, buffer, file, skipped, lost>>
  BY DEF Send, writerVars
<1>3. Sent' = Sent \cup {s}
  BY <1>1, <1>2 DEF Sent
<1>4. Out' = Out /\ Done' = Done
  BY <1>2 DEF Out, Done
<1>5. PICK c : c = Append(chan, s)
  OBVIOUS
<1>6. /\ c \in Seq(Nat) /\ ToSet(c) = ToSet(chan) \cup {s}
      /\ \A i, j \in 1..Len(c) : c[i] = c[j] => i = j
  <2>1. PICK l \in Nat : l = Len(chan)
    BY <1>1
  <2>2. /\ c \in Seq(Nat) /\ Len(c) = l + 1 /\ c[l + 1] = s
        /\ \A i \in 1..l : c[i] = chan[i] /\ chan[i] \in ToSet(chan)
    BY <1>1, <1>5, <2>1 DEF ToSet
  <2>3. s \notin ToSet(chan)
    BY <1>1 DEF DInv
  <2>4. \A i \in 1..l+1 : i \in 1..l \/ i = l + 1
    OBVIOUS
  <2>5. \A i, j \in 1..l : chan[i] = chan[j] => i = j
    BY <2>1 DEF DInv, Apart
  <2>6. \A i, j \in 1..Len(c) : c[i] = c[j] => i = j
    BY <2>2, <2>3, <2>4, <2>5
  <2>7. ToSet(chan) = {chan[i] : i \in 1..l} /\ ToSet(c) = {c[i] : i \in 1..l+1}
    BY <1>1, <2>1, <2>2, Joined2
  <2>8. ToSet(c) = ToSet(chan) \cup {s}
    <3>1. l + 1 \in 1..l+1 /\ \A i \in 1..l : i \in 1..l+1
      OBVIOUS
    <3>2. \A x \in ToSet(c) : x \in ToSet(chan) \cup {s}
      BY <2>2, <2>4, <2>7
    <3>3. \A x \in ToSet(chan) \cup {s} : x \in ToSet(c)
      BY <2>2, <2>7, <3>1
    <3> QED
      BY <3>2, <3>3
  <2> QED
    BY <2>2, <2>6, <2>8
<1>7. s \notin ToSet(Out) \cup pending \cup lost
  BY <1>1 DEF DInv
<1>8. \/ writer # "ended" /\ chan' = c
      \/ writer = "ended" /\ chan' = chan
  BY <1>5 DEF Send
<1>9. \/ writer \in {"draining", "ended"} /\ missed' = missed \cup {s}
      \/ writer \in {"none", "running"} /\ missed' = missed
  BY DEF Send, DInv, Typed
<1>10. ToSet(chan)' = ToSet(chan') /\ ToSet(Out)' = ToSet(Out)
  BY <1>4
<1>11. Typed'
  BY <1>1, <1>2, <1>6, <1>8, <1>9 DEF DInv, Typed
<1>12. Sent' = (ToSet(Out) \cup ToSet(chan) \cup pending \cup lost \cup missed)'
  BY <1>2, <1>3, <1>6, <1>8, <1>9, <1>10 DEF DInv
<1>13. Apart'
  BY <1>2, <1>4, <1>6, <1>7, <1>8, <1>10 DEF DInv, Apart
<1>14. Gapless'
  BY <1>2, <1>4, <1>9 DEF DInv, Gapless
<1>15. Ending'
  BY <1>2, <1>6, <1>8, <1>9, <1>10 DEF DInv, Ending
<1> QED
  BY <1>2, <1>4, <1>11, <1>12, <1>13, <1>14, <1>15 DEF DInv, Fine

\* A line is taken from the channel, and the lines up to the next gap go on.
LEMMA ReceiveD ==
  ASSUME DInv, NEW ok \in BOOLEAN, Receive(ok)
  PROVE  DInv'
<1>w. writer = "running" /\ chan # <<>> /\ UNCHANGED <<issued, tasks, writer, missed>>
  BY DEF Receive
<1>t. /\ chan \in Seq(Nat) /\ pending \in SUBSET Nat /\ next_seq \in Nat
      /\ issued \in Nat /\ Leftover = pending \cup ToSet(chan)
  BY <1>w DEF DInv, Typed, Gapless, Leftover
<1>c. /\ Tail(chan) \in Seq(Nat)
      /\ \A i, j \in 1..Len(Tail(chan)) : Tail(chan)[i] = Tail(chan)[j] => i = j
      /\ ToSet(chan) = {Head(chan)} \cup ToSet(Tail(chan))
      /\ Head(chan) \notin ToSet(Tail(chan)) /\ Head(chan) \in Nat
  <2>1. PICK l \in Nat : Len(chan) = l + 1
    <3>1. PICK k \in Nat : k = Len(chan)
      BY <1>t
    <3>2. k # 0
      BY <3>1, <1>t, <1>w
    <3>3. k - 1 \in Nat /\ k = (k - 1) + 1
      BY <3>2
    <3> QED
      BY <3>1, <3>3
  <2>2. PICK c : c = Tail(chan)
    OBVIOUS
  <2>3. /\ c \in Seq(Nat) /\ Len(c) = l /\ \A i \in 1..l : c[i] = chan[i + 1]
        /\ Head(chan) = chan[1] /\ Head(chan) \in Nat
    BY <2>1, <2>2, <1>t, <1>w
  <2>4. \A i, j \in 1..l+1 : chan[i] = chan[j] => i = j
    BY <2>1 DEF DInv, Apart
  <2>5. \A i, j \in 1..l : c[i] = c[j] => i = j
    <3> SUFFICES ASSUME NEW i \in 1..l, NEW j \in 1..l, chan[i + 1] = chan[j + 1]
                 PROVE  i = j
      BY <2>3
    <3>1. i + 1 \in 1..l+1 /\ j + 1 \in 1..l+1
      OBVIOUS
    <3>2. i + 1 = j + 1
      BY <3>1, <2>4
    <3> QED
      BY <3>2
  <2>6. /\ ToSet(chan) = {chan[i] : i \in 1..l+1} /\ ToSet(c) = {c[i] : i \in 1..l}
    BY <1>t, <2>1, <2>3, Joined2
  <2>7. ASSUME NEW x \in ToSet(chan) PROVE x = Head(chan) \/ x \in ToSet(c)
    <3>1. PICK k \in 1..l+1 : x = chan[k]
      BY <2>6
    <3>2. CASE k = 1
      BY <3>1, <3>2, <2>3
    <3>3. CASE k # 1
      <4>1. k - 1 \in 1..l /\ k = (k - 1) + 1
        BY <3>3
      <4>2. PICK m \in 1..l : k = m + 1
        BY <4>1
      <4> QED
        BY <3>1, <4>2, <2>3, <2>6
    <3> QED
      BY <3>2, <3>3
  <2>8. ASSUME NEW x \in ToSet(c) PROVE x \in ToSet(chan) /\ x # Head(chan)
    <3>1. PICK k \in 1..l : x = chan[k + 1]
      BY <2>3, <2>6
    <3>2. k + 1 \in 1..l+1 /\ 1 \in 1..l+1 /\ k + 1 # 1
      OBVIOUS
    <3> QED
      BY <3>1, <3>2, <2>3, <2>4, <2>6
  <2>9. Head(chan) \in ToSet(chan)
    <3>1. 1 \in 1..l+1
      OBVIOUS
    <3> QED
      BY <3>1, <2>3, <2>6
  <2> QED
    BY <2>2, <2>3, <2>5, <2>7, <2>8, <2>9
<1>p. PICK p : p = pending \cup {Head(chan)}
  OBVIOUS
<1>q. /\ p \in SUBSET Leftover /\ p \in SUBSET Nat /\ p # {}
      /\ \A x \in p : x < issued
      /\ p \cap ToSet(Tail(chan)) = {}
      /\ p \cup ToSet(Tail(chan)) = Leftover
  <2>1. p \in SUBSET Leftover /\ p \in SUBSET Nat /\ p # {}
        /\ p \cup ToSet(Tail(chan)) = Leftover
    BY <1>p, <1>c, <1>t
  <2>2. \A x \in p : x \in 0..issued-1
    BY <2>1, Waiting
  <2>3. pending \cap ToSet(chan) = {}
    BY DEF DInv, Apart
  <2> QED
    BY <2>1, <2>2, <2>3, <1>t, <1>p, <1>c
<1>s. PICK s \in Nat : s = StartWith(p)
  BY <1>q, <1>t, MinIs DEF StartWith
<1>m. PICK m \in Nat : /\ s <= m /\ RunFrom(s, p) = s..m-1
                       /\ Cardinality(RunFrom(s, p)) = m - s
  BY <1>q, <1>t, RunIs
<1>r. PICK run : run = RunFrom(s, p) /\ run = s..m-1 /\ run \subseteq p
  BY <1>m DEF RunFrom
<1>b. PICK b : b = buffer \o Sorted(run)
  OBVIOUS
<1>n. PICK n : n = (Len(b) \div BUFFER_CAPACITY) * BUFFER_CAPACITY
  OBVIOUS
<1>1. /\ chan' = Tail(chan) /\ pending' = p \ run
      /\ next_seq' = m /\ skipped' = skipped \cup next_seq..s-1
      /\ Flush(b, n, ok)
  <2>1. next_seq' = s + (m - s)
    BY <1>p, <1>s, <1>m DEF Receive
  <2>2. next_seq' = m
    BY <2>1
  <2> QED
    BY <2>2, <1>p, <1>s, <1>r, <1>b, <1>n DEF Receive
<1>2. /\ b \in Seq(Nat) /\ Fine(file \o b, skipped')
      /\ ToSet(file \o b) = ToSet(Out) \cup run
      /\ lost \cap ToSet(file \o b) = {}
  <2>1. run \in SUBSET Leftover /\ skipped \subseteq skipped'
    BY <1>r, <1>q, <1>1
  <2> QED
    BY <2>1, <1>b, <1>w, Collected
<1>3. n \in 0..Len(b)
  <2>1. PICK l \in Nat : l = Len(b)
    BY <1>2
  <2>2. PICK k \in Nat : k = l \div BUFFER_CAPACITY /\ k * BUFFER_CAPACITY <= l
    BY LimitsAssumption
  <2>3. k * BUFFER_CAPACITY \in Nat
    BY LimitsAssumption
  <2> QED
    BY <2>1, <2>2, <2>3, <1>n
<1>4. /\ file' \in Seq(Nat) /\ buffer' \in Seq(Nat) /\ lost' \in SUBSET Nat
      /\ Fine(Out', skipped')
      /\ ToSet(Out') \cup lost' = ToSet(Out) \cup run \cup lost
      /\ ToSet(Out') \cap lost' = {}
  <2>1. Typed
    BY DEF DInv
  <2> QED
    BY <2>1, <1>1, <1>2, <1>3, FlushKeeps
<1>5. Done' = Done \cup run
  BY <1>4 DEF Done
<1>6. Typed'
  BY <1>w, <1>1, <1>4, <1>c, <1>q DEF DInv, Typed
<1>7. Sent' = (ToSet(Out) \cup ToSet(chan) \cup pending \cup lost \cup missed)'
  <2>1. Sent' = Sent
    BY <1>w DEF Sent
  <2>2. Sent = ToSet(Out) \cup Leftover \cup lost \cup missed
    BY <1>t DEF DInv
  <2>3. ToSet(chan)' = ToSet(Tail(chan)) /\ pending' = p \ run /\ missed' = missed
    BY <1>1, <1>w
  <2> QED
    BY <2>1, <2>2, <2>3, <1>4, <1>q, <1>r
<1>8. Apart'
  <2>1. \A x \in Leftover : x \notin Done
    BY Waiting
  <2>2. ToSet(chan)' = ToSet(Tail(chan)) /\ pending' = p \ run
    BY <1>1
  <2>3. Done' \cap ToSet(chan)' = {} /\ Done' \cap pending' = {}
    BY <2>1, <2>2, <1>5, <1>q, <1>r
  <2>4. ToSet(Out)' \subseteq Done' /\ lost' \subseteq Done'
    BY DEF Done
  <2>5. pending' \cap ToSet(chan)' = {}
    BY <2>2, <1>q
  <2>6. \A i, j \in 1..Len(chan') : chan'[i] = chan'[j] => i = j
    BY <1>1, <1>c
  <2> QED
    BY <2>3, <2>4, <2>5, <2>6, <1>4 DEF Apart
<1>9. Gapless'
  <2>1. /\ \A y \in 0..next_seq-1 : y \in Done \cup skipped
        /\ \A x \in Done : \A y \in 0..x-1 : y \in Done \cup skipped
    BY <1>w DEF DInv, Gapless
  <2>2. ASSUME NEW y \in 0..m-1 PROVE y \in Done' \cup skipped'
    <3>1. y \in 0..next_seq-1 \/ y \in next_seq..s-1 \/ y \in s..m-1
      BY <1>t
    <3> QED
      BY <3>1, <2>1, <1>1, <1>5, <1>r
  <2>3. ASSUME NEW x \in Done', NEW y \in 0..x-1 PROVE y \in Done' \cup skipped'
    <3>1. CASE x \in Done
      BY <3>1, <2>1, <1>1, <1>5
    <3>2. CASE x \in run
      <4>1. y \in 0..m-1
        BY <3>2, <1>r
      <4> QED
        BY <4>1, <2>2
    <3> QED
      BY <3>1, <3>2, <1>5
  <2> QED
    BY <2>2, <2>3, <1>1 DEF Gapless
<1>10. Ending'
  BY <1>w DEF Ending
<1> QED
  BY <1>4, <1>6, <1>7, <1>8, <1>9, <1>10 DEF DInv

LEMMA TickD ==
  ASSUME DInv, NEW ok \in BOOLEAN, Tick(ok)
  PROVE  DInv'
<1>w. /\ writer = "running" /\ Flush(buffer, Len(buffer), ok)
      /\ UNCHANGED <<issued, tasks, writer, chan, missed, pending>>
  BY DEF Tick
<1>t. /\ pending \in SUBSET Nat /\ next_seq \in Nat /\ buffer \in Seq(Nat)
      /\ Len(buffer) \in 0..Len(buffer) /\ Typed
  BY <1>w DEF DInv, Typed, Gapless
<1>1. PICK m \in Nat : next_seq' = m /\ skipped' = skipped \cup next_seq..m-1
  <2>1. CASE pending # {} /\ Min(pending) > next_seq + OUT_OF_ORDER_THRESHOLD
    BY <2>1, <1>t, MinIs DEF Tick, Skip
  <2>2. CASE ~(pending # {} /\ Min(pending) > next_seq + OUT_OF_ORDER_THRESHOLD)
    <3>1. next_seq' = next_seq /\ skipped' = skipped
      BY <2>2 DEF Tick
    <3>2. next_seq..next_seq-1 = {}
      BY <1>t
    <3> QED
      BY <3>1, <3>2, <1>t
  <2> QED
    BY <2>1, <2>2
<1>2. Fine(file \o buffer, skipped') /\ lost \cap ToSet(file \o buffer) = {}
  <2>1. Out = file \o buffer /\ skipped \subseteq skipped'
    BY <1>1 DEF Out
  <2> QED
    BY <2>1, FineGrows DEF DInv, Apart
<1>3. /\ file' \in Seq(Nat) /\ buffer' \in Seq(Nat) /\ lost' \in SUBSET Nat
      /\ Fine(Out', skipped')
      /\ ToSet(Out') \cup lost' = ToSet(Out) \cup lost
      /\ ToSet(Out') \cap lost' = {}
  BY <1>w, <1>t, <1>2, FlushKeeps DEF Out
<1>4. Done' = Done
  BY <1>3 DEF Done
<1>5. Typed'
  BY <1>w, <1>3 DEF DInv, Typed
<1>6. Sent' = (ToSet(Out) \cup ToSet(chan) \cup pending \cup lost \cup missed)'
  <2>1. Sent' = Sent /\ ToSet(chan)' = ToSet(chan)
    BY <1>w DEF Sent
  <2> QED
    BY <2>1, <1>w, <1>3 DEF DInv
<1>7. Apart'
  <2>1. ToSet(chan)' = ToSet(chan) /\ pending' = pending /\ chan' = chan
    BY <1>w
  <2> QED
    BY <2>1, <1>3 DEF DInv, Apart
<1>8. Gapless'
  <2>1. /\ \A y \in 0..next_seq-1 : y \in Done \cup skipped
        /\ \A x \in Done : \A y \in 0..x-1 : y \in Done \cup skipped
    BY <1>w DEF DInv, Gapless
  <2>2. \A y \in 0..m-1 : y \in 0..next_seq-1 \/ y \in next_seq..m-1
    BY <1>t
  <2> QED
    BY <2>1, <2>2, <1>1, <1>4 DEF Gapless
<1>9. Ending'
  BY <1>w DEF Ending
<1> QED
  BY <1>3, <1>5, <1>6, <1>7, <1>8, <1>9 DEF DInv

LEMMA ShutdownD ==
  ASSUME DInv, Shutdown
  PROVE  DInv'
<1>w. /\ writer = "running" /\ writer' = "draining" /\ chan' = <<>> /\ pending' = {}
      /\ buffer' = buffer \o Sorted(Leftover)
      /\ UNCHANGED <<issued, tasks, missed, file, skipped, lost>>
  BY DEF Shutdown
<1>1. /\ buffer' \in Seq(Nat) /\ Fine(file \o buffer', skipped)
      /\ ToSet(file \o buffer') = ToSet(Out) \cup Leftover
      /\ lost \cap ToSet(file \o buffer') = {}
  <2>1. Leftover \in SUBSET Leftover /\ skipped \subseteq skipped
    OBVIOUS
  <2> QED
    BY <2>1, <1>w, Collected
<1>2. Out' = file \o buffer' /\ ToSet(chan)' = {}
  BY <1>w DEF Out, ToSet
<1>3. Typed'
  BY <1>w, <1>1 DEF DInv, Typed
<1>4. Fine(Out, skipped)'
  BY <1>w, <1>1, <1>2
<1>5. Sent' = (ToSet(Out) \cup ToSet(chan) \cup pending \cup lost \cup missed)'
  <2>1. Sent' = Sent
    BY <1>w DEF Sent
  <2> QED
    BY <2>1, <1>w, <1>1, <1>2 DEF DInv, Leftover
<1>6. Apart'
  <2>1. \A i, j \in 1..Len(chan') : chan'[i] = chan'[j] => i = j
    BY <1>w
  <2> QED
    BY <2>1, <1>w, <1>1, <1>2 DEF Apart
<1>7. Gapless'
  BY <1>w DEF Gapless
<1>8. Ending'
  BY <1>w, <1>2 DEF Ending
<1> QED
  BY <1>3, <1>4, <1>5, <1>6, <1>7, <1>8 DEF DInv

LEMMA LastFlushD ==
  ASSUME DInv, NEW ok \in BOOLEAN, LastFlush(ok)
  PROVE  DInv'
<1>w. /\ writer = "draining" /\ writer' = "ended" /\ Flush(buffer, Len(buffer), ok)
      /\ UNCHANGED <<issued, tasks, chan, missed, pending, skipped>>
  BY DEF LastFlush
<1>t. buffer \in Seq(Nat) /\ Len(buffer) \in 0..Len(buffer) /\ Typed
  BY DEF DInv, Typed
<1>1. Fine(file \o buffer, skipped) /\ lost \cap ToSet(file \o buffer) = {}
  BY DEF DInv, Apart, Out
<1>2. /\ file' \in Seq(Nat) /\ buffer' \in Seq(Nat) /\ lost' \in SUBSET Nat
      /\ Fine(Out', skipped)
      /\ ToSet(Out') \cup lost' = ToSet(Out) \cup lost
      /\ ToSet(Out') \cap lost' = {}
      /\ buffer' = <<>>
  BY <1>w, <1>t, <1>1, FlushKeeps DEF Out
<1>3. Typed'
  BY <1>w, <1>2 DEF DInv, Typed
<1>4. Sent' = (ToSet(Out) \cup ToSet(chan) \cup pending \cup lost \cup missed)'
  <2>1. Sent' = Sent /\ ToSet(chan)' = ToSet(chan)
    BY <1>w DEF Sent
  <2> QED
    BY <2>1, <1>w, <1>2 DEF DInv
<1>5. Apart'
  <2>1. ToSet(chan)' = ToSet(chan) /\ pending' = pending /\ chan' = chan
    BY <1>w
  <2> QED
    BY <2>1, <1>2 DEF DInv, Apart
<1>6. Gapless'
  BY <1>w DEF Gapless
<1>7. Ending'
  <2>1. ToSet(chan)' = ToSet(chan)
    BY <1>w
  <2> QED
    BY <2>1, <1>w, <1>2 DEF DInv, Ending
<1>8. Fine(Out, skipped)'
  BY <1>2, <1>w
<1> QED
  BY <1>3, <1>4, <1>5, <1>6, <1>7, <1>8 DEF DInv

\* Steps that leave the lines where they are.
LEMMA RestD ==
  ASSUME DInv, UNCHANGED <<issued, tasks, writer, chan, missed, writerVars>>
  PROVE  DInv'
<1>1. Out' = Out /\ Done' = Done /\ Sent' = Sent
  BY DEF Out, Done, Sent, writerVars
<1>2. Typed'
  BY DEF DInv, Typed, writerVars
<1>3. Apart' /\ Gapless' /\ Ending'
  BY <1>1 DEF DInv, Apart, Gapless, Ending, writerVars
<1>4. Fine(Out, skipped)'
  BY <1>1 DEF DInv, writerVars
<1>5. Sent' = (ToSet(Out) \cup ToSet(chan) \cup pending \cup lost \cup missed)'
  BY <1>1 DEF DInv, writerVars
<1> QED
  BY <1>2, <1>3, <1>4, <1>5 DEF DInv

LEMMA NextD ==
  ASSUME DInv, [Next]_vars
  PROVE  DInv'
<1>1. CASE Debug
  BY <1>1, DebugD
<1>2. ASSUME NEW s \in tasks, Send(s) PROVE DInv'
  BY <1>2, SendD
<1>3. ASSUME NEW ok \in BOOLEAN, Receive(ok) PROVE DInv'
  BY <1>3, ReceiveD
<1>4. ASSUME NEW ok \in BOOLEAN, Tick(ok) PROVE DInv'
  BY <1>4, TickD
<1>5. ASSUME NEW ok \in BOOLEAN, LastFlush(ok) PROVE DInv'
  BY <1>5, LastFlushD
<1>6. CASE Shutdown
  BY <1>6, ShutdownD
<1>7. CASE FlushAll \/ Joined \/ TimedOut \/ UNCHANGED vars
  <2>1. UNCHANGED <<issued, tasks, writer, chan, missed, writerVars>>
    BY <1>7 DEF FlushAll, Joined, TimedOut, vars
  <2> QED
    BY <2>1, RestD
<1> QED
  BY <1>1, <1>2, <1>3, <1>4, <1>5, <1>6, <1>7 DEF Next

-----------------------------------------------------------------------------
(* What holds in every state *)

LEMMA DInvImplies ==
  ASSUME DInv
  PROVE  InOrder /\ NothingLost
<1>1. Out \in Seq(Nat) /\ chan \in Seq(Nat)
  BY DEF DInv, Fine, Typed
<1>2. InOrder
  <2>1. DOMAIN Out = 1..Len(Out)
    BY <1>1
  <2> QED
    BY <2>1 DEF DInv, Fine, InOrder
<1>3. IsInjective(Out \o chan)
  <2>0. PICK l \in Nat, k \in Nat : l = Len(Out) /\ k = Len(chan)
    BY <1>1
  <2>p. PICK p : p = Out \o chan
    OBVIOUS
  <2>1. /\ DOMAIN p = 1..(l + k)
        /\ \A i \in 1..l : p[i] = Out[i]
        /\ \A i \in 1..k : p[l + i] = chan[i]
    <3>1. p \in Seq(Nat) /\ Len(p) = l + k
      BY <1>1, <2>0, <2>p, Joined2
    <3> QED
      BY <3>1, <1>1, <2>0, <2>p, Joined2
  <2>2. /\ \A i, j \in 1..l : i < j => Out[i] # Out[j]
        /\ \A i, j \in 1..k : chan[i] = chan[j] => i = j
        /\ \A i \in 1..l, j \in 1..k : Out[i] # chan[j]
    <3>1. /\ \A i \in 1..l : Out[i] \in ToSet(Out)
          /\ \A j \in 1..k : chan[j] \in ToSet(chan)
      BY <1>1, <2>0, Joined2
    <3> QED
      BY <3>1, <2>0 DEF DInv, Fine, Apart
  <2>3. ASSUME NEW i \in 1..(l + k), NEW j \in 1..(l + k), i < j PROVE p[i] # p[j]
    <3>1. CASE j <= l
      <4>1. i \in 1..l /\ j \in 1..l
        BY <3>1, <2>3
      <4> QED
        BY <4>1, <2>1, <2>2, <2>3
    <3>2. CASE i <= l /\ j > l
      <4>1. i \in 1..l /\ j - l \in 1..k /\ j = l + (j - l)
        BY <3>2
      <4>2. PICK m \in 1..k : j = l + m
        BY <4>1
      <4> QED
        BY <4>1, <4>2, <2>1, <2>2
    <3>3. CASE i > l
      <4>1. i - l \in 1..k /\ i = l + (i - l) /\ j - l \in 1..k /\ j = l + (j - l)
        BY <3>3, <2>3
      <4>2. PICK n \in 1..k, m \in 1..k : i = l + n /\ j = l + m
        BY <4>1
      <4>3. n # m
        BY <4>2, <2>3
      <4>4. p[i] = chan[n] /\ p[j] = chan[m]
        BY <4>2, <2>1
      <4>5. chan[n] # chan[m]
        BY <4>3, <2>2
      <4> QED
        BY <4>4, <4>5
    <3> QED
      BY <3>1, <3>2, <3>3
  <2>4. \A i, j \in 1..(l + k) : p[i] = p[j] => i = j
    <3> SUFFICES ASSUME NEW i \in 1..(l + k), NEW j \in 1..(l + k), p[i] = p[j], i # j
                 PROVE  FALSE
      OBVIOUS
    <3>1. i < j \/ j < i
      OBVIOUS
    <3> QED
      BY <3>1, <2>3
  <2> QED
    BY <2>p, <2>1, <2>4 DEF IsInjective
<1>4. writer = "ended" => Sent = ToSet(file) \cup lost \cup missed
  <2> SUFFICES ASSUME writer = "ended"
               PROVE  Sent = ToSet(file) \cup lost \cup missed
    OBVIOUS
  <2>1. pending = {} /\ ToSet(chan) \subseteq missed /\ buffer = <<>> /\ file \in Seq(Nat)
    BY DEF DInv, Ending, Typed
  <2>2. ToSet(buffer) = {} /\ buffer \in Seq(Nat)
    BY <2>1 DEF ToSet
  <2>3. ToSet(Out) = ToSet(file)
    BY <2>1, <2>2, Joined2 DEF Out
  <2> QED
    BY <2>1, <2>3 DEF DInv
<1> QED
  BY <1>2, <1>3, <1>4 DEF NothingLost, DInv, Apart

\* submit_debug_log, the writer's loop and flush_all_debug_logs: whatever the
\* order in which the tasks send, with any number of lines and any limits, a
\* line comes after one with a higher number only if the writer had given up
\* on its number.
THEOREM LinesInOrder == Spec => []InOrder
<1>1. Init => DInv
  BY InitD
<1>2. DInv /\ [Next]_vars => DInv'
  BY NextD
<1>3. DInv => InOrder
  BY DInvImplies
<1> QED
  BY <1>1, <1>2, <1>3, PTL DEF Spec

\* The same of what becomes of the lines: a line that has been sent is in
\* exactly one place, and a writer that has ended has written all it was sent
\* in time and could write.
THEOREM LinesKept == Spec => []NothingLost
<1>1. Init => DInv
  BY InitD
<1>2. DInv /\ [Next]_vars => DInv'
  BY NextD
<1>3. DInv => NothingLost
  BY DInvImplies
<1> QED
  BY <1>1, <1>2, <1>3, PTL DEF Spec
=============================================================================
