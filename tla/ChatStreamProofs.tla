-------------------------- MODULE ChatStreamProofs --------------------------
(***************************************************************************)
(* What a chat response sends, for any frames, any number of them and any  *)
(* way of cutting them into chunks.                                        *)
(*                                                                         *)
(* The decoder, process_messages and collect are loops.  The first part    *)
(* turns each into the values before and after every turn, and shows what  *)
(* holds of the values by induction over an interval.  Four invariants of  *)
(* the specifications follow, each with the lemmas on operators that it    *)
(* needs:                                                                  *)
(*   SentOnce    nothing is sent twice, for any upstream server;           *)
(*   StreamInv   a streamed response, by the phase it is in;               *)
(*   CollectInv  a response that is not streamed;                          *)
(*   Typed       the variables' types.                                     *)
(***************************************************************************)
EXTENDS ChatStream, WellFoundedInduction, TLAPS

-----------------------------------------------------------------------------
(* Induction over an interval, and the loops *)

\* A set of natural numbers that is not empty has a least element.
LEMMA LeastOf ==
  ASSUME NEW T \in SUBSET Nat, T # {}
  PROVE  \E x \in T : \A y \in T : x <= y
<1>1. \E x \in T : \A y \in T : ~(<<y, x>> \in OpToRel(<, Nat))
  BY NatLessThanWellFounded, WFMin, Zenon
<1>2. PICK x \in T : \A y \in T : ~(<<y, x>> \in OpToRel(<, Nat))
  BY <1>1
<1>3. \A y \in T : ~(y < x)
  BY <1>2 DEF OpToRel
<1> QED
  BY <1>3

\* What holds of a and of every number whose predecessor it holds of.
LEMMA Upwards ==
  ASSUME NEW a \in Nat, NEW b \in Nat, NEW P, a \in P,
         \A i \in a..b : i # a /\ i - 1 \in P => i \in P
  PROVE  \A i \in a..b : i \in P
<1> SUFFICES ASSUME NEW i \in a..b, i \notin P PROVE FALSE
  OBVIOUS
<1> DEFINE T == {j \in a..b : j \notin P}
<1>1. T \in SUBSET Nat /\ T # {}
  OBVIOUS
<1>2. PICK x \in T : \A y \in T : x <= y
  BY <1>1, LeastOf
<1>3. x \in (a + 1)..b /\ x - 1 \in a..b /\ ~(x <= x - 1)
  OBVIOUS
<1>4. x - 1 \in P
  BY <1>2, <1>3
<1> QED
  BY <1>3, <1>4

\* The state after i messages of process_messages.
IsProcess(f, a, s, ms, n) ==
  f = [i \in 0..n |-> IF i = 0 THEN s ELSE (IF Left(ms, i) THEN f[i - 1] ELSE Step(a, f[i - 1], ms[i]))]

LEMMA ProcessRun ==
  ASSUME NEW a, NEW s, NEW ms, Len(ms) \in Nat
  PROVE  \E f : /\ f[0] = s
                /\ \A i \in 0..Len(ms) : i # 0 => f[i] = (IF Left(ms, i) THEN f[i - 1] ELSE Step(a, f[i - 1], ms[i]))
                /\ process_messages(a, s, ms) = f[Len(ms)]
<1> DEFINE P == {n \in Nat : \E f : IsProcess(f, a, s, ms, n)}
<1>l. 0 \in Nat /\ Len(ms) \in Nat /\ 0 <= Len(ms)
  OBVIOUS
<1>1. 0 \in P
  <2> DEFINE f == [i \in 0..0 |-> s]
  <2>1. IsProcess(f, a, s, ms, 0)
    BY <1>l DEF IsProcess
  <2> QED
    BY <1>l, <2>1
<1>2. ASSUME NEW n \in 0..Len(ms), n # 0, n - 1 \in P PROVE n \in P
  <2>1. PICK g : IsProcess(g, a, s, ms, n - 1)
    BY <1>2
  <2> DEFINE f == [i \in 0..n |-> IF i = n THEN (IF Left(ms, n) THEN g[n - 1] ELSE Step(a, g[n - 1], ms[n])) ELSE g[i]]
  <2>2. ASSUME NEW i \in 0..n
        PROVE  f[i] = IF i = 0 THEN s ELSE (IF Left(ms, i) THEN f[i - 1] ELSE Step(a, f[i - 1], ms[i]))
    <3>1. CASE i = n
      <4>1. f[i - 1] = g[n - 1] /\ i # 0
        BY <1>l, <1>2, <3>1
      <4> QED
        BY <3>1, <4>1
    <3>2. CASE i # n
      <4>1. i \in 0..(n - 1) /\ f[i] = g[i] /\ (i # 0 => f[i - 1] = g[i - 1])
        BY <1>l, <1>2, <3>2
      <4> QED
        BY <4>1, <2>1 DEF IsProcess
    <3> QED
      BY <3>1, <3>2
  <2>3. IsProcess(f, a, s, ms, n)
    BY <2>2 DEF IsProcess
  <2> QED
    BY <1>l, <2>3
<1>3. \A n \in 0..Len(ms) : n \in P
  BY <1>l, <1>1, <1>2, Upwards
<1>4. PICK g : IsProcess(g, a, s, ms, Len(ms))
  BY <1>l, <1>3
<1>5. \E f : IsProcess(f, a, s, ms, Len(ms)) /\ process_messages(a, s, ms) = f[Len(ms)]
  BY <1>4 DEF IsProcess, process_messages
<1>6. PICK f : IsProcess(f, a, s, ms, Len(ms)) /\ process_messages(a, s, ms) = f[Len(ms)]
  BY <1>5
<1>7. f[0] = s
  BY <1>l, <1>6 DEF IsProcess
<1>8. ASSUME NEW i \in 0..Len(ms), i # 0 PROVE f[i] = (IF Left(ms, i) THEN f[i - 1] ELSE Step(a, f[i - 1], ms[i]))
  BY <1>l, <1>6, <1>8 DEF IsProcess
<1> QED
  BY <1>6, <1>7, <1>8

\* The state after i messages of a response that is collected.
IsCollect(f, a, s, ms, c, n) ==
  f = [i \in 0..n |-> IF i = 0 THEN s ELSE CollectStep(a, f[i - 1], ms[i], Pieces(ms), c)]

CollectTurns(f, a, s, ms, c) ==
  /\ f[0] = s
  /\ \A i \in 0..Len(ms) : i # 0 => f[i] = CollectStep(a, f[i - 1], ms[i], Pieces(ms), c)
  /\ collect(a, s, ms, c) = f[Len(ms)]

LEMMA CollectRun ==
  ASSUME NEW a, NEW s, NEW ms, NEW c, Len(ms) \in Nat
  PROVE  \E f : CollectTurns(f, a, s, ms, c)
<1> DEFINE P == {n \in Nat : \E f : IsCollect(f, a, s, ms, c, n)}
<1>l. 0 \in Nat /\ Len(ms) \in Nat /\ 0 <= Len(ms)
  OBVIOUS
<1>1. 0 \in P
  <2> DEFINE f == [i \in 0..0 |-> s]
  <2>1. IsCollect(f, a, s, ms, c, 0)
    BY <1>l DEF IsCollect
  <2> QED
    BY <1>l, <2>1
<1>2. ASSUME NEW n \in 0..Len(ms), n # 0, n - 1 \in P PROVE n \in P
  <2>1. PICK g : IsCollect(g, a, s, ms, c, n - 1)
    BY <1>2
  <2> DEFINE f == [i \in 0..n |-> IF i = n THEN CollectStep(a, g[n - 1], ms[n], Pieces(ms), c) ELSE g[i]]
  <2>2. ASSUME NEW i \in 0..n
        PROVE  f[i] = IF i = 0 THEN s ELSE CollectStep(a, f[i - 1], ms[i], Pieces(ms), c)
    <3>1. CASE i = n
      <4>1. f[i - 1] = g[n - 1] /\ i # 0
        BY <1>l, <1>2, <3>1
      <4> QED
        BY <3>1, <4>1
    <3>2. CASE i # n
      <4>1. i \in 0..(n - 1) /\ f[i] = g[i] /\ (i # 0 => f[i - 1] = g[i - 1])
        BY <1>l, <1>2, <3>2
      <4> QED
        BY <4>1, <2>1 DEF IsCollect
    <3> QED
      BY <3>1, <3>2
  <2>3. IsCollect(f, a, s, ms, c, n)
    BY <2>2 DEF IsCollect
  <2> QED
    BY <1>l, <2>3
<1>3. \A n \in 0..Len(ms) : n \in P
  BY <1>l, <1>1, <1>2, Upwards
<1>4. PICK g : IsCollect(g, a, s, ms, c, Len(ms))
  BY <1>l, <1>3
<1>5. \E f : IsCollect(f, a, s, ms, c, Len(ms)) /\ collect(a, s, ms, c) = f[Len(ms)]
  BY <1>4 DEF IsCollect, collect
<1>6. PICK f : IsCollect(f, a, s, ms, c, Len(ms)) /\ collect(a, s, ms, c) = f[Len(ms)]
  BY <1>5
<1>7. f[0] = s
  BY <1>l, <1>6 DEF IsCollect
<1>8. ASSUME NEW i \in 0..Len(ms), i # 0 PROVE f[i] = CollectStep(a, f[i - 1], ms[i], Pieces(ms), c)
  BY <1>l, <1>6, <1>8 DEF IsCollect
<1>9. CollectTurns(f, a, s, ms, c)
  BY <1>6, <1>7, <1>8 DEF CollectTurns
<1> QED
  BY <1>9

\* What is kept of the first i elements.
IsOnly(f, seq, S, n) ==
  f = [i \in 0..n |-> IF i = 0 THEN <<>> ELSE (IF seq[i] \in S THEN Append(f[i - 1], seq[i]) ELSE f[i - 1])]

LEMMA OnlyRun ==
  ASSUME NEW seq, NEW S, Len(seq) \in Nat
  PROVE  \E f : /\ f[0] = <<>>
                /\ \A i \in 0..Len(seq) : i # 0 => f[i] = (IF seq[i] \in S THEN Append(f[i - 1], seq[i]) ELSE f[i - 1])
                /\ Only(seq, S) = f[Len(seq)]
<1> DEFINE P == {n \in Nat : \E f : IsOnly(f, seq, S, n)}
<1>l. 0 \in Nat /\ Len(seq) \in Nat /\ 0 <= Len(seq)
  OBVIOUS
<1>1. 0 \in P
  <2> DEFINE f == [i \in 0..0 |-> <<>>]
  <2>1. IsOnly(f, seq, S, 0)
    BY <1>l DEF IsOnly
  <2> QED
    BY <1>l, <2>1
<1>2. ASSUME NEW n \in 0..Len(seq), n # 0, n - 1 \in P PROVE n \in P
  <2>1. PICK g : IsOnly(g, seq, S, n - 1)
    BY <1>2
  <2> DEFINE f == [i \in 0..n |-> IF i = n THEN (IF seq[n] \in S THEN Append(g[n - 1], seq[n]) ELSE g[n - 1]) ELSE g[i]]
  <2>2. ASSUME NEW i \in 0..n
        PROVE  f[i] = IF i = 0 THEN <<>> ELSE (IF seq[i] \in S THEN Append(f[i - 1], seq[i]) ELSE f[i - 1])
    <3>1. CASE i = n
      <4>1. f[i - 1] = g[n - 1] /\ i # 0
        BY <1>l, <1>2, <3>1
      <4> QED
        BY <3>1, <4>1
    <3>2. CASE i # n
      <4>1. i \in 0..(n - 1) /\ f[i] = g[i] /\ (i # 0 => f[i - 1] = g[i - 1])
        BY <1>l, <1>2, <3>2
      <4> QED
        BY <4>1, <2>1 DEF IsOnly
    <3> QED
      BY <3>1, <3>2
  <2>3. IsOnly(f, seq, S, n)
    BY <2>2 DEF IsOnly
  <2> QED
    BY <1>l, <2>3
<1>3. \A n \in 0..Len(seq) : n \in P
  BY <1>l, <1>1, <1>2, Upwards
<1>4. PICK g : IsOnly(g, seq, S, Len(seq))
  BY <1>l, <1>3
<1>5. \E f : IsOnly(f, seq, S, Len(seq)) /\ Only(seq, S) = f[Len(seq)]
  BY <1>4 DEF IsOnly, Only
<1>6. PICK f : IsOnly(f, seq, S, Len(seq)) /\ Only(seq, S) = f[Len(seq)]
  BY <1>5
<1>7. f[0] = <<>>
  BY <1>l, <1>6 DEF IsOnly
<1>8. ASSUME NEW i \in 0..Len(seq), i # 0 PROVE f[i] = (IF seq[i] \in S THEN Append(f[i - 1], seq[i]) ELSE f[i - 1])
  BY <1>l, <1>6, <1>8 DEF IsOnly
<1> QED
  BY <1>6, <1>7, <1>8

\* The decoder before the first frame in the buffer.
Fresh(fs) ==
  [frames |-> fs, msgs |-> <<>>, err |-> FALSE, seen |-> ctx.seen,
   processed |-> ctx.processed, args |-> ctx.args]

\* The decoder after frame i.
IsDecode(f, fs, lo, n) ==
  f = [i \in lo..n |-> IF i = lo THEN Fresh(fs) ELSE DecodeFrame(f[i - 1], i)]

LEMMA DecodeRun ==
  ASSUME NEW fs, NEW lo \in Nat, lo = from - 1, Len(fs) \in Nat, lo <= Len(fs)
  PROVE  \E f : /\ f[lo] = Fresh(fs)
                /\ \A i \in lo..Len(fs) : i # lo => f[i] = DecodeFrame(f[i - 1], i)
                /\ Decoded(fs) = f[Len(fs)]
<1> DEFINE P == {n \in Nat : \E f : IsDecode(f, fs, lo, n)}
<1>l. lo \in Nat /\ Len(fs) \in Nat /\ lo <= Len(fs)
  OBVIOUS
<1>1. lo \in P
  <2> DEFINE f == [i \in lo..lo |-> Fresh(fs)]
  <2>1. IsDecode(f, fs, lo, lo)
    BY <1>l DEF IsDecode
  <2> QED
    BY <1>l, <2>1
<1>2. ASSUME NEW n \in lo..Len(fs), n # lo, n - 1 \in P PROVE n \in P
  <2>1. PICK g : IsDecode(g, fs, lo, n - 1)
    BY <1>2
  <2> DEFINE f == [i \in lo..n |-> IF i = n THEN DecodeFrame(g[n - 1], n) ELSE g[i]]
  <2>2. ASSUME NEW i \in lo..n
        PROVE  f[i] = IF i = lo THEN Fresh(fs) ELSE DecodeFrame(f[i - 1], i)
    <3>1. CASE i = n
      <4>1. f[i - 1] = g[n - 1] /\ i # lo
        BY <1>l, <1>2, <3>1
      <4> QED
        BY <3>1, <4>1
    <3>2. CASE i # n
      <4>1. i \in lo..(n - 1) /\ f[i] = g[i] /\ (i # lo => f[i - 1] = g[i - 1])
        BY <1>l, <1>2, <3>2
      <4> QED
        BY <4>1, <2>1 DEF IsDecode
    <3> QED
      BY <3>1, <3>2
  <2>3. IsDecode(f, fs, lo, n)
    BY <2>2 DEF IsDecode
  <2> QED
    BY <1>l, <2>3
<1>3. \A n \in lo..Len(fs) : n \in P
  BY <1>l, <1>1, <1>2, Upwards
<1>4. PICK g : IsDecode(g, fs, lo, Len(fs))
  BY <1>l, <1>3
<1>5. \E f : IsDecode(f, fs, lo, Len(fs)) /\ Decoded(fs) = f[Len(fs)]
  BY <1>4 DEF IsDecode, Fresh, Decoded
<1>6. PICK f : IsDecode(f, fs, lo, Len(fs)) /\ Decoded(fs) = f[Len(fs)]
  BY <1>5
<1>7. f[lo] = Fresh(fs)
  BY <1>l, <1>6 DEF IsDecode
<1>8. ASSUME NEW i \in lo..Len(fs), i # lo PROVE f[i] = DecodeFrame(f[i - 1], i)
  BY <1>l, <1>6, <1>8 DEF IsDecode
<1> QED
  BY <1>6, <1>7, <1>8

-----------------------------------------------------------------------------
(* Sequences *)

\* Appending one element.
LEMMA Appended ==
  ASSUME NEW T, NEW s \in Seq(T), NEW e \in T
  PROVE  /\ Append(s, e) \in Seq(T) /\ Len(Append(s, e)) = Len(s) + 1 /\ Len(s) \in Nat
         /\ DOMAIN s = 1..Len(s) /\ DOMAIN Append(s, e) = 1..(Len(s) + 1)
         /\ \A i \in 1..Len(s) : Append(s, e)[i] = s[i]
         /\ Append(s, e)[Len(s) + 1] = e
OBVIOUS

\* Putting one sequence after another.
LEMMA Joined ==
  ASSUME NEW T, NEW a \in Seq(T), NEW b \in Seq(T)
  PROVE  /\ a \o b \in Seq(T) /\ Len(a \o b) = Len(a) + Len(b)
         /\ Len(a) \in Nat /\ Len(b) \in Nat
         /\ DOMAIN a = 1..Len(a) /\ DOMAIN b = 1..Len(b)
         /\ DOMAIN (a \o b) = 1..(Len(a) + Len(b))
         /\ \A i \in 1..Len(a) : (a \o b)[i] = a[i]
         /\ \A i \in 1..Len(b) : (a \o b)[Len(a) + i] = b[i]
OBVIOUS

\* Where the elements of Only(seq, S) come from: an increasing sequence of
\* positions, among them those of all elements in S.
Picks(h, out, seq, S, n) ==
  /\ h \in [1..Len(out) -> 1..n]
  /\ \A k \in 1..Len(out) : out[k] = seq[h[k]] /\ out[k] \in S
  /\ \A k, l \in 1..Len(out) : k < l => h[k] < h[l]
  /\ \A i \in 1..n : seq[i] \in S => \E k \in 1..Len(out) : h[k] = i

LEMMA OnlyIs ==
  ASSUME NEW T, NEW seq \in Seq(T), NEW S
  PROVE  Only(seq, S) \in Seq(T) /\ \E h : Picks(h, Only(seq, S), seq, S, Len(seq))
<1>1. Len(seq) \in Nat /\ \A i \in 1..Len(seq) : seq[i] \in T
  OBVIOUS
<1>2. PICK f : /\ f[0] = <<>>
               /\ \A i \in 0..Len(seq) :
                    i # 0 => f[i] = (IF seq[i] \in S THEN Append(f[i - 1], seq[i]) ELSE f[i - 1])
               /\ Only(seq, S) = f[Len(seq)]
  BY <1>1, OnlyRun
<1> DEFINE P == {i \in 0..Len(seq) : f[i] \in Seq(T) /\ \E h : Picks(h, f[i], seq, S, i)}
<1>3. 0 \in P
  <2> DEFINE h == [k \in 1..0 |-> 0]
  <2>1. f[0] \in Seq(T) /\ Len(f[0]) = 0
    BY <1>2
  <2>2. Picks(h, f[0], seq, S, 0)
    BY <2>1 DEF Picks
  <2> QED
    BY <1>1, <2>1, <2>2
<1>4. ASSUME NEW i \in 0..Len(seq), i # 0, i - 1 \in P PROVE i \in P
  <2>1. PICK h : Picks(h, f[i - 1], seq, S, i - 1)
    BY <1>4
  <2>2. f[i - 1] \in Seq(T) /\ seq[i] \in T /\ i \in 1..Len(seq)
    BY <1>1, <1>4
  <2>3. PICK m \in Nat : m = Len(f[i - 1])
    BY <2>2
  <2>4. CASE seq[i] \in S
    <3>1. f[i] = Append(f[i - 1], seq[i])
      BY <1>2, <1>4, <2>4
    <3>2. /\ f[i] \in Seq(T) /\ Len(f[i]) = m + 1 /\ f[i][m + 1] = seq[i]
          /\ \A k \in 1..m : f[i][k] = f[i - 1][k]
      BY <2>2, <2>3, <3>1, Appended
    <3> DEFINE hh == [k \in 1..(m + 1) |-> IF k = m + 1 THEN i ELSE h[k]]
    <3>3. hh \in [1..(m + 1) -> 1..i]
      BY <2>1, <2>2, <2>3 DEF Picks
    <3>4. ASSUME NEW k \in 1..m PROVE hh[k] = h[k] /\ h[k] \in 1..(i - 1)
      <4>1. h[k] \in 1..(i - 1)
        BY <2>1, <2>3 DEF Picks
      <4>2. k \in 1..(m + 1) /\ k # m + 1
        BY <2>3
      <4> QED
        BY <4>1, <4>2
    <3>5. hh[m + 1] = i
      BY <2>3
    <3> HIDE DEF hh
    <3>6. \A k \in 1..(m + 1) : f[i][k] = seq[hh[k]] /\ f[i][k] \in S
      <4> SUFFICES ASSUME NEW k \in 1..(m + 1) PROVE f[i][k] = seq[hh[k]] /\ f[i][k] \in S
        OBVIOUS
      <4>1. CASE k = m + 1
        BY <4>1, <3>5, <3>2, <2>4, <2>2
      <4>2. CASE k # m + 1
        <5>1. k \in 1..m
          BY <4>2, <2>3
        <5> QED
          BY <5>1, <3>2, <3>4, <2>1, <2>3 DEF Picks
      <4> QED
        BY <4>1, <4>2
    <3>7. \A k, l \in 1..(m + 1) : k < l => hh[k] < hh[l]
      <4> SUFFICES ASSUME NEW k \in 1..(m + 1), NEW l \in 1..(m + 1), k < l PROVE hh[k] < hh[l]
        OBVIOUS
      <4>1. k \in 1..m /\ m \in Nat
        BY <2>3
      <4>2. CASE l = m + 1
        BY <4>1, <4>2, <3>4, <3>5, <2>2
      <4>3. CASE l # m + 1
        <5>1. l \in 1..m
          BY <4>3, <2>3
        <5> QED
          BY <5>1, <4>1, <3>4, <2>1, <2>3 DEF Picks
      <4> QED
        BY <4>2, <4>3
    <3>8. ASSUME NEW j \in 1..i, seq[j] \in S PROVE \E k \in 1..(m + 1) : hh[k] = j
      <4>1. CASE j = i
        BY <4>1, <3>5, <2>3
      <4>2. CASE j # i
        <5>1. j \in 1..(i - 1)
          BY <4>2, <2>2
        <5>2. PICK k \in 1..m : h[k] = j
          BY <5>1, <3>8, <2>1, <2>3 DEF Picks
        <5> QED
          BY <5>2, <3>4, <2>3
      <4> QED
        BY <4>1, <4>2
    <3>9. Picks(hh, f[i], seq, S, i)
      BY <3>2, <3>3, <3>6, <3>7, <3>8 DEF Picks
    <3> QED
      BY <3>2, <3>9
  <2>5. CASE seq[i] \notin S
    <3>1. f[i] = f[i - 1]
      BY <1>2, <1>4, <2>5
    <3>2. h \in [1..m -> 1..i] /\ Len(f[i]) = m
      BY <2>1, <2>2, <2>3, <3>1 DEF Picks
    <3>3. ASSUME NEW j \in 1..i, seq[j] \in S PROVE \E k \in 1..m : h[k] = j
      <4>1. j \in 1..(i - 1)
        BY <3>3, <2>5, <2>2
      <4> QED
        BY <4>1, <3>3, <2>1, <2>3 DEF Picks
    <3>4. Picks(h, f[i], seq, S, i)
      BY <3>1, <3>2, <3>3, <2>1, <2>3 DEF Picks
    <3> QED
      BY <3>1, <3>4, <2>2
  <2> QED
    BY <2>4, <2>5
<1>5. \A i \in 0..Len(seq) : i \in P
  BY <1>1, <1>3, <1>4, Upwards
<1> QED
  BY <1>1, <1>2, <1>5

-----------------------------------------------------------------------------
(* Nothing twice: the events *)

MsgSet == [kind : MsgKind, n : Nat]

\* InputJson is the type of a block only while it is being opened.
BlockKind == {"None", "Thinking", "Text", "InputJson", "ToolUse", "Redacted"}

EvState ==
  [started : BOOLEAN, thinking : BOOLEAN, last : BlockKind, index : Nat,
   ended : BOOLEAN, out : Seq(EventSet)]

Distinct(out) ==
  \A i, j \in DOMAIN out : out[i].n > 0 /\ out[i].n = out[j].n => i = j

Numbers(out) == {out[i].n : i \in DOMAIN out}

\* Nothing was sent twice, and only frames of A were.
Clean(s, A) == s \in EvState /\ Distinct(s.out) /\ Numbers(s.out) \subseteq A \cup {0}

LEMMA EmitIs ==
  ASSUME NEW s \in EvState, NEW e \in EventSet
  PROVE  /\ Emit(s, e) \in EvState
         /\ Emit(s, e).out = Append(s.out, e)
         /\ Emit(s, e).started = s.started /\ Emit(s, e).thinking = s.thinking
         /\ Emit(s, e).last = s.last /\ Emit(s, e).index = s.index
         /\ Emit(s, e).ended = s.ended
<1>1. s.out \in Seq(EventSet)
  BY DEF EvState
<1>2. Append(s.out, e) \in Seq(EventSet)
  BY <1>1
<1> QED
  BY <1>2 DEF Emit, EvState

LEMMA EmitClean ==
  ASSUME NEW s, NEW A, NEW e \in EventSet, Clean(s, A), e.n = 0 \/ e.n \notin A
  PROVE  Clean(Emit(s, e), A \cup {e.n})
<1>1. /\ s \in EvState /\ Distinct(s.out) /\ Numbers(s.out) \subseteq A \cup {0}
      /\ s.out \in Seq(EventSet)
  BY DEF Clean, EvState
<1>2. PICK m \in Nat : m = Len(s.out)
  BY <1>1
<1>3. PICK out : out = Append(s.out, e)
  OBVIOUS
<1>4. /\ DOMAIN s.out = 1..m /\ DOMAIN out = 1..(m + 1) /\ out[m + 1] = e
      /\ \A i \in 1..m : out[i] = s.out[i]
  BY <1>1, <1>2, <1>3, Appended
<1>5. ASSUME NEW i \in 1..m PROVE s.out[i].n \in Nat /\ s.out[i].n \in A \cup {0}
  <2>1. s.out[i] \in EventSet
    BY <1>1, <1>2
  <2>2. s.out[i].n \in Numbers(s.out)
    BY <1>4 DEF Numbers
  <2> QED
    BY <1>1, <2>1, <2>2 DEF EventSet
<1>6. Distinct(out)
  <2> SUFFICES ASSUME NEW i \in 1..(m + 1), NEW j \in 1..(m + 1),
                      out[i].n > 0, out[i].n = out[j].n
               PROVE  i = j
    BY <1>4 DEF Distinct
  <2>1. ASSUME NEW k \in 1..(m + 1), k # m + 1 PROVE k \in 1..m /\ out[k] = s.out[k]
    BY <1>2, <1>4, <2>1
  <2>2. CASE i # m + 1 /\ j # m + 1
    BY <2>1, <2>2, <1>1, <1>4 DEF Distinct
  <2>3. CASE i = m + 1 /\ j # m + 1
    BY <2>1, <2>3, <1>4, <1>5 DEF EventSet
  <2>4. CASE i # m + 1 /\ j = m + 1
    BY <2>1, <2>4, <1>4, <1>5 DEF EventSet
  <2> QED
    BY <2>2, <2>3, <2>4
<1>7. Numbers(out) \subseteq (A \cup {e.n}) \cup {0}
  <2> SUFFICES ASSUME NEW i \in 1..(m + 1) PROVE out[i].n \in (A \cup {e.n}) \cup {0}
    BY <1>4 DEF Numbers
  <2>1. CASE i = m + 1
    BY <2>1, <1>4
  <2>2. CASE i # m + 1
    <3>1. i \in 1..m
      BY <2>2, <1>2
    <3> QED
      BY <3>1, <1>4, <1>5
  <2> QED
    BY <2>1, <2>2
<1> QED
  BY <1>1, <1>3, <1>6, <1>7, EmitIs DEF Clean

\* Frames that were not sent may be counted in.
LEMMA CleanMore ==
  ASSUME NEW s, NEW A, NEW B, Clean(s, A), A \subseteq B \cup {0}
  PROVE  Clean(s, B)
BY DEF Clean

\* An event without a frame.
LEMMA EmitClean0 ==
  ASSUME NEW s, NEW A, NEW e \in EventSet, Clean(s, A), e.n = 0
  PROVE  Clean(Emit(s, e), A)
<1>1. Clean(Emit(s, e), A \cup {e.n})
  BY EmitClean
<1> QED
  BY <1>1 DEF Clean

LEMMA EmitIfClean0 ==
  ASSUME NEW p, NEW s, NEW A, NEW e \in EventSet, Clean(s, A), e.n = 0
  PROVE  Clean(EmitIf(p, s, e), A)
<1>1. CASE p
  BY <1>1, EmitClean0 DEF EmitIf
<1>2. CASE ~p
  BY <1>2 DEF EmitIf
<1> QED
  BY <1>1, <1>2

LEMMA EventIs ==
  ASSUME NEW type \in EventTypes, NEW i \in Nat, NEW n \in Nat
  PROVE  /\ Event(type, i, n) \in EventSet
         /\ Event(type, i, n).type = type /\ Event(type, i, n).index = i /\ Event(type, i, n).n = n
BY DEF Event, EventSet

LEMMA OpenAiClean ==
  ASSUME NEW s, NEW A, NEW m \in MsgSet, Clean(s, A),
         m.kind # "end" => m.n = 0 \/ m.n \notin A
  PROVE  Clean(OpenAiStep(s, m), IF m.kind = "end" THEN A ELSE A \cup {m.n})
<1>0. m.n \in Nat /\ m.kind \in MsgKind
  BY DEF MsgSet
<1>e. ASSUME NEW type \in EventTypes, NEW n \in Nat
      PROVE  Event(type, 0, n) \in EventSet /\ Event(type, 0, n).n = n
  BY EventIs
<1>t. {"close", "role", "text", "think", "open", "finish"} \subseteq EventTypes
  BY DEF EventTypes
<1>1. CASE m.kind = "text"
  <2> DEFINE closed == EmitIf(s.thinking, s, Event("close", 0, 0))
             begun  == EmitIf(~s.started, closed, Event("role", 0, 0))
             sent   == Emit(begun, Event("text", 0, m.n))
  <2>1. Clean(closed, A)
    BY <1>e, <1>t, EmitIfClean0
  <2>2. Clean(begun, A)
    BY <1>e, <1>t, <2>1, EmitIfClean0
  <2>3. Clean(sent, A \cup {m.n})
    <3>1. Event("text", 0, m.n) \in EventSet /\ Event("text", 0, m.n).n = m.n
      BY <1>e, <1>t, <1>0
    <3> QED
      BY <3>1, <1>1, <2>2, EmitClean
  <2> HIDE DEF sent
  <2>4. Clean([sent EXCEPT !.thinking = FALSE, !.started = TRUE], A \cup {m.n})
    BY <2>3 DEF Clean, EvState
  <2>5. OpenAiStep(s, m) = [sent EXCEPT !.thinking = FALSE, !.started = TRUE]
    BY <1>1 DEF OpenAiStep, OpenAiText, sent
  <2> QED
    BY <2>4, <2>5, <1>1
<1>2. CASE m.kind = "think"
  <2> DEFINE begun  == EmitIf(~s.thinking /\ ~s.started, s, Event("role", 0, 0))
             opened == EmitIf(~s.thinking, begun, Event("open", 0, 0))
             sent   == Emit(opened, Event("think", 0, m.n))
  <2>1. Clean(begun, A)
    BY <1>e, <1>t, EmitIfClean0
  <2>2. Clean(opened, A)
    BY <1>e, <1>t, <2>1, EmitIfClean0
  <2>3. Clean(sent, A \cup {m.n})
    <3>1. Event("think", 0, m.n) \in EventSet /\ Event("think", 0, m.n).n = m.n
      BY <1>e, <1>t, <1>0
    <3> QED
      BY <3>1, <1>2, <2>2, EmitClean
  <2>5. OpenAiStep(s, m) = [sent EXCEPT !.thinking = TRUE, !.started = TRUE]
    BY <1>2 DEF OpenAiStep, OpenAiThinking, OpenAiThought
  <2> HIDE DEF sent
  <2>4. Clean([sent EXCEPT !.thinking = TRUE, !.started = TRUE], A \cup {m.n})
    BY <2>3 DEF Clean, EvState
  <2> QED
    BY <2>4, <2>5, <1>2
<1>3. CASE m.kind = "end"
  <2> DEFINE sent == Emit(s, Event("finish", 0, 0))
  <2>1. Clean(sent, A)
    BY <1>e, <1>t, EmitClean0
  <2>2. OpenAiStep(s, m) = [sent EXCEPT !.ended = TRUE]
    BY <1>3 DEF OpenAiStep
  <2> HIDE DEF sent
  <2>3. Clean([sent EXCEPT !.ended = TRUE], A)
    BY <2>1 DEF Clean, EvState
  <2> QED
    BY <2>2, <2>3, <1>3
<1>4. CASE m.kind \notin {"text", "think", "end"}
  <2>1. OpenAiStep(s, m) = s
    BY <1>4 DEF OpenAiStep
  <2> QED
    BY <2>1, <1>4, CleanMore
<1> QED
  BY <1>1, <1>2, <1>3, <1>4

LEMMA StopIs ==
  ASSUME NEW i \in Nat
  PROVE  Event("stop", i, 0) \in EventSet /\ Event("stop", i, 0).n = 0
<1>1. "stop" \in EventTypes /\ 0 \in Nat
  BY DEF EventTypes
<1> QED
  BY <1>1, EventIs

LEMMA BlockClean ==
  ASSUME NEW s, NEW A, NEW type \in BlockKind, NEW start \in EventTypes, Clean(s, A)
  PROVE  Clean(Block(s, type, start), A)
<1>0. s \in EvState /\ s.index \in Nat /\ NextIndex(s) \in Nat
  BY DEF Clean, EvState, NextIndex
<1> DEFINE stopped == EmitIf(s.last # "None", s, Event("stop", s.index, 0))
           sent    == Emit(stopped, Event(start, NextIndex(s), 0))
<1>1. Clean(stopped, A)
  <2>1. Event("stop", s.index, 0) \in EventSet /\ Event("stop", s.index, 0).n = 0
    BY <1>0, StopIs
  <2> QED
    BY <2>1, EmitIfClean0
<1>2. Clean(sent, A)
  <2>1. Event(start, NextIndex(s), 0) \in EventSet /\ Event(start, NextIndex(s), 0).n = 0
    BY <1>0, EventIs
  <2> QED
    BY <2>1, <1>1, EmitClean0
<1>3. Block(s, type, start)
        = IF s.last = type THEN s
          ELSE [sent EXCEPT !.index = NextIndex(s), !.last = type, !.ended = FALSE]
  BY DEF Block
<1> HIDE DEF sent
<1>4. Clean([sent EXCEPT !.index = NextIndex(s), !.last = type, !.ended = FALSE], A)
  BY <1>0, <1>2 DEF Clean, EvState
<1> QED
  BY <1>3, <1>4

LEMMA FirstBlockClean ==
  ASSUME NEW s, NEW A, NEW type \in BlockKind, NEW start \in EventTypes, Clean(s, A)
  PROVE  Clean(FirstBlock(s, type, start), A)
<1>e. ASSUME NEW t \in EventTypes PROVE Event(t, 0, 0) \in EventSet /\ Event(t, 0, 0).n = 0
  BY EventIs
<1>t. "message_start" \in EventTypes /\ "ping" \in EventTypes
  BY DEF EventTypes
<1> DEFINE announced == Emit(s, Event("message_start", 0, 0))
           opened    == Block(announced, type, start)
           sent      == Emit(opened, Event("ping", 0, 0))
<1>1. Clean(announced, A)
  BY <1>e, <1>t, EmitClean0
<1>2. Clean(opened, A)
  BY <1>1, BlockClean
<1>3. Clean(sent, A)
  BY <1>e, <1>t, <1>2, EmitClean0
<1>4. FirstBlock(s, type, start)
        = IF s.started THEN Block(s, type, start) ELSE [sent EXCEPT !.started = TRUE]
  BY DEF FirstBlock
<1> HIDE DEF sent
<1>5. Clean([sent EXCEPT !.started = TRUE], A)
  BY <1>3 DEF Clean, EvState
<1>6. CASE s.started
  BY <1>4, <1>6, BlockClean
<1>7. CASE ~s.started
  BY <1>4, <1>5, <1>7
<1> QED
  BY <1>6, <1>7

LEMMA DeltaClean ==
  ASSUME NEW s, NEW A, NEW type \in EventTypes, NEW n \in Nat, Clean(s, A),
         n = 0 \/ n \notin A
  PROVE  Clean(Delta(s, type, n), A \cup {n})
<1>1. s.index \in Nat
  BY DEF Clean, EvState
<1>2. Event(type, s.index, n) \in EventSet /\ Event(type, s.index, n).n = n
  BY <1>1, EventIs
<1> QED
  BY <1>2, EmitClean DEF Delta

LEMMA AnthropicClean ==
  ASSUME NEW s, NEW A, NEW m \in MsgSet, Clean(s, A),
         m.kind # "end" => m.n = 0 \/ m.n \notin A
  PROVE  Clean(AnthropicStep(s, m), IF m.kind = "end" THEN A ELSE A \cup {m.n})
<1>0. m.n \in Nat /\ m.kind \in MsgKind
  BY DEF MsgSet
<1>t. /\ {"start thinking", "start text", "start tool", "think", "sign", "text", "json", "stop"}
            \subseteq EventTypes
      /\ {"Thinking", "Text", "InputJson"} \subseteq BlockKind
  BY DEF EventTypes, BlockKind
<1>1. CASE m.kind \in {"think", "sign", "redacted"}
  <2> DEFINE t == FirstBlock(s, "Thinking", "start thinking")
  <2>1. Clean(t, A)
    BY <1>t, FirstBlockClean
  <2>2. AnthropicStep(s, m) = IF m.kind = "redacted" THEN t ELSE Delta(t, m.kind, m.n)
    BY <1>1 DEF AnthropicStep, AnthropicThinking
  <2> HIDE DEF t
  <2>3. CASE m.kind = "redacted"
    BY <2>1, <2>2, <2>3, CleanMore
  <2>4. CASE m.kind # "redacted"
    <3>1. m.kind \in EventTypes
      BY <1>1, <1>t, <2>4
    <3>2. Clean(Delta(t, m.kind, m.n), A \cup {m.n})
      BY <3>1, <2>1, <1>0, <1>1, DeltaClean
    <3> QED
      BY <3>2, <2>2, <2>4, <1>1
  <2> QED
    BY <2>3, <2>4
<1>2. CASE m.kind = "text"
  <2> DEFINE t == FirstBlock(s, "Text", "start text")
  <2>1. Clean(t, A)
    BY <1>t, FirstBlockClean
  <2>2. AnthropicStep(s, m) = Delta(t, "text", m.n)
    BY <1>2 DEF AnthropicStep, AnthropicText
  <2> HIDE DEF t
  <2>3. Clean(Delta(t, "text", m.n), A \cup {m.n})
    BY <1>0, <1>2, <1>t, <2>1, DeltaClean
  <2> QED
    BY <2>2, <2>3, <1>2
<1>3. CASE m.kind = "tool"
  <2> DEFINE t == Block(s, "InputJson", "start tool")
             u == Delta(t, "json", 0)
             v == [u EXCEPT !.last = "Text", !.started = TRUE]
  <2>1. Clean(t, A)
    BY <1>t, BlockClean
  <2>2. AnthropicStep(s, m) = Delta(v, "json", m.n)
    BY <1>3 DEF AnthropicStep, AnthropicTool
  <2> HIDE DEF t
  <2>3. Clean(u, A)
    <3>1. Clean(u, A \cup {0})
      BY <1>t, <2>1, DeltaClean
    <3> QED
      BY <3>1, CleanMore
  <2> HIDE DEF u
  <2>4. Clean(v, A)
    BY <2>3 DEF Clean, EvState, BlockKind
  <2> HIDE DEF v
  <2>5. Clean(Delta(v, "json", m.n), A \cup {m.n})
    BY <1>0, <1>3, <1>t, <2>4, DeltaClean
  <2> QED
    BY <2>2, <2>5, <1>3
<1>4. CASE m.kind = "end"
  <2> DEFINE t == EmitIf(s.last # "None", s, Event("stop", s.index, 0))
  <2>1. Clean(t, A)
    <3>1. s.index \in Nat
      BY DEF Clean, EvState
    <3>2. Event("stop", s.index, 0) \in EventSet /\ Event("stop", s.index, 0).n = 0
      BY <3>1, StopIs
    <3> QED
      BY <3>2, EmitIfClean0
  <2>2. AnthropicStep(s, m) = [t EXCEPT !.ended = TRUE, !.started = TRUE]
    BY <1>4 DEF AnthropicStep, AnthropicEnd
  <2> HIDE DEF t
  <2>3. Clean([t EXCEPT !.ended = TRUE, !.started = TRUE], A)
    BY <2>1 DEF Clean, EvState
  <2> QED
    BY <2>2, <2>3, <1>4
<1>5. CASE m.kind \notin {"think", "sign", "redacted", "text", "tool", "end"}
  <2>1. AnthropicStep(s, m) = s
    BY <1>5 DEF AnthropicStep
  <2> QED
    BY <2>1, <1>5, CleanMore
<1> QED
  BY <1>1, <1>2, <1>3, <1>4, <1>5

\* Messages of which each stands for a frame of its own, none of them in A; an
\* end stands for none.
Apart(ms, A) ==
  /\ ms \in Seq(MsgSet)
  /\ \A i \in DOMAIN ms : ms[i].kind # "end" => ms[i].n = 0 \/ ms[i].n \notin A
  /\ \A i, j \in DOMAIN ms :
       /\ ms[i].kind # "end" /\ ms[j].kind # "end"
       /\ ms[i].n > 0 /\ ms[i].n = ms[j].n
       => i = j

Carried(ms, i) == {ms[k].n : k \in {l \in 1..i : ms[l].kind # "end"}}

\* The message after the first i - 1 stands for a frame that they do not.
LEMMA ApartNext ==
  ASSUME NEW ms, NEW A, Apart(ms, A), NEW i \in 0..Len(ms), i # 0
  PROVE  /\ ms[i] \in MsgSet /\ i \in DOMAIN ms
         /\ ms[i].kind # "end" =>
              /\ ms[i].n = 0 \/ ms[i].n \notin A \cup Carried(ms, i - 1)
              /\ Carried(ms, i) = Carried(ms, i - 1) \cup {ms[i].n}
         /\ Carried(ms, i - 1) \subseteq Carried(ms, i)
<1>1. ms \in Seq(MsgSet) /\ Len(ms) \in Nat /\ DOMAIN ms = 1..Len(ms)
  BY DEF Apart
<1>2. i \in DOMAIN ms /\ ms[i] \in MsgSet /\ i \in 1..Len(ms)
  BY <1>1
<1>3. ASSUME ms[i].kind # "end", ms[i].n # 0, ms[i].n \in Carried(ms, i - 1) PROVE FALSE
  <2>1. PICK k \in 1..(i - 1) : ms[k].kind # "end" /\ ms[k].n = ms[i].n
    BY <1>3 DEF Carried
  <2>2. k \in 1..Len(ms) /\ k # i
    BY <1>2
  <2>3. ms[i].n > 0
    BY <1>2, <1>3 DEF MsgSet
  <2> QED
    BY <1>1, <1>2, <1>3, <2>1, <2>2, <2>3 DEF Apart
<1>4. ASSUME ms[i].kind # "end" PROVE ms[i].n = 0 \/ ms[i].n \notin A
  BY <1>2, <1>4 DEF Apart
<1>5. \A l \in 1..(i - 1) : l \in 1..i
  OBVIOUS
<1>6. \A l \in 1..i : l \in 1..(i - 1) \/ l = i
  OBVIOUS
<1>7. Carried(ms, i - 1) \subseteq Carried(ms, i)
  BY <1>5 DEF Carried
<1>8. ASSUME ms[i].kind # "end" PROVE Carried(ms, i) = Carried(ms, i - 1) \cup {ms[i].n}
  <2>1. i \in 1..i
    BY <1>2
  <2>2. ms[i].n \in Carried(ms, i)
    BY <1>8, <2>1 DEF Carried
  <2>3. Carried(ms, i) \subseteq Carried(ms, i - 1) \cup {ms[i].n}
    BY <1>6 DEF Carried
  <2> QED
    BY <1>7, <2>2, <2>3
<1> QED
  BY <1>2, <1>3, <1>4, <1>7, <1>8

LEMMA ProcessClean ==
  ASSUME NEW a, NEW s, NEW ms, NEW A, Clean(s, A), Apart(ms, A)
  PROVE  Clean(process_messages(a, s, ms), A \cup Carried(ms, Len(ms)))
<1>1. Len(ms) \in Nat
  BY DEF Apart
<1>2. PICK f : /\ f[0] = s
               /\ \A i \in 0..Len(ms) :
                    i # 0 => f[i] = (IF Left(ms, i) THEN f[i - 1] ELSE Step(a, f[i - 1], ms[i]))
               /\ process_messages(a, s, ms) = f[Len(ms)]
  BY <1>1, ProcessRun
<1> DEFINE P == {i \in Nat : Clean(f[i], A \cup Carried(ms, i))}
<1>3. 0 \in P
  BY <1>2, CleanMore
<1>4. ASSUME NEW i \in 0..Len(ms), i # 0, i - 1 \in P PROVE i \in P
  <2> DEFINE B == A \cup Carried(ms, i - 1)
  <2>1. Clean(f[i - 1], B) /\ i \in Nat
    BY <1>1, <1>4
  <2>2. /\ ms[i] \in MsgSet
        /\ ms[i].kind # "end" =>
             /\ ms[i].n = 0 \/ ms[i].n \notin B
             /\ A \cup Carried(ms, i) = B \cup {ms[i].n}
        /\ B \subseteq A \cup Carried(ms, i)
    BY <1>4, ApartNext
  <2> HIDE DEF B
  <2>3. CASE Left(ms, i)
    <3>1. f[i] = f[i - 1]
      BY <1>2, <1>4, <2>3
    <3> QED
      BY <3>1, <2>1, <2>2, CleanMore
  <2>4. CASE ~Left(ms, i)
    <3>1. PICK t, m : t = f[i - 1] /\ m = ms[i]
      OBVIOUS
    <3>2. f[i] = IF a = "openai" THEN OpenAiStep(t, m) ELSE AnthropicStep(t, m)
      BY <1>2, <1>4, <2>4, <3>1 DEF Step
    <3>3. Clean(t, B) /\ m \in MsgSet /\ (m.kind # "end" => m.n = 0 \/ m.n \notin B)
      BY <2>1, <2>2, <3>1
    <3>4. /\ Clean(OpenAiStep(t, m), IF m.kind = "end" THEN B ELSE B \cup {m.n})
          /\ Clean(AnthropicStep(t, m), IF m.kind = "end" THEN B ELSE B \cup {m.n})
      BY <3>3, OpenAiClean, AnthropicClean
    <3>5. Clean(f[i], IF m.kind = "end" THEN B ELSE B \cup {m.n})
      BY <3>2, <3>4
    <3> QED
      BY <3>1, <3>5, <2>1, <2>2, CleanMore
  <2> QED
    BY <2>3, <2>4
<1>5. \A i \in 0..Len(ms) : i \in P
  BY <1>1, <1>3, <1>4, Upwards
<1>6. PICK n \in Nat : n = Len(ms) /\ n \in 0..Len(ms)
  BY <1>1
<1>7. Clean(f[n], A \cup Carried(ms, n))
  BY <1>5, <1>6
<1> QED
  BY <1>2, <1>6, <1>7

LEMMA DistinctJoin ==
  ASSUME NEW a \in Seq(EventSet), NEW b \in Seq(EventSet), Distinct(a), Distinct(b),
         Numbers(a) \cap Numbers(b) \subseteq {0}
  PROVE  /\ a \o b \in Seq(EventSet) /\ Distinct(a \o b)
         /\ Numbers(a \o b) = Numbers(a) \cup Numbers(b)
<1>1. PICK out : out = a \o b
  OBVIOUS
<1>2. PICK m \in Nat : m = Len(a)
  OBVIOUS
<1>3. PICK l \in Nat : l = Len(b)
  OBVIOUS
<1>4. /\ out \in Seq(EventSet) /\ DOMAIN out = 1..(m + l)
      /\ DOMAIN a = 1..m /\ DOMAIN b = 1..l
      /\ \A i \in 1..m : out[i] = a[i]
      /\ \A i \in 1..l : out[m + i] = b[i]
  BY <1>1, <1>2, <1>3, Joined
<1>5. ASSUME NEW i \in 1..(m + l)
      PROVE  \/ i \in 1..m /\ out[i] = a[i] /\ a[i].n \in Numbers(a)
             \/ \E k \in 1..l : i = m + k /\ out[i] = b[k] /\ b[k].n \in Numbers(b)
  <2>1. CASE i <= m
    <3>1. i \in 1..m
      BY <2>1, <1>2
    <3> QED
      BY <3>1, <1>4 DEF Numbers
  <2>2. CASE ~(i <= m)
    <3>1. PICK k \in 1..l : i = m + k
      <4>1. i - m \in 1..l /\ i = m + (i - m)
        BY <2>2, <1>2, <1>3
      <4> QED
        BY <4>1
    <3> QED
      BY <3>1, <1>4 DEF Numbers
  <2> QED
    BY <2>1, <2>2
<1>6. ASSUME NEW i \in 1..m PROVE a[i].n \in Nat
  <2>1. a[i] \in EventSet
    BY <1>2
  <2> QED
    BY <2>1 DEF EventSet
<1>8. Distinct(out)
  <2> SUFFICES ASSUME NEW i \in 1..(m + l), NEW j \in 1..(m + l),
                      out[i].n > 0, out[i].n = out[j].n
               PROVE  i = j
    BY <1>4 DEF Distinct
  <2>1. CASE /\ i \in 1..m /\ out[i] = a[i] /\ a[i].n \in Numbers(a)
             /\ j \in 1..m /\ out[j] = a[j] /\ a[j].n \in Numbers(a)
    BY <2>1, <1>4 DEF Distinct
  <2>2. CASE /\ i \in 1..m /\ out[i] = a[i] /\ a[i].n \in Numbers(a)
             /\ \E k \in 1..l : j = m + k /\ out[j] = b[k] /\ b[k].n \in Numbers(b)
    BY <2>2, <1>6
  <2>3. CASE /\ j \in 1..m /\ out[j] = a[j] /\ a[j].n \in Numbers(a)
             /\ \E k \in 1..l : i = m + k /\ out[i] = b[k] /\ b[k].n \in Numbers(b)
    BY <2>3, <1>6
  <2>4. CASE /\ \E k \in 1..l : i = m + k /\ out[i] = b[k] /\ b[k].n \in Numbers(b)
             /\ \E k \in 1..l : j = m + k /\ out[j] = b[k] /\ b[k].n \in Numbers(b)
    <3>1. PICK k \in 1..l : i = m + k /\ out[i] = b[k]
      BY <2>4
    <3>2. PICK h \in 1..l : j = m + h /\ out[j] = b[h]
      BY <2>4
    <3>3. k = h
      BY <3>1, <3>2, <1>4 DEF Distinct
    <3> QED
      BY <3>1, <3>2, <3>3
  <2> QED
    BY <1>5, <2>1, <2>2, <2>3, <2>4
<1>9. ASSUME NEW x \in Numbers(out) PROVE x \in Numbers(a) \cup Numbers(b)
  <2>1. PICK i \in 1..(m + l) : x = out[i].n
    BY <1>4 DEF Numbers
  <2> QED
    BY <2>1, <1>5
<1>10. ASSUME NEW x \in Numbers(a) PROVE x \in Numbers(out)
  <2>1. PICK i \in 1..m : x = a[i].n
    BY <1>4 DEF Numbers
  <2>2. i \in DOMAIN out /\ x = out[i].n
    BY <2>1, <1>4, <1>2, <1>3
  <2> QED
    BY <2>2 DEF Numbers
<1>11. ASSUME NEW x \in Numbers(b) PROVE x \in Numbers(out)
  <2>1. PICK i \in 1..l : x = b[i].n
    BY <1>4 DEF Numbers
  <2>2. m + i \in DOMAIN out /\ x = out[m + i].n
    BY <2>1, <1>4, <1>2, <1>3
  <2> QED
    BY <2>2 DEF Numbers
<1> QED
  BY <1>1, <1>4, <1>8, <1>9, <1>10, <1>11

\* One event without a frame.
LEMMA OneEvent ==
  ASSUME NEW e \in EventSet, e.n = 0
  PROVE  <<e>> \in Seq(EventSet) /\ Distinct(<<e>>) /\ Numbers(<<e>>) = {0}
<1>1. <<e>> \in Seq(EventSet) /\ DOMAIN <<e>> = 1..1 /\ <<e>>[1] = e
  OBVIOUS
<1>2. Distinct(<<e>>)
  BY <1>1 DEF Distinct
<1>3. Numbers(<<e>>) = {0}
  BY <1>1 DEF Numbers
<1> QED
  BY <1>1, <1>2, <1>3

\* Leaving events out.
LEMMA OnlyClean ==
  ASSUME NEW out \in Seq(EventSet), NEW S, Distinct(out)
  PROVE  /\ Only(out, S) \in Seq(EventSet) /\ Distinct(Only(out, S))
         /\ Numbers(Only(out, S)) \subseteq Numbers(out)
         /\ \A x \in Numbers(Only(out, S)) :
              \E i \in DOMAIN out : out[i] \in S /\ out[i].n = x
<1>1. PICK sel : sel = Only(out, S)
  OBVIOUS
<1>2. sel \in Seq(EventSet) /\ \E h : Picks(h, sel, out, S, Len(out))
  BY <1>1, OnlyIs
<1>3. PICK h : Picks(h, sel, out, S, Len(out))
  BY <1>2
<1>4. /\ DOMAIN sel = 1..Len(sel) /\ DOMAIN out = 1..Len(out)
      /\ Len(sel) \in Nat /\ Len(out) \in Nat
  BY <1>2
<1>5. \A k \in 1..Len(sel) : h[k] \in 1..Len(out) /\ sel[k] = out[h[k]] /\ sel[k] \in S
  BY <1>3 DEF Picks
<1>6. Distinct(sel)
  <2> SUFFICES ASSUME NEW i \in 1..Len(sel), NEW j \in 1..Len(sel),
                      sel[i].n > 0, sel[i].n = sel[j].n, i # j
               PROVE  FALSE
    BY <1>4 DEF Distinct
  <2>1. h[i] = h[j]
    BY <1>4, <1>5 DEF Distinct
  <2>2. i < j \/ j < i
    BY <1>4
  <2>3. h[i] < h[j] \/ h[j] < h[i]
    BY <2>2, <1>3 DEF Picks
  <2> QED
    BY <2>1, <2>3, <1>5, <1>4
<1>7. ASSUME NEW x \in Numbers(sel)
      PROVE  /\ x \in Numbers(out)
             /\ \E i \in DOMAIN out : out[i] \in S /\ out[i].n = x
  <2>1. PICK k \in 1..Len(sel) : x = sel[k].n
    BY <1>4 DEF Numbers
  <2> QED
    BY <2>1, <1>4, <1>5 DEF Numbers
<1> QED
  BY <1>1, <1>2, <1>6, <1>7

LEMMA NewBlockClean ==
  ASSUME NEW s, NEW A, NEW type \in BlockKind, NEW es \in Seq(EventSet), Clean(s, A),
         Distinct(es), A \cap Numbers(es) \subseteq {0}
  PROVE  Clean(NewBlock(s, type, es), A \cup Numbers(es))
<1>1. /\ s \in EvState /\ s.out \in Seq(EventSet) /\ Distinct(s.out)
      /\ Numbers(s.out) \subseteq A \cup {0} /\ NextIndex(s) \in Nat
  BY DEF Clean, EvState, NextIndex
<1>2. PICK out : out = s.out \o es
  OBVIOUS
<1>3. out \in Seq(EventSet) /\ Distinct(out) /\ Numbers(out) = Numbers(s.out) \cup Numbers(es)
  BY <1>1, <1>2, DistinctJoin
<1>4. NewBlock(s, type, es) = [s EXCEPT !.out = out, !.last = type, !.index = NextIndex(s)]
  BY <1>2 DEF NewBlock
<1>5. /\ NewBlock(s, type, es) \in EvState
      /\ NewBlock(s, type, es).out = out
  BY <1>1, <1>3, <1>4 DEF EvState
<1> QED
  BY <1>1, <1>3, <1>5 DEF Clean

LEMMA ExtendClean ==
  ASSUME NEW s, NEW A, NEW type \in BlockKind, NEW kind \in EventTypes, NEW n \in Nat,
         Clean(s, A), n \notin A
  PROVE  Clean(ExtendBlock(s, type, kind, n), A \cup {n})
<1>1. CASE s.last = type
  BY <1>1, DeltaClean DEF ExtendBlock
<1>2. CASE s.last # type
  <2>1. NextIndex(s) \in Nat
    BY DEF Clean, EvState, NextIndex
  <2>2. PICK e \in EventSet : e = Event(kind, NextIndex(s), n) /\ e.n = n
    BY <2>1, EventIs
  <2>3. <<e>> \in Seq(EventSet) /\ DOMAIN <<e>> = 1..1 /\ <<e>>[1] = e
    OBVIOUS
  <2>4. Distinct(<<e>>) /\ Numbers(<<e>>) = {n}
    BY <2>2, <2>3 DEF Distinct, Numbers
  <2>5. Clean(NewBlock(s, type, <<e>>), A \cup {n})
    BY <2>3, <2>4, NewBlockClean
  <2> QED
    BY <1>2, <2>2, <2>5 DEF ExtendBlock
<1> QED
  BY <1>1, <1>2

LEMMA SignClean ==
  ASSUME NEW s, NEW A, NEW n \in Nat, Clean(s, A), n \notin A
  PROVE  Clean(SignBlock(s, n), A \cup {n})
<1>t. "sign" \in EventTypes /\ "Thinking" \in BlockKind
  BY DEF EventTypes, BlockKind
<1>1. CASE s.last # "Thinking"
  BY <1>1, <1>t, ExtendClean DEF SignBlock
<1>2. CASE s.last = "Thinking"
  <2> DEFINE S == EventSet \ [type : {"sign"}, index : {s.index}, n : Nat]
  <2>1. PICK out : out = Only(s.out, S)
    OBVIOUS
  <2>2. PICK u : u = [s EXCEPT !.out = out]
    OBVIOUS
  <2>3. SignBlock(s, n) = Delta(u, "sign", n)
    BY <1>2, <2>1, <2>2 DEF SignBlock
  <2> HIDE DEF S
  <2>4. s \in EvState /\ s.out \in Seq(EventSet) /\ Distinct(s.out) /\ Numbers(s.out) \subseteq A \cup {0}
    BY DEF Clean, EvState
  <2>5. out \in Seq(EventSet) /\ Distinct(out) /\ Numbers(out) \subseteq Numbers(s.out)
    BY <2>1, <2>4, OnlyClean
  <2>6. Clean(u, A)
    BY <2>2, <2>4, <2>5 DEF Clean, EvState
  <2> QED
    BY <2>3, <2>6, <1>t, DeltaClean
<1> QED
  BY <1>1, <1>2

\* The frames of a sequence of messages that stand for arguments of a tool, and
\* those among the first i that stand for something else.
ToolNumbers(ms) == {ms[k].n : k \in {l \in DOMAIN ms : ms[l].kind = "tool"}}
PlainNumbers(ms, i) == {ms[k].n : k \in {l \in 1..i : ms[l].kind \notin {"tool", "end"}}}

LEMMA PiecesAre ==
  ASSUME NEW ms \in Seq(MsgSet)
  PROVE  /\ Pieces(ms) \in Seq(MsgSet)
         /\ \E h : Picks(h, Pieces(ms), ms, [kind : {"tool"}, n : Nat], Len(ms))
BY OnlyIs DEF Pieces

\* The block that the pieces make together.
LEMMA PiecesClean ==
  ASSUME NEW ms, NEW A, Apart(ms, A), NEW x \in Nat, NEW es,
         es = [i \in DOMAIN Pieces(ms) |-> Event("json", x, Pieces(ms)[i].n)]
  PROVE  es \in Seq(EventSet) /\ Distinct(es) /\ Numbers(es) \subseteq ToolNumbers(ms)
<1>1. ms \in Seq(MsgSet) /\ Len(ms) \in Nat /\ DOMAIN ms = 1..Len(ms)
  BY DEF Apart
<1>2. PICK ps : ps = Pieces(ms)
  OBVIOUS
<1>3. ps \in Seq(MsgSet) /\ \E h : Picks(h, ps, ms, [kind : {"tool"}, n : Nat], Len(ms))
  BY <1>1, <1>2, PiecesAre
<1>4. PICK h : Picks(h, ps, ms, [kind : {"tool"}, n : Nat], Len(ms))
  BY <1>3
<1>5. PICK l \in Nat : l = Len(ps) /\ DOMAIN ps = 1..l
  BY <1>3
<1>6. es = [i \in 1..l |-> Event("json", x, ps[i].n)]
  BY <1>2, <1>5
<1>7. ASSUME NEW i \in 1..l
      PROVE  /\ ps[i].n \in Nat /\ h[i] \in 1..Len(ms) /\ ps[i] = ms[h[i]]
             /\ ps[i].kind = "tool"
             /\ es[i] \in EventSet /\ es[i].n = ps[i].n
  <2>1. ps[i] \in MsgSet /\ h[i] \in 1..Len(ms) /\ ps[i] = ms[h[i]] /\ ps[i] \in [kind : {"tool"}, n : Nat]
    BY <1>3, <1>4, <1>5 DEF Picks
  <2>2. ps[i].n \in Nat /\ ps[i].kind = "tool"
    BY <2>1
  <2>3. "json" \in EventTypes
    BY DEF EventTypes
  <2>4. Event("json", x, ps[i].n) \in EventSet /\ Event("json", x, ps[i].n).n = ps[i].n
    BY <2>2, <2>3, EventIs
  <2> QED
    BY <1>6, <2>1, <2>2, <2>4
<1>8. es \in Seq(EventSet) /\ DOMAIN es = 1..l
  BY <1>5, <1>6, <1>7
<1>9. Distinct(es)
  <2> SUFFICES ASSUME NEW i \in 1..l, NEW j \in 1..l, es[i].n > 0, es[i].n = es[j].n, i # j
               PROVE  FALSE
    BY <1>8 DEF Distinct
  <2>1. /\ h[i] \in DOMAIN ms /\ h[j] \in DOMAIN ms
        /\ ms[h[i]].kind # "end" /\ ms[h[j]].kind # "end"
        /\ ms[h[i]].n > 0 /\ ms[h[i]].n = ms[h[j]].n
    BY <1>1, <1>7
  <2>2. h[i] = h[j]
    BY <2>1 DEF Apart
  <2>3. i < j \/ j < i
    BY <1>5
  <2>4. h[i] < h[j] \/ h[j] < h[i]
    BY <2>3, <1>4, <1>5 DEF Picks
  <2>5. h[i] \in 1..Len(ms) /\ h[j] \in 1..Len(ms)
    BY <1>4, <1>5 DEF Picks
  <2> QED
    BY <2>2, <2>4, <2>5
<1>10. ASSUME NEW y \in Numbers(es) PROVE y \in ToolNumbers(ms)
  <2>1. PICK i \in 1..l : y = es[i].n
    BY <1>8 DEF Numbers
  <2>2. h[i] \in DOMAIN ms /\ ms[h[i]].kind = "tool" /\ ms[h[i]].n = y
    BY <1>1, <1>7, <2>1
  <2> QED
    BY <2>2 DEF ToolNumbers
<1> QED
  BY <1>8, <1>9, <1>10

\* One message of a response that is collected, where it is not a tool's.
LEMMA CollectPlain ==
  ASSUME NEW a, NEW s, NEW A, NEW m \in MsgSet, NEW ps, NEW c, Clean(s, A),
         m.kind # "tool", m.kind # "end" => m.n \notin A
  PROVE  Clean(CollectStep(a, s, m, ps, c), IF m.kind = "end" THEN A ELSE A \cup {m.n})
<1>0. m.n \in Nat /\ m.kind \in MsgKind
  BY DEF MsgSet
<1>t. /\ {"think", "sign", "redacted", "text"} \subseteq EventTypes
      /\ {"Thinking", "Redacted", "Text"} \subseteq BlockKind
  BY DEF EventTypes, BlockKind
<1>1. CASE a = "openai"
  <2>1. CollectStep(a, s, m, ps, c)
          = IF m.kind \in {"text", "think"} THEN Emit(s, Event(m.kind, 0, m.n)) ELSE s
    BY <1>1 DEF CollectStep, CollectOpenAi
  <2>2. CASE m.kind \in {"text", "think"}
    <3>1. Event(m.kind, 0, m.n) \in EventSet /\ Event(m.kind, 0, m.n).n = m.n
      BY <1>0, <1>t, <2>2, EventIs
    <3>2. Clean(Emit(s, Event(m.kind, 0, m.n)), A \cup {m.n})
      BY <3>1, <2>2, EmitClean
    <3> QED
      BY <3>2, <2>1, <2>2
  <2>3. CASE m.kind \notin {"text", "think"}
    <3>1. CollectStep(a, s, m, ps, c) = s
      BY <2>1, <2>3
    <3> QED
      BY <3>1, CleanMore
  <2> QED
    BY <2>2, <2>3
<1>2. CASE a # "openai"
  <2>0. CollectStep(a, s, m, ps, c) = CollectAnthropic(s, m, ps, c)
    BY <1>2 DEF CollectStep
  <2>1. CASE m.kind = "think"
    <3>1. Clean(ExtendBlock(s, "Thinking", "think", m.n), A \cup {m.n})
      BY <1>0, <1>t, <2>1, ExtendClean
    <3> QED
      BY <3>1, <2>0, <2>1 DEF CollectAnthropic
  <2>2. CASE m.kind = "sign"
    <3>1. Clean(SignBlock(s, m.n), A \cup {m.n})
      BY <1>0, <2>2, SignClean
    <3> QED
      BY <3>1, <2>0, <2>2 DEF CollectAnthropic
  <2>3. CASE m.kind = "text"
    <3>1. Clean(ExtendBlock(s, "Text", "text", m.n), A \cup {m.n})
      BY <1>0, <1>t, <2>3, ExtendClean
    <3> QED
      BY <3>1, <2>0, <2>3 DEF CollectAnthropic
  <2>4. CASE m.kind = "redacted"
    <3>1. NextIndex(s) \in Nat
      BY DEF Clean, EvState, NextIndex
    <3>2. PICK e \in EventSet : e = Event("redacted", NextIndex(s), m.n) /\ e.n = m.n
      BY <1>0, <1>t, <3>1, EventIs
    <3>3. <<e>> \in Seq(EventSet) /\ DOMAIN <<e>> = 1..1 /\ <<e>>[1] = e
      OBVIOUS
    <3>4. Distinct(<<e>>) /\ Numbers(<<e>>) = {m.n}
      BY <3>2, <3>3 DEF Distinct, Numbers
    <3>5. Clean(NewBlock(s, "Redacted", <<e>>), A \cup {m.n})
      BY <1>t, <2>4, <3>3, <3>4, NewBlockClean
    <3> QED
      BY <3>2, <3>5, <2>0, <2>4 DEF CollectAnthropic
  <2>5. CASE m.kind \notin {"think", "sign", "text", "redacted"}
    <3>1. CollectStep(a, s, m, ps, c) = s
      BY <2>0, <2>5 DEF CollectAnthropic
    <3> QED
      BY <3>1, CleanMore
  <2> QED
    BY <2>1, <2>2, <2>3, <2>4, <2>5
<1> QED
  BY <1>1, <1>2

LEMMA CollectClean ==
  ASSUME NEW a, NEW s, NEW ms, NEW A, NEW c, Clean(s, A), Apart(ms, A),
         \A k \in DOMAIN ms : ms[k].n > 0
  PROVE  Clean(collect(a, s, ms, c), A \cup Carried(ms, Len(ms)))
<1>1. ms \in Seq(MsgSet) /\ Len(ms) \in Nat /\ DOMAIN ms = 1..Len(ms)
  BY DEF Apart
<1>2. PICK f : /\ f[0] = s
               /\ \A i \in 0..Len(ms) :
                    i # 0 => f[i] = CollectStep(a, f[i - 1], ms[i], Pieces(ms), c)
               /\ collect(a, s, ms, c) = f[Len(ms)]
  <2>1. \E f : CollectTurns(f, a, s, ms, c)
    BY <1>1, CollectRun
  <2> QED
    BY <2>1 DEF CollectTurns
<1> DEFINE L == Last(Pieces(ms))
           T(i) == {x \in ToolNumbers(ms) : \E k \in 1..i : ms[k].kind = "tool" /\ ms[k] = L}
           B(i) == A \cup PlainNumbers(ms, i) \cup T(i)
           P == {i \in Nat : Clean(f[i], B(i))}
<1>3. 0 \in P
  BY <1>2, CleanMore
<1>4. ASSUME NEW i \in 0..Len(ms), i # 0, i - 1 \in P PROVE i \in P
  <2>1. PICK t, m : t = f[i - 1] /\ m = ms[i]
    OBVIOUS
  <2>a. Clean(t, B(i - 1)) /\ i \in DOMAIN ms /\ i \in Nat /\ i \in 1..i
    BY <1>1, <1>4, <2>1
  <2>b. m \in MsgSet /\ m.n > 0
    BY <1>1, <2>a, <2>1
  <2>c. f[i] = CollectStep(a, t, m, Pieces(ms), c)
    BY <1>2, <1>4, <2>1
  <2>2. /\ Clean(t, B(i - 1)) /\ i \in DOMAIN ms /\ m \in MsgSet /\ m.n \in Nat /\ m.n > 0
        /\ i \in Nat /\ i \in 1..i
        /\ f[i] = CollectStep(a, t, m, Pieces(ms), c)
    BY <2>a, <2>b, <2>c DEF MsgSet
  <2>3. ASSUME NEW k \in 1..(i - 1) PROVE k \in 1..i /\ k \in DOMAIN ms /\ k # i
    BY <1>1, <2>2
  <2>4. PlainNumbers(ms, i - 1) \subseteq PlainNumbers(ms, i) /\ T(i - 1) \subseteq T(i)
    BY <2>3 DEF PlainNumbers
  <2>5. B(i - 1) \subseteq B(i)
    BY <2>4
  <2>6. ASSUME NEW k \in DOMAIN ms, ms[k].kind # "end", m.kind # "end", ms[k].n = m.n
        PROVE  k = i
    BY <2>1, <2>2, <2>6 DEF Apart
  <2>7. m.kind # "end" => m.n \notin A
    BY <2>1, <2>2 DEF Apart
  <2>8. m.kind # "end" => m.n \notin PlainNumbers(ms, i - 1)
    BY <2>3, <2>6 DEF PlainNumbers
  <2>9. CASE m.kind # "tool"
    <3>1. m.kind # "end" => m.n \notin ToolNumbers(ms)
      BY <2>1, <2>6, <2>9 DEF ToolNumbers
    <3>2. m.kind # "end" => m.n \notin B(i - 1)
      BY <2>7, <2>8, <3>1
    <3>3. PICK D : D = B(i - 1)
      OBVIOUS
    <3>a. Clean(t, D) /\ m \in MsgSet /\ (m.kind # "end" => m.n \notin D)
      BY <2>2, <3>2, <3>3
    <3>b. PICK ps : ps = Pieces(ms)
      OBVIOUS
    <3>c. Clean(CollectStep(a, t, m, ps, c), IF m.kind = "end" THEN D ELSE D \cup {m.n})
      BY <3>a, <2>9, CollectPlain
    <3>4. Clean(f[i], IF m.kind = "end" THEN D ELSE D \cup {m.n})
      BY <2>2, <3>b, <3>c
    <3>5. m.kind # "end" => m.n \in PlainNumbers(ms, i)
      BY <2>1, <2>2, <2>9 DEF PlainNumbers
    <3>6. (IF m.kind = "end" THEN D ELSE D \cup {m.n}) \subseteq B(i)
      BY <2>5, <3>3, <3>5
    <3>7. Clean(f[i], B(i))
      BY <3>4, <3>6, CleanMore
    <3> QED
      BY <2>2, <3>7
  <2>10. CASE m.kind = "tool"
    <3>1. CASE a # "openai" /\ c /\ m = L
      <4>1. PICK es : es = [j \in DOMAIN Pieces(ms) |-> Event("json", NextIndex(t), Pieces(ms)[j].n)]
        OBVIOUS
      <4>2. f[i] = NewBlock(t, "ToolUse", es)
        BY <2>2, <2>10, <3>1, <4>1 DEF CollectStep, CollectAnthropic, CollectTool
      <4>3. NextIndex(t) \in Nat
        BY <2>2 DEF Clean, EvState, NextIndex
      <4>4. es \in Seq(EventSet) /\ Distinct(es) /\ Numbers(es) \subseteq ToolNumbers(ms)
        BY <4>1, <4>3, PiecesClean
      <4>5. T(i - 1) = {}
        BY <2>1, <2>3, <2>6, <2>10, <3>1
      <4>6. A \cap ToolNumbers(ms) \subseteq {0}
        BY DEF Apart, ToolNumbers
      <4>7. ASSUME NEW x \in PlainNumbers(ms, i - 1), x \in ToolNumbers(ms) PROVE FALSE
        <5>1. PICK k \in 1..(i - 1) : ms[k].kind \notin {"tool", "end"} /\ x = ms[k].n
          BY <4>7 DEF PlainNumbers
        <5>2. PICK j \in DOMAIN ms : ms[j].kind = "tool" /\ x = ms[j].n
          BY <4>7 DEF ToolNumbers
        <5>3. k \in DOMAIN ms /\ ms[k].n > 0
          BY <2>3
        <5> QED
          BY <5>1, <5>2, <5>3 DEF Apart
      <4>8. PICK D : D = B(i - 1)
        OBVIOUS
      <4>9. D \cap Numbers(es) \subseteq {0}
        BY <4>4, <4>5, <4>6, <4>7, <4>8
      <4>10. Clean(f[i], D \cup Numbers(es))
        <5>1. "ToolUse" \in BlockKind
          BY DEF BlockKind
        <5> QED
          BY <5>1, <4>2, <4>4, <4>8, <4>9, <2>2, NewBlockClean
      <4>11. ToolNumbers(ms) \subseteq T(i)
        BY <2>1, <2>2, <2>10, <3>1
      <4>12. D \cup Numbers(es) \subseteq B(i)
        BY <2>5, <4>4, <4>8, <4>11
      <4>13. Clean(f[i], B(i))
        BY <4>10, <4>12, CleanMore
      <4> QED
        BY <2>2, <4>13
    <3>2. CASE ~(a # "openai" /\ c /\ m = L)
      <4>1. f[i] = t
        <5>1. CASE a = "openai"
          BY <5>1, <2>2, <2>10 DEF CollectStep, CollectOpenAi
        <5>2. CASE a # "openai"
          BY <5>2, <2>2, <2>10, <3>2 DEF CollectStep, CollectAnthropic, CollectTool
        <5> QED
          BY <5>1, <5>2
      <4>2. Clean(f[i], B(i))
        BY <4>1, <2>2, <2>5, CleanMore
      <4> QED
        BY <2>2, <4>2
    <3> QED
      BY <3>1, <3>2
  <2> QED
    BY <2>9, <2>10
<1>5. \A i \in 0..Len(ms) : i \in P
  BY <1>1, <1>3, <1>4, Upwards
<1>6. PICK n \in Nat : n = Len(ms) /\ n \in 0..Len(ms)
  <2>1. Len(ms) \in Nat
    BY <1>1
  <2> QED
    BY <2>1
<1>7. Clean(f[n], B(n))
  BY <1>5, <1>6
<1>8. B(n) \subseteq A \cup Carried(ms, n)
  BY <1>1, <1>6 DEF PlainNumbers, ToolNumbers, Carried
<1>9. Clean(f[n], A \cup Carried(ms, n))
  BY <1>7, <1>8, CleanMore
<1> QED
  BY <1>2, <1>6, <1>9

\* The thoughts and the texts of a response are different frames.
LEMMA OpenAiBodyClean ==
  ASSUME NEW s, NEW A, Clean(s, A)
  PROVE  /\ OpenAiBody(s) \in Seq(EventSet) /\ Distinct(OpenAiBody(s))
         /\ Numbers(OpenAiBody(s)) \subseteq A \cup {0}
<1>1. s.out \in Seq(EventSet) /\ Distinct(s.out) /\ Numbers(s.out) \subseteq A \cup {0}
  BY DEF Clean, EvState
<1>2. PICK th : th = OfType(s, "think")
  OBVIOUS
<1>3. PICK tx : tx = OfType(s, "text")
  OBVIOUS
<1>4. /\ th \in Seq(EventSet) /\ Distinct(th) /\ Numbers(th) \subseteq Numbers(s.out)
      /\ \A x \in Numbers(th) : \E i \in DOMAIN s.out : s.out[i].type = "think" /\ s.out[i].n = x
  <2>1. /\ th \in Seq(EventSet) /\ Distinct(th) /\ Numbers(th) \subseteq Numbers(s.out)
        /\ \A x \in Numbers(th) :
             \E i \in DOMAIN s.out : s.out[i] \in [type : {"think"}, index : Nat, n : Nat] /\ s.out[i].n = x
    <3>1. PICK S : S = [type : {"think"}, index : Nat, n : Nat]
      OBVIOUS
    <3>2. th = Only(s.out, S)
      BY <1>2, <3>1 DEF OfType
    <3>3. /\ th \in Seq(EventSet) /\ Distinct(th) /\ Numbers(th) \subseteq Numbers(s.out)
          /\ \A x \in Numbers(th) : \E i \in DOMAIN s.out : s.out[i] \in S /\ s.out[i].n = x
      BY <1>1, <3>2, OnlyClean
    <3> QED
      BY <3>1, <3>3
  <2>2. ASSUME NEW x \in Numbers(th)
        PROVE  \E i \in DOMAIN s.out : s.out[i].type = "think" /\ s.out[i].n = x
    <3>1. PICK i \in DOMAIN s.out : s.out[i] \in [type : {"think"}, index : Nat, n : Nat] /\ s.out[i].n = x
      BY <2>1
    <3>2. s.out[i].type = "think"
      BY <3>1
    <3> QED
      BY <3>1, <3>2
  <2> QED
    BY <2>1, <2>2
<1>5. /\ tx \in Seq(EventSet) /\ Distinct(tx) /\ Numbers(tx) \subseteq Numbers(s.out)
      /\ \A x \in Numbers(tx) : \E i \in DOMAIN s.out : s.out[i].type = "text" /\ s.out[i].n = x
  <2>1. /\ tx \in Seq(EventSet) /\ Distinct(tx) /\ Numbers(tx) \subseteq Numbers(s.out)
        /\ \A x \in Numbers(tx) :
             \E i \in DOMAIN s.out : s.out[i] \in [type : {"text"}, index : Nat, n : Nat] /\ s.out[i].n = x
    <3>1. PICK S : S = [type : {"text"}, index : Nat, n : Nat]
      OBVIOUS
    <3>2. tx = Only(s.out, S)
      BY <1>3, <3>1 DEF OfType
    <3>3. /\ tx \in Seq(EventSet) /\ Distinct(tx) /\ Numbers(tx) \subseteq Numbers(s.out)
          /\ \A x \in Numbers(tx) : \E i \in DOMAIN s.out : s.out[i] \in S /\ s.out[i].n = x
      BY <1>1, <3>2, OnlyClean
    <3> QED
      BY <3>1, <3>3
  <2>2. ASSUME NEW x \in Numbers(tx)
        PROVE  \E i \in DOMAIN s.out : s.out[i].type = "text" /\ s.out[i].n = x
    <3>1. PICK i \in DOMAIN s.out : s.out[i] \in [type : {"text"}, index : Nat, n : Nat] /\ s.out[i].n = x
      BY <2>1
    <3>2. s.out[i].type = "text"
      BY <3>1
    <3> QED
      BY <3>1, <3>2
  <2> QED
    BY <2>1, <2>2
<1>6. ASSUME NEW x \in Numbers(th), x \in Numbers(tx), x # 0 PROVE FALSE
  <2>1. PICK i \in DOMAIN s.out : s.out[i].type = "think" /\ s.out[i].n = x
    BY <1>4
  <2>2. PICK j \in DOMAIN s.out : s.out[j].type = "text" /\ s.out[j].n = x
    BY <1>5, <1>6
  <2>3. s.out[i] \in EventSet
    BY <1>1
  <2>4. x > 0
    BY <2>1, <2>3, <1>6 DEF EventSet
  <2>5. i = j
    BY <2>1, <2>2, <2>4, <1>1 DEF Distinct
  <2> QED
    BY <2>1, <2>2, <2>5
<1>e. ASSUME NEW type \in {"open", "close", "finish"}
      PROVE  /\ <<Event(type, 0, 0)>> \in Seq(EventSet) /\ Distinct(<<Event(type, 0, 0)>>)
             /\ Numbers(<<Event(type, 0, 0)>>) = {0}
  <2>1. type \in EventTypes /\ 0 \in Nat
    BY DEF EventTypes
  <2>2. Event(type, 0, 0) \in EventSet /\ Event(type, 0, 0).n = 0
    BY <2>1, EventIs
  <2> QED
    BY <2>2, OneEvent
<1>7. PICK open, close, fin :
        /\ open = <<Event("open", 0, 0)>> /\ close = <<Event("close", 0, 0)>>
        /\ fin = <<Event("finish", 0, 0)>>
  OBVIOUS
<1>8. /\ open \in Seq(EventSet) /\ Distinct(open) /\ Numbers(open) = {0}
      /\ close \in Seq(EventSet) /\ Distinct(close) /\ Numbers(close) = {0}
      /\ fin \in Seq(EventSet) /\ Distinct(fin) /\ Numbers(fin) = {0}
  BY <1>7, <1>e
<1>9. PICK b1 : b1 = open \o th
  OBVIOUS
<1>10. b1 \in Seq(EventSet) /\ Distinct(b1) /\ Numbers(b1) = {0} \cup Numbers(th)
  BY <1>4, <1>8, <1>9, DistinctJoin
<1>11. PICK b2 : b2 = b1 \o close
  OBVIOUS
<1>12. b2 \in Seq(EventSet) /\ Distinct(b2) /\ Numbers(b2) = {0} \cup Numbers(th)
  BY <1>8, <1>10, <1>11, DistinctJoin
<1>13. PICK b3 : b3 = IF th = <<>> THEN <<>> ELSE b2
  OBVIOUS
<1>14. b3 \in Seq(EventSet) /\ Distinct(b3) /\ Numbers(b3) \subseteq {0} \cup Numbers(th)
  <2>1. CASE th = <<>>
    <3>1. b3 = <<>>
      BY <2>1, <1>13
    <3>2. DOMAIN b3 = {} /\ b3 \in Seq(EventSet)
      BY <3>1
    <3> QED
      BY <3>2 DEF Distinct, Numbers
  <2>2. CASE th # <<>>
    BY <2>2, <1>12, <1>13
  <2> QED
    BY <2>1, <2>2
<1>15. PICK b4 : b4 = b3 \o tx
  OBVIOUS
<1>16. b4 \in Seq(EventSet) /\ Distinct(b4) /\ Numbers(b4) = Numbers(b3) \cup Numbers(tx)
  BY <1>5, <1>6, <1>14, <1>15, DistinctJoin
<1>17. PICK b5 : b5 = b4 \o fin
  OBVIOUS
<1>18. 0 \in {0} /\ Numbers(b4) \cap {0} \subseteq {0}
  OBVIOUS
<1>19. b5 \in Seq(EventSet) /\ Distinct(b5) /\ Numbers(b5) = Numbers(b4) \cup {0}
  BY <1>8, <1>16, <1>17, <1>18, DistinctJoin
<1>20. OpenAiBody(s) = b5
  BY <1>2, <1>3, <1>7, <1>9, <1>11, <1>13, <1>15, <1>17 DEF OpenAiBody
<1> QED
  BY <1>1, <1>4, <1>5, <1>14, <1>16, <1>19, <1>20

-----------------------------------------------------------------------------
(* What the decoder makes of the frames *)

\* Messages of frames after lo and up to hi, in their order; two messages of
\* one frame are a tool's arguments and the end.
Fine(ms, lo, hi) ==
  /\ ms \in Seq(MsgSet)
  /\ \A k \in DOMAIN ms : lo < ms[k].n /\ ms[k].n <= hi
  /\ \A j, k \in DOMAIN ms :
       j < k => \/ ms[j].n < ms[k].n
                \/ ms[j].n = ms[k].n /\ ms[j].kind = "tool" /\ ms[k].kind = "end"

LEMMA FineAppend ==
  ASSUME NEW ms, NEW lo \in Nat, NEW hi \in Nat, NEW m \in MsgSet, NEW up \in Nat, Fine(ms, lo, hi),
         lo < m.n, m.n <= up, hi <= up,
         \A k \in DOMAIN ms : \/ ms[k].n < m.n
                              \/ ms[k].n = m.n /\ ms[k].kind = "tool" /\ m.kind = "end"
  PROVE  Fine(Append(ms, m), lo, up)
<1>1. ms \in Seq(MsgSet)
  BY DEF Fine
<1>2. PICK l \in Nat : l = Len(ms)
  BY <1>1
<1>3. PICK q : q = Append(ms, m)
  OBVIOUS
<1>4. /\ q \in Seq(MsgSet) /\ DOMAIN q = 1..(l + 1) /\ DOMAIN ms = 1..l
      /\ q[l + 1] = m /\ \A i \in 1..l : q[i] = ms[i]
  BY <1>1, <1>2, <1>3, Appended
<1>5. ASSUME NEW k \in 1..(l + 1), k # l + 1
      PROVE  k \in 1..l /\ q[k] = ms[k] /\ ms[k] \in MsgSet /\ ms[k].n \in Nat
  <2>1. k \in 1..l
    BY <1>2, <1>5
  <2>2. ms[k] \in MsgSet
    BY <2>1, <1>1, <1>2
  <2> QED
    BY <2>1, <2>2, <1>4 DEF MsgSet
<1>6. m.n \in Nat
  BY DEF MsgSet
<1>7. ASSUME NEW k \in 1..(l + 1) PROVE lo < q[k].n /\ q[k].n <= up
  <2>1. CASE k = l + 1
    BY <2>1, <1>4
  <2>2. CASE k # l + 1
    <3>1. k \in DOMAIN ms /\ q[k] = ms[k] /\ ms[k].n \in Nat
      BY <2>2, <1>4, <1>5
    <3>2. lo < ms[k].n /\ ms[k].n <= hi
      BY <3>1 DEF Fine
    <3> QED
      BY <3>1, <3>2
  <2> QED
    BY <2>1, <2>2
<1>8. ASSUME NEW j \in 1..(l + 1), NEW k \in 1..(l + 1), j < k
      PROVE  \/ q[j].n < q[k].n
             \/ q[j].n = q[k].n /\ q[j].kind = "tool" /\ q[k].kind = "end"
  <2>1. j # l + 1
    BY <1>2, <1>8
  <2>2. j \in DOMAIN ms /\ q[j] = ms[j]
    BY <2>1, <1>4, <1>5
  <2>3. CASE k = l + 1
    BY <2>2, <2>3, <1>4
  <2>4. CASE k # l + 1
    <3>1. k \in DOMAIN ms /\ q[k] = ms[k]
      BY <2>4, <1>4, <1>5
    <3> QED
      BY <2>2, <3>1, <1>8 DEF Fine
  <2> QED
    BY <2>3, <2>4
<1> QED
  BY <1>3, <1>4, <1>7, <1>8 DEF Fine

LEMMA FineJoin ==
  ASSUME NEW a, NEW b, NEW lo \in Nat, NEW mid \in Nat, NEW hi \in Nat,
         lo <= mid, mid <= hi, Fine(a, lo, mid), Fine(b, mid, hi)
  PROVE  Fine(a \o b, lo, hi)
<1>1. a \in Seq(MsgSet) /\ b \in Seq(MsgSet)
  BY DEF Fine
<1>2. PICK m \in Nat : m = Len(a)
  BY <1>1
<1>3. PICK l \in Nat : l = Len(b)
  BY <1>1
<1>4. PICK q : q = a \o b
  OBVIOUS
<1>5. /\ q \in Seq(MsgSet) /\ DOMAIN q = 1..(m + l)
      /\ DOMAIN a = 1..m /\ DOMAIN b = 1..l
      /\ \A i \in 1..m : q[i] = a[i]
      /\ \A i \in 1..l : q[m + i] = b[i]
  BY <1>1, <1>2, <1>3, <1>4, Joined
<1>6. ASSUME NEW i \in 1..(m + l), i <= m
      PROVE  i \in DOMAIN a /\ q[i] = a[i] /\ q[i].n \in Nat /\ lo < q[i].n /\ q[i].n <= mid
  <2>1. i \in 1..m
    BY <1>6, <1>2
  <2>2. a[i] \in MsgSet
    BY <2>1, <1>1, <1>2
  <2> QED
    BY <2>1, <2>2, <1>5 DEF Fine, MsgSet
<1>7. ASSUME NEW i \in 1..(m + l), ~(i <= m)
      PROVE  \E k \in DOMAIN b : i = m + k /\ q[i] = b[k] /\ q[i].n \in Nat /\ mid < q[i].n /\ q[i].n <= hi
  <2>1. PICK k \in 1..l : i = m + k
    <3>1. i - m \in 1..l /\ i = m + (i - m)
      BY <1>7, <1>2, <1>3
    <3> QED
      BY <3>1
  <2>2. b[k] \in MsgSet /\ k \in DOMAIN b
    BY <2>1, <1>1, <1>3, <1>5
  <2>3. mid < b[k].n /\ b[k].n <= hi /\ b[k].n \in Nat
    BY <2>2 DEF Fine, MsgSet
  <2>4. q[i] = b[k]
    BY <2>1, <1>5
  <2> QED
    BY <2>1, <2>2, <2>3, <2>4
<1>8. ASSUME NEW i \in 1..(m + l) PROVE lo < q[i].n /\ q[i].n <= hi
  <2>1. CASE i <= m
    BY <2>1, <1>6
  <2>2. CASE ~(i <= m)
    BY <2>2, <1>7
  <2> QED
    BY <2>1, <2>2
<1>9. ASSUME NEW j \in 1..(m + l), NEW k \in 1..(m + l), j < k
      PROVE  \/ q[j].n < q[k].n
             \/ q[j].n = q[k].n /\ q[j].kind = "tool" /\ q[k].kind = "end"
  <2>1. CASE k <= m
    <3>1. j <= m
      BY <1>9, <2>1, <1>2, <1>3
    <3> QED
      BY <2>1, <3>1, <1>6, <1>9 DEF Fine
  <2>2. CASE ~(k <= m) /\ j <= m
    BY <2>2, <1>6, <1>7
  <2>3. CASE ~(k <= m) /\ ~(j <= m)
    <3>1. PICK y \in DOMAIN b : k = m + y /\ q[k] = b[y]
      BY <2>3, <1>7
    <3>2. PICK x \in DOMAIN b : j = m + x /\ q[j] = b[x]
      BY <2>3, <1>7
    <3>3. x < y
      BY <3>1, <3>2, <1>9, <1>5, <1>2, <1>3
    <3> QED
      BY <3>1, <3>2, <3>3 DEF Fine
  <2> QED
    BY <2>1, <2>2, <2>3
<1>10. Fine(q, lo, hi)
  BY <1>5, <1>8, <1>9 DEF Fine
<1> QED
  BY <1>4, <1>10

DecSet ==
  [frames : Seq(Frame), msgs : Seq(MsgSet), err : BOOLEAN, seen : BOOLEAN,
   processed : BOOLEAN, args : Nat]

LEMMA FrameType ==
  ASSUME NEW f \in Frame
  PROVE  f.kind \in FrameKind /\ f.len \in Nat /\ f.last \in BOOLEAN
BY FrameAssumption

LEMMA MsgIs ==
  ASSUME NEW kind \in MsgKind, NEW n \in Nat
  PROVE  Msg(kind, n) \in MsgSet /\ Msg(kind, n).kind = kind /\ Msg(kind, n).n = n
BY DEF Msg, MsgSet

LEMMA AddIs ==
  ASSUME NEW d \in DecSet, NEW kind \in MsgKind, NEW n \in Nat
  PROVE  /\ Add(d, kind, n) \in DecSet
         /\ Add(d, kind, n).msgs = Append(d.msgs, Msg(kind, n))
         /\ Add(d, kind, n).frames = d.frames /\ Add(d, kind, n).err = d.err
         /\ Add(d, kind, n).seen = d.seen /\ Add(d, kind, n).processed = d.processed
         /\ Add(d, kind, n).args = d.args
<1>1. d.msgs \in Seq(MsgSet)
  BY DEF DecSet
<1>2. PICK q : q = Append(d.msgs, Msg(kind, n))
  OBVIOUS
<1>3. q \in Seq(MsgSet)
  BY <1>1, <1>2, MsgIs
<1>4. Add(d, kind, n) = [d EXCEPT !.msgs = q]
  BY <1>2 DEF Add
<1> QED
  BY <1>2, <1>3, <1>4 DEF DecSet

\* One frame's first message.
LEMMA AddFine ==
  ASSUME NEW d \in DecSet, NEW kind \in MsgKind, NEW lo \in Nat, NEW n \in Nat, lo < n,
         Fine(d.msgs, lo, n - 1)
  PROVE  Fine(Add(d, kind, n).msgs, lo, n)
<1>1. PICK m : m = Msg(kind, n)
  OBVIOUS
<1>2. m \in MsgSet /\ m.n = n
  BY <1>1, MsgIs
<1>3. ASSUME NEW k \in DOMAIN d.msgs PROVE d.msgs[k].n < n
  <2>1. d.msgs[k] \in MsgSet /\ d.msgs[k].n <= n - 1
    BY DEF Fine
  <2> QED
    BY <2>1 DEF MsgSet
<1>4. PICK up \in Nat : up = n - 1
  OBVIOUS
<1>5. Fine(d.msgs, lo, up) /\ up <= n
  BY <1>4
<1>6. Fine(Append(d.msgs, m), lo, n)
  BY <1>2, <1>3, <1>5, FineAppend
<1> QED
  BY <1>1, <1>6, AddIs

\* The messages of a tool's frame.
LEMMA AddProcessedFine ==
  ASSUME NEW d \in DecSet, NEW p \in BOOLEAN, NEW lo \in Nat, NEW n \in Nat, lo < n,
         Fine(d.msgs, lo, n - 1)
  PROVE  /\ AddProcessed(d, n, p) \in DecSet
         /\ Fine(AddProcessed(d, n, p).msgs, lo, n)
         /\ AddProcessed(d, n, p).frames = d.frames
<1>1. "tool" \in MsgKind /\ "end" \in MsgKind
  BY DEF MsgKind
<1>2. PICK t : t = Add(d, "tool", n)
  OBVIOUS
<1>3. t \in DecSet /\ Fine(t.msgs, lo, n) /\ t.frames = d.frames /\ t.msgs = Append(d.msgs, Msg("tool", n))
  BY <1>1, <1>2, AddIs, AddFine
<1>4. CASE ~p
  BY <1>2, <1>3, <1>4 DEF AddProcessed
<1>5. CASE p
  <2>1. PICK u : u = Add(t, "end", n)
    OBVIOUS
  <2>2. u \in DecSet /\ u.frames = d.frames /\ u.msgs = Append(t.msgs, Msg("end", n))
    BY <1>1, <1>3, <2>1, AddIs
  <2>3. PICK m : m = Msg("end", n)
    OBVIOUS
  <2>4. m \in MsgSet /\ m.n = n /\ m.kind = "end"
    BY <1>1, <2>3, MsgIs
  <2>5. ASSUME NEW k \in DOMAIN t.msgs
        PROVE  t.msgs[k].n < n \/ (t.msgs[k].n = n /\ t.msgs[k].kind = "tool")
    <3>1. d.msgs \in Seq(MsgSet) /\ Msg("tool", n) \in MsgSet /\ Msg("tool", n).n = n
          /\ Msg("tool", n).kind = "tool"
      BY <1>1, MsgIs DEF DecSet
    <3>2. PICK l \in Nat : l = Len(d.msgs) /\ DOMAIN d.msgs = 1..l
      BY <3>1
    <3>3. PICK e : e = Msg("tool", n)
      OBVIOUS
    <3>4. /\ DOMAIN t.msgs = 1..(l + 1) /\ t.msgs[l + 1] = e
          /\ \A i \in 1..l : t.msgs[i] = d.msgs[i]
      BY <1>3, <3>1, <3>2, <3>3, Appended
    <3>5. CASE k = l + 1
      BY <3>5, <3>4, <3>3, <3>1
    <3>6. CASE k # l + 1
      <4>1. k \in 1..l
        BY <3>6, <3>4, <3>2
      <4>2. d.msgs[k] \in MsgSet /\ d.msgs[k].n <= n - 1
        BY <4>1, <3>1, <3>2 DEF Fine
      <4>3. d.msgs[k].n < n
        BY <4>2 DEF MsgSet
      <4>4. t.msgs[k] = d.msgs[k]
        BY <4>1, <3>4
      <4> QED
        BY <4>3, <4>4
    <3> QED
      BY <3>5, <3>6
  <2>6. Fine(Append(t.msgs, m), lo, n)
    <3>1. PICK q : q = t.msgs
      OBVIOUS
    <3>2. /\ Fine(q, lo, n) /\ lo < m.n /\ m.n <= n /\ n <= n
          /\ \A k \in DOMAIN q : \/ q[k].n < m.n
                                 \/ q[k].n = m.n /\ q[k].kind = "tool" /\ m.kind = "end"
      BY <1>3, <2>4, <2>5, <3>1
    <3>3. Fine(Append(q, m), lo, n)
      BY <2>4, <3>2, FineAppend
    <3> QED
      BY <3>1, <3>3
  <2>7. AddProcessed(d, n, p) = [u EXCEPT !.processed = TRUE]
    BY <1>2, <1>5, <2>1 DEF AddProcessed
  <2>8. /\ AddProcessed(d, n, p) \in DecSet /\ AddProcessed(d, n, p).msgs = u.msgs
        /\ AddProcessed(d, n, p).frames = u.frames
    BY <2>2, <2>7 DEF DecSet
  <2> QED
    BY <2>2, <2>3, <2>6, <2>8
<1> QED
  BY <1>4, <1>5

LEMMA FineMore ==
  ASSUME NEW ms, NEW lo \in Nat, NEW n \in Nat, Fine(ms, lo, n - 1)
  PROVE  Fine(ms, lo, n)
<1>1. ASSUME NEW k \in DOMAIN ms PROVE ms[k].n <= n
  <2>1. ms[k] \in MsgSet /\ ms[k].n <= n - 1
    BY DEF Fine
  <2> QED
    BY <2>1 DEF MsgSet
<1> QED
  BY <1>1 DEF Fine

LEMMA DecodeStep ==
  ASSUME NEW d \in DecSet, NEW lo \in Nat, NEW n \in Nat, lo < n, n \in DOMAIN d.frames,
         Fine(d.msgs, lo, n - 1)
  PROVE  /\ DecodeFrame(d, n) \in DecSet
         /\ DecodeFrame(d, n).frames = d.frames
         /\ Fine(DecodeFrame(d, n).msgs, lo, n)
<1>1. PICK f : f = d.frames[n]
  OBVIOUS
<1>2. f \in Frame
  BY <1>1 DEF DecSet
<1>3. f.kind \in FrameKind /\ f.len \in Nat /\ f.last \in BOOLEAN
  BY <1>2, FrameType
<1>4. Fine(d.msgs, lo, n)
  BY FineMore
<1>5. ASSUME NEW kind \in MsgKind
      PROVE  Add(d, kind, n) \in DecSet /\ Add(d, kind, n).frames = d.frames /\ Fine(Add(d, kind, n).msgs, lo, n)
  BY AddIs, AddFine
<1>6. CASE d.err \/ d.processed
  <2>1. DecodeFrame(d, n) = d
    BY <1>6 DEF DecodeFrame
  <2> QED
    BY <2>1, <1>4
<1>7. CASE ~(d.err \/ d.processed)
  <2>1. CASE f.kind = "blank"
    <3>1. DecodeFrame(d, n) = d
      BY <1>1, <1>7, <2>1 DEF DecodeFrame
    <3> QED
      BY <3>1, <1>4
  <2>2. CASE f.kind = "error"
    <3>1. DecodeFrame(d, n) = [d EXCEPT !.err = TRUE]
      BY <1>1, <1>7, <2>2 DEF DecodeFrame
    <3> QED
      BY <3>1, <1>4 DEF DecSet
  <2>3. CASE f.kind = "text"
    <3>1. PICK t : t = Add(d, "text", n)
      OBVIOUS
    <3>2. t \in DecSet /\ t.frames = d.frames /\ Fine(t.msgs, lo, n)
      BY <3>1, <1>5 DEF MsgKind
    <3>3. DecodeFrame(d, n) = [t EXCEPT !.seen = TRUE]
      BY <1>1, <1>7, <2>3, <3>1 DEF DecodeFrame
    <3> QED
      BY <3>2, <3>3 DEF DecSet
  <2>4. CASE f.kind = "web"
    <3>1. PICK kind \in MsgKind : kind = IF convert_web_ref THEN "text" ELSE "web"
      BY DEF MsgKind
    <3>2. DecodeFrame(d, n) = Add(d, kind, n)
      BY <1>1, <1>7, <2>4, <3>1 DEF DecodeFrame
    <3> QED
      BY <3>2, <1>5
  <2>5. CASE f.kind = "tool"
    <3>1. DecodeFrame(d, n) = ToolFrame(d, f, n)
      BY <1>1, <1>7, <2>5 DEF DecodeFrame
    <3>2. CASE f.len > d.args
      <4>1. PICK t : t = [d EXCEPT !.args = f.len]
        OBVIOUS
      <4>2. t \in DecSet /\ t.msgs = d.msgs /\ t.frames = d.frames
        BY <4>1, <1>3 DEF DecSet
      <4>3. DecodeFrame(d, n) = AddProcessed(t, n, f.last)
        BY <3>1, <3>2, <4>1 DEF ToolFrame
      <4> QED
        BY <4>2, <4>3, <1>3, AddProcessedFine
    <3>3. CASE f.len = d.args
      <4>1. DecodeFrame(d, n) = d
        BY <3>1, <3>3, <1>3 DEF ToolFrame
      <4> QED
        BY <4>1, <1>4
    <3>4. CASE ~(f.len > d.args) /\ f.len # d.args
      <4>1. DecodeFrame(d, n) = [d EXCEPT !.processed = f.last]
        BY <3>1, <3>4 DEF ToolFrame
      <4> QED
        BY <4>1, <1>3, <1>4 DEF DecSet
    <3> QED
      BY <3>2, <3>3, <3>4
  <2>6. CASE f.kind = "whole"
    <3>1. PICK p \in BOOLEAN : p = TRUE
      OBVIOUS
    <3>2. DecodeFrame(d, n) = AddProcessed(d, n, p)
      BY <1>1, <1>7, <2>6, <3>1 DEF DecodeFrame
    <3> QED
      BY <3>2, AddProcessedFine
  <2>7. CASE f.kind \in {"think", "sign", "redacted", "end"}
    <3>1. DecodeFrame(d, n) = Add(d, f.kind, n)
      BY <1>1, <1>7, <2>7 DEF DecodeFrame
    <3>2. f.kind \in MsgKind
      BY <2>7 DEF MsgKind
    <3> QED
      BY <3>1, <3>2, <1>5
  <2> QED
    BY <1>3, <2>1, <2>2, <2>3, <2>4, <2>5, <2>6, <2>7 DEF FrameKind
<1> QED
  BY <1>6, <1>7

CtxSet == [seen : BOOLEAN, processed : BOOLEAN, args : Nat]

LEMMA DecodeFine ==
  ASSUME NEW fs \in Seq(Frame), NEW lo \in Nat, lo = from - 1, lo <= Len(fs), ctx \in CtxSet
  PROVE  /\ Decoded(fs) \in DecSet /\ Decoded(fs).frames = fs
         /\ Fine(Decoded(fs).msgs, lo, Len(fs))
<1>1. PICK l \in Nat : l = Len(fs) /\ DOMAIN fs = 1..l
  OBVIOUS
<1>2. PICK f : /\ f[lo] = Fresh(fs)
               /\ \A i \in lo..l : i # lo => f[i] = DecodeFrame(f[i - 1], i)
               /\ Decoded(fs) = f[l]
  BY <1>1, DecodeRun
<1> DEFINE P == {i \in Nat : f[i] \in DecSet /\ f[i].frames = fs /\ Fine(f[i].msgs, lo, i)}
<1>3. lo \in P
  <2>1. /\ Fresh(fs) \in DecSet /\ Fresh(fs).frames = fs
        /\ Fresh(fs).msgs = <<>>
    BY DEF Fresh, DecSet, CtxSet
  <2>2. DOMAIN <<>> = {} /\ <<>> \in Seq(MsgSet)
    OBVIOUS
  <2>3. Fine(<<>>, lo, lo)
    BY <2>2 DEF Fine
  <2> QED
    BY <1>2, <2>1, <2>3
<1>4. ASSUME NEW i \in lo..l, i # lo, i - 1 \in P PROVE i \in P
  <2>1. PICK d : d = f[i - 1]
    OBVIOUS
  <2>2. d \in DecSet /\ d.frames = fs /\ Fine(d.msgs, lo, i - 1) /\ f[i] = DecodeFrame(d, i)
    BY <1>2, <1>4, <2>1
  <2>3. i \in Nat /\ lo < i /\ i \in DOMAIN fs
    BY <1>1, <1>4
  <2>4. DecodeFrame(d, i) \in DecSet /\ DecodeFrame(d, i).frames = fs /\ Fine(DecodeFrame(d, i).msgs, lo, i)
    BY <2>2, <2>3, DecodeStep
  <2> QED
    BY <2>2, <2>3, <2>4
<1>5. \A i \in lo..l : i \in P
  BY <1>3, <1>4, Upwards
<1>6. l \in P
  BY <1>1, <1>5
<1> QED
  BY <1>1, <1>2, <1>6

-----------------------------------------------------------------------------
(* Nothing twice: the steps *)

\* The frames that are neither in the buffer nor kept in first_result.
Used == (1..(from - 1)) \ Carried(first.result, Len(first.result))

FirstSet == [result : Seq(MsgSet), ready : BOOLEAN, taken : BOOLEAN]

\* What has been sent was sent once, and what is kept has not been sent.
SentOnce ==
  /\ frames \in Seq(Frame) /\ from \in 1..(Len(frames) + 1)
  /\ ctx \in CtxSet /\ first \in FirstSet
  /\ Fine(first.result, 0, from - 1)
  /\ Clean(events, Used)

LEMMA FineCarried ==
  ASSUME NEW ms, NEW lo \in Nat, NEW hi \in Nat, Fine(ms, lo, hi)
  PROVE  \A x \in Carried(ms, Len(ms)) : x \in Nat /\ lo < x /\ x <= hi
<1>1. ms \in Seq(MsgSet) /\ DOMAIN ms = 1..Len(ms)
  BY DEF Fine
<1> SUFFICES ASSUME NEW k \in 1..Len(ms) PROVE ms[k].n \in Nat /\ lo < ms[k].n /\ ms[k].n <= hi
  BY DEF Carried
<1>2. ms[k] \in MsgSet
  BY <1>1
<1> QED
  BY <1>1, <1>2 DEF Fine, MsgSet

LEMMA FineApart ==
  ASSUME NEW ms, NEW lo \in Nat, NEW hi \in Nat, Fine(ms, lo, hi),
         NEW A, A \cap Carried(ms, Len(ms)) = {}
  PROVE  Apart(ms, A) /\ \A k \in DOMAIN ms : ms[k].n > 0
<1>1. ms \in Seq(MsgSet) /\ DOMAIN ms = 1..Len(ms) /\ Len(ms) \in Nat
  BY DEF Fine
<1>2. ASSUME NEW k \in DOMAIN ms PROVE ms[k].n \in Nat /\ ms[k].n > 0
  <2>1. ms[k] \in MsgSet /\ lo < ms[k].n
    BY <1>1 DEF Fine
  <2> QED
    BY <2>1 DEF MsgSet
<1>3. ASSUME NEW k \in DOMAIN ms, ms[k].kind # "end" PROVE ms[k].n \notin A
  BY <1>1, <1>3 DEF Carried
<1>4. ASSUME NEW i \in DOMAIN ms, NEW j \in DOMAIN ms, ms[i].kind # "end", ms[j].kind # "end",
             ms[i].n = ms[j].n, i # j
      PROVE  FALSE
  <2>1. i < j \/ j < i
    BY <1>1, <1>4
  <2> QED
    BY <2>1, <1>2, <1>4 DEF Fine
<1> QED
  BY <1>1, <1>2, <1>3, <1>4 DEF Apart

\* What one sequence of messages after another carries.
LEMMA CarriedJoin ==
  ASSUME NEW a \in Seq(MsgSet), NEW b \in Seq(MsgSet)
  PROVE  Carried(a \o b, Len(a \o b)) \subseteq Carried(a, Len(a)) \cup Carried(b, Len(b))
<1>1. PICK m \in Nat : m = Len(a)
  OBVIOUS
<1>2. PICK l \in Nat : l = Len(b)
  OBVIOUS
<1>3. PICK q : q = a \o b
  OBVIOUS
<1>4. /\ Len(q) = m + l
      /\ \A i \in 1..m : q[i] = a[i]
      /\ \A i \in 1..l : q[m + i] = b[i]
  BY <1>1, <1>2, <1>3, Joined
<1> SUFFICES ASSUME NEW i \in 1..(m + l), q[i].kind # "end"
             PROVE  q[i].n \in Carried(a, m) \cup Carried(b, l)
  BY <1>1, <1>2, <1>3, <1>4 DEF Carried
<1>5. CASE i <= m
  <2>1. i \in 1..m
    BY <1>5, <1>1
  <2> QED
    BY <2>1, <1>4 DEF Carried
<1>6. CASE ~(i <= m)
  <2>1. PICK k \in 1..l : i = m + k
    <3>1. i - m \in 1..l /\ i = m + (i - m)
      BY <1>6, <1>1, <1>2
    <3> QED
      BY <3>1
  <2> QED
    BY <2>1, <1>4 DEF Carried
<1> QED
  BY <1>5, <1>6

LEMMA ChunkType ==
  ASSUME NEW c \in Chunk
  PROVE  c.new \in Seq(Frame) /\ c.part \in Part /\ c.empty \in BOOLEAN
<1>1. CASE c \in [new : BoundedSeq(Frame, MaxPerChunk), part : Part, empty : {FALSE}]
  <2>1. c.new \in BoundedSeq(Frame, MaxPerChunk) /\ c.part \in Part /\ c.empty = FALSE
    BY <1>1
  <2>2. PICK m \in Nat : c.new \in [1..m -> Frame]
    BY <2>1, FrameAssumption DEF BoundedSeq, SeqOf
  <2>3. c.new \in Seq(Frame)
    BY <2>2
  <2>4. c.empty \in BOOLEAN
    BY <2>1, Zenon
  <2> QED
    BY <2>1, <2>3, <2>4
<1>2. CASE c \in [new : {<<>>}, part : Part, empty : {TRUE}]
  <2>1. c.new = <<>> /\ c.part \in Part /\ c.empty = TRUE
    BY <1>2
  <2>2. c.new \in Seq(Frame)
    BY <2>1
  <2>3. c.empty \in BOOLEAN
    BY <2>1, Zenon
  <2> QED
    BY <2>1, <2>2, <2>3
<1> QED
  BY <1>1, <1>2 DEF Chunk

\* The frames with a chunk's, and what the decoder makes of them.
LEMMA Decoding ==
  ASSUME SentOnce, NEW c \in Chunk
  PROVE  /\ frames \o c.new \in Seq(Frame)
         /\ Len(frames \o c.new) \in Nat /\ Len(frames) <= Len(frames \o c.new)
         /\ Decoded(frames \o c.new) \in DecSet
         /\ Decoded(frames \o c.new).frames = frames \o c.new
         /\ Fine(Decoded(frames \o c.new).msgs, from - 1, Len(frames \o c.new))
         /\ CtxOf(Decoded(frames \o c.new)) \in CtxSet
<1>1. frames \in Seq(Frame) /\ c.new \in Seq(Frame) /\ ctx \in CtxSet
  BY ChunkType DEF SentOnce
<1>2. PICK fs : fs = frames \o c.new
  OBVIOUS
<1>3. fs \in Seq(Frame) /\ Len(fs) \in Nat /\ Len(frames) \in Nat /\ Len(frames) <= Len(fs)
  BY <1>1, <1>2
<1>4. PICK lo \in Nat : lo = from - 1
  BY <1>1 DEF SentOnce
<1>5. lo <= Len(fs)
  <2>1. from \in 1..(Len(frames) + 1)
    BY DEF SentOnce
  <2> QED
    BY <2>1, <1>3, <1>4
<1>6. Decoded(fs) \in DecSet /\ Decoded(fs).frames = fs /\ Fine(Decoded(fs).msgs, lo, Len(fs))
  BY <1>1, <1>3, <1>4, <1>5, DecodeFine
<1>7. PICK d : d = Decoded(fs)
  OBVIOUS
<1>8. CtxOf(d) \in CtxSet
  BY <1>6, <1>7 DEF CtxOf, CtxSet, DecSet
<1> QED
  BY <1>2, <1>3, <1>4, <1>6, <1>7, <1>8

\* Sending the messages of the frames in the buffer, with what was kept left.
LEMMA UsedMore ==
  ASSUME SentOnce, NEW ms, NEW hi \in Nat, from - 1 <= hi, Fine(ms, from - 1, hi)
  PROVE  /\ Apart(ms, Used) /\ \A k \in DOMAIN ms : ms[k].n > 0
         /\ Used \cup Carried(ms, Len(ms))
              \subseteq (1..hi) \ Carried(first.result, Len(first.result))
<1>1. PICK lo \in Nat : lo = from - 1
  BY DEF SentOnce
<1>2. Fine(ms, lo, hi) /\ lo <= hi /\ Fine(first.result, 0, lo)
  BY <1>1 DEF SentOnce
<1>3. \A x \in Carried(ms, Len(ms)) : x \in Nat /\ lo < x /\ x <= hi
  BY <1>2, FineCarried
<1>4. \A x \in Carried(first.result, Len(first.result)) : x \in Nat /\ 0 < x /\ x <= lo
  BY <1>2, FineCarried
<1>5. \A x \in Used : x \in Nat /\ 1 <= x /\ x <= lo /\ x \notin Carried(first.result, Len(first.result))
  BY <1>1 DEF Used
<1>6. Used \cap Carried(ms, Len(ms)) = {}
  BY <1>3, <1>5
<1>7. Apart(ms, Used) /\ \A k \in DOMAIN ms : ms[k].n > 0
  BY <1>2, <1>6, FineApart
<1>8. ASSUME NEW x \in Carried(ms, Len(ms)) PROVE x \in 1..hi /\ x \notin Carried(first.result, Len(first.result))
  BY <1>3, <1>4
<1>9. ASSUME NEW x \in Used PROVE x \in 1..hi /\ x \notin Carried(first.result, Len(first.result))
  BY <1>2, <1>5
<1> QED
  BY <1>7, <1>8, <1>9

\* A step that decodes nothing.
LEMMA SentOnceStays ==
  ASSUME SentOnce, frames' \in Seq(Frame), Len(frames) <= Len(frames'), from' = from,
         ctx' \in CtxSet, first' = first, Clean(events', Used)
  PROVE  SentOnce'
<1>1. Used' = Used
  BY DEF Used
<1>2. from' \in 1..(Len(frames') + 1)
  <2>1. from \in 1..(Len(frames) + 1) /\ Len(frames) \in Nat /\ Len(frames') \in Nat
    BY DEF SentOnce
  <2> QED
    BY <2>1
<1>3. first' \in FirstSet /\ Fine(first'.result, 0, from' - 1)
  BY DEF SentOnce
<1>4. Clean(events', Used')
  BY <1>1
<1> QED
  BY <1>2, <1>3, <1>4 DEF SentOnce

\* A step that decodes all there is.
LEMMA SentOnceDecoded ==
  ASSUME SentOnce, frames' \in Seq(Frame), NEW hi \in Nat, hi = Len(frames'), from' = hi + 1,
         ctx' \in CtxSet, first' \in FirstSet, Fine(first'.result, 0, hi),
         Clean(events', (1..hi) \ Carried(first'.result, Len(first'.result)))
  PROVE  SentOnce'
<1>1. from' \in 1..(Len(frames') + 1) /\ from' - 1 = hi
  OBVIOUS
<1>2. Used' = (1..hi) \ Carried(first'.result, Len(first'.result))
  BY <1>1 DEF Used
<1> QED
  BY <1>1, <1>2 DEF SentOnce

\* Putting messages into first_result.
LEMMA KeepMore ==
  ASSUME SentOnce, NEW ms, NEW hi \in Nat, from - 1 <= hi, Fine(ms, from - 1, hi)
  PROVE  /\ FirstWith(ms) \in Seq(MsgSet) /\ Fine(FirstWith(ms), 0, hi)
         /\ Clean(events, (1..hi) \ Carried(FirstWith(ms), Len(FirstWith(ms))))
<1>1. PICK lo \in Nat : lo = from - 1
  BY DEF SentOnce
<1>2. Fine(ms, lo, hi) /\ lo <= hi /\ Fine(first.result, 0, lo) /\ Clean(events, Used)
  BY <1>1 DEF SentOnce
<1>3. PICK old : old = first.result
  OBVIOUS
<1>4. old \in Seq(MsgSet) /\ ms \in Seq(MsgSet)
  BY <1>2, <1>3 DEF Fine
<1>5. \A x \in Carried(ms, Len(ms)) : x \in Nat /\ lo < x /\ x <= hi
  BY <1>2, FineCarried
<1>6. \A x \in Used : x \in Nat /\ 1 <= x /\ x <= lo /\ x \notin Carried(old, Len(old))
  BY <1>1, <1>3 DEF Used
<1>7. CASE Kept(ms)
  <2>1. PICK q : q = old \o ms
    OBVIOUS
  <2>2. FirstWith(ms) = q
    BY <1>3, <1>7, <2>1 DEF FirstWith
  <2>3. Fine(q, 0, hi)
    BY <1>2, <1>3, <2>1, FineJoin
  <2>4. Carried(q, Len(q)) \subseteq Carried(old, Len(old)) \cup Carried(ms, Len(ms))
    BY <1>4, <2>1, CarriedJoin
  <2>5. ASSUME NEW x \in Used PROVE x \in (1..hi) \ Carried(q, Len(q))
    BY <1>2, <1>5, <1>6, <2>4
  <2>6. Clean(events, (1..hi) \ Carried(q, Len(q)))
    BY <1>2, <2>5, CleanMore
  <2> QED
    BY <2>2, <2>3, <2>6 DEF Fine
<1>8. CASE ~Kept(ms)
  <2>1. FirstWith(ms) = old
    BY <1>3, <1>8 DEF FirstWith
  <2>2. Fine(old, 0, hi)
    <3>1. ASSUME NEW k \in DOMAIN old PROVE old[k].n <= hi
      <4>1. old[k] \in MsgSet /\ old[k].n <= lo
        BY <1>2, <1>3, <1>4 DEF Fine
      <4> QED
        BY <4>1, <1>2 DEF MsgSet
    <3> QED
      BY <1>2, <1>3, <3>1 DEF Fine
  <2>3. ASSUME NEW x \in Used PROVE x \in (1..hi) \ Carried(old, Len(old))
    BY <1>2, <1>6
  <2>4. Clean(events, (1..hi) \ Carried(old, Len(old)))
    BY <1>2, <2>3, CleanMore
  <2> QED
    BY <1>4, <2>1, <2>2, <2>4
<1> QED
  BY <1>7, <1>8

LEMMA FirstSentOnce ==
  ASSUME SentOnce, NEW c \in Chunk, ReceiveFirst(c)
  PROVE  SentOnce'
<1>1. PICK d : d = Decoded(frames \o c.new)
  OBVIOUS
<1>2. PICK fs : fs = frames \o c.new
  OBVIOUS
<1>3. PICK hi \in Nat : hi = Len(fs)
  BY <1>2, Decoding
<1>4. /\ fs \in Seq(Frame) /\ Len(frames) <= hi /\ d \in DecSet /\ d.frames = fs
      /\ Fine(d.msgs, from - 1, hi) /\ CtxOf(d) \in CtxSet
  BY <1>1, <1>2, <1>3, Decoding
<1>5. frames' = fs /\ events' = events
  BY <1>2 DEF ReceiveFirst, Buffered
<1>6. Clean(events, Used) /\ ctx \in CtxSet /\ first \in FirstSet
  BY DEF SentOnce
<1>7. CASE TooShort(c)
  <2>1. from' = from /\ ctx' = ctx /\ first' = first
    BY <1>7 DEF ReceiveFirst
  <2> QED
    BY <2>1, <1>3, <1>4, <1>5, <1>6, SentOnceStays
<1>8. CASE ~TooShort(c)
  <2>1. Decode(d)
    BY <1>1, <1>8 DEF ReceiveFirst
  <2>2. CASE d.err
    <3>1. from' = from /\ ctx' = CtxOf(d) /\ first' = first
      BY <2>1, <2>2 DEF Decode
    <3> QED
      BY <3>1, <1>3, <1>4, <1>5, <1>6, SentOnceStays
  <2>3. CASE ~d.err
    <3>1. /\ from' = hi + 1 /\ ctx' = CtxOf(d)
          /\ first' = [first EXCEPT
                         !.result = FirstWith(d.msgs),
                         !.ready = @ \/ (FirstWith(d.msgs) # <<>> /\ ~first.taken /\ d.seen)]
      BY <2>1, <2>3, <1>3, <1>4 DEF Decode
    <3>2. from - 1 <= hi
      <4>1. from \in 1..(Len(frames) + 1) /\ Len(frames) \in Nat
        BY DEF SentOnce
      <4> QED
        BY <4>1, <1>4
    <3>3. /\ FirstWith(d.msgs) \in Seq(MsgSet) /\ Fine(FirstWith(d.msgs), 0, hi)
          /\ Clean(events, (1..hi) \ Carried(FirstWith(d.msgs), Len(FirstWith(d.msgs))))
      BY <3>2, <1>4, KeepMore
    <3>4. first' \in FirstSet /\ first'.result = FirstWith(d.msgs)
      BY <3>1, <3>3, <1>6, <1>4 DEF FirstSet, DecSet
    <3> QED
      BY <3>1, <3>3, <3>4, <1>3, <1>4, <1>5, SentOnceDecoded
  <2> QED
    BY <2>2, <2>3
<1> QED
  BY <1>7, <1>8

\* An error is sent without a frame.
LEMMA ErrorClean ==
  ASSUME SentOnce
  PROVE  Clean(ErrorPiece, Used)
<1>1. Clean(events, Used)
  BY DEF SentOnce
<1>2. CASE api = "openai"
  <2>1. PICK ms : ms = <<Msg("text", 0), Msg("end", 0)>>
    OBVIOUS
  <2>2. /\ Msg("text", 0) \in MsgSet /\ Msg("end", 0) \in MsgSet
        /\ Msg("text", 0).n = 0 /\ Msg("end", 0).n = 0
    <3>1. "text" \in MsgKind /\ "end" \in MsgKind /\ 0 \in Nat
      BY DEF MsgKind
    <3> QED
      BY <3>1, MsgIs
  <2>3. ms \in Seq(MsgSet) /\ DOMAIN ms = 1..2 /\ \A k \in 1..2 : ms[k].n = 0
    <3>1. PICK x, y : x = Msg("text", 0) /\ y = Msg("end", 0)
      OBVIOUS
    <3>2. ms = <<x, y>> /\ x \in MsgSet /\ y \in MsgSet /\ x.n = 0 /\ y.n = 0
      BY <2>1, <2>2, <3>1
    <3>3. ms[1] = x /\ ms[2] = y /\ ms \in Seq(MsgSet) /\ Len(ms) = 2
      BY <3>2
    <3> QED
      BY <3>2, <3>3
  <2>4. Apart(ms, Used) /\ Carried(ms, Len(ms)) \subseteq {0}
    <3>1. Len(ms) = 2
      BY <2>3
    <3>2. Carried(ms, 2) \subseteq {0}
      BY <2>3 DEF Carried
    <3>3. Apart(ms, Used)
      BY <2>3 DEF Apart
    <3> QED
      BY <3>1, <3>2, <3>3
  <2>5. Clean(process_messages(api, events, ms), Used \cup Carried(ms, Len(ms)))
    BY <1>1, <2>4, ProcessClean
  <2>6. Clean(process_messages(api, events, ms), Used)
    BY <2>4, <2>5, CleanMore
  <2> QED
    BY <1>2, <2>1, <2>6 DEF ErrorPiece
<1>3. CASE api # "openai"
  <2>1. "error" \in EventTypes /\ 0 \in Nat
    BY DEF EventTypes
  <2>2. Event("error", 0, 0) \in EventSet /\ Event("error", 0, 0).n = 0
    BY <2>1, EventIs
  <2>3. Clean(Emit(events, Event("error", 0, 0)), Used)
    BY <1>1, <2>2, EmitClean0
  <2> QED
    BY <1>3, <2>3 DEF ErrorPiece
<1> QED
  BY <1>2, <1>3

LEMMA PieceClean ==
  ASSUME SentOnce, NEW c \in Chunk, NEW d \in DecSet, NEW hi \in Nat, from - 1 <= hi,
         Fine(d.msgs, from - 1, hi)
  PROVE  /\ FirstLeft(c) \in FirstSet /\ Fine(FirstLeft(c).result, 0, hi)
         /\ Clean(Piece(d, c), (1..hi) \ Carried(FirstLeft(c).result, Len(FirstLeft(c).result)))
<1>1. PICK lo \in Nat : lo = from - 1
  BY DEF SentOnce
<1>2. /\ Fine(d.msgs, lo, hi) /\ lo <= hi /\ Fine(first.result, 0, lo)
      /\ Clean(events, Used) /\ first \in FirstSet
  BY <1>1 DEF SentOnce
<1>3. PICK ms : ms = Returned(d.msgs)
  OBVIOUS
<1>4. DOMAIN <<>> = {} /\ <<>> \in Seq(MsgSet) /\ Len(<<>>) = 0
  OBVIOUS
<1>5. Fine(<<>>, lo, hi) /\ Fine(<<>>, 0, hi) /\ Carried(<<>>, Len(<<>>)) = {}
  BY <1>4 DEF Fine, Carried
<1>6. Fine(ms, lo, hi)
  BY <1>2, <1>3, <1>5 DEF Returned
<1>7. CASE TakesFirst(c)
  <2>1. PICK old : old = first.result
    OBVIOUS
  <2>2. /\ Piece(d, c) = process_messages(api, process_messages(api, events, old), ms)
        /\ FirstLeft(c) = [first EXCEPT !.result = <<>>, !.taken = TRUE]
    BY <1>3, <1>7, <2>1 DEF Piece, FirstLeft
  <2>3. Apart(old, Used)
    <3>1. Used \cap Carried(old, Len(old)) = {}
      BY <2>1 DEF Used
    <3> QED
      BY <1>2, <2>1, <3>1, FineApart
  <2>4. PICK ev : ev = process_messages(api, events, old)
    OBVIOUS
  <2>5. Clean(ev, Used \cup Carried(old, Len(old)))
    BY <1>2, <2>3, <2>4, ProcessClean
  <2>6. ASSUME NEW x \in Used \cup Carried(old, Len(old)) PROVE x \in 1..lo
    <3>1. \A y \in Carried(old, Len(old)) : y \in Nat /\ 0 < y /\ y <= lo
      BY <1>2, <2>1, FineCarried
    <3> QED
      BY <1>1, <3>1 DEF Used
  <2>7. Clean(ev, 1..lo)
    BY <2>5, <2>6, CleanMore
  <2>8. \A y \in Carried(ms, Len(ms)) : y \in Nat /\ lo < y /\ y <= hi
    BY <1>6, FineCarried
  <2>9. (1..lo) \cap Carried(ms, Len(ms)) = {}
    BY <2>8
  <2>10. Apart(ms, 1..lo)
    BY <1>6, <2>9, FineApart
  <2>11. Clean(process_messages(api, ev, ms), (1..lo) \cup Carried(ms, Len(ms)))
    BY <2>7, <2>10, ProcessClean
  <2>12. ASSUME NEW x \in (1..lo) \cup Carried(ms, Len(ms)) PROVE x \in 1..hi
    BY <1>2, <2>8
  <2>13. Clean(process_messages(api, ev, ms), 1..hi)
    BY <2>11, <2>12, CleanMore
  <2>14. FirstLeft(c) \in FirstSet /\ FirstLeft(c).result = <<>>
    BY <1>2, <1>4, <2>2 DEF FirstSet
  <2>15. (1..hi) \ {} = 1..hi
    OBVIOUS
  <2> QED
    BY <1>5, <2>2, <2>4, <2>13, <2>14, <2>15
<1>8. CASE ~TakesFirst(c)
  <2>1. Piece(d, c) = process_messages(api, events, ms) /\ FirstLeft(c) = first
    BY <1>3, <1>8 DEF Piece, FirstLeft
  <2>2. /\ Apart(ms, Used)
        /\ Used \cup Carried(ms, Len(ms)) \subseteq (1..hi) \ Carried(first.result, Len(first.result))
    BY <1>1, <1>6, UsedMore
  <2>3. Clean(Piece(d, c), Used \cup Carried(ms, Len(ms)))
    BY <1>2, <2>1, <2>2, ProcessClean
  <2>4. Clean(Piece(d, c), (1..hi) \ Carried(first.result, Len(first.result)))
    BY <2>2, <2>3, CleanMore
  <2>5. Fine(first.result, 0, hi)
    <3>1. ASSUME NEW k \in DOMAIN first.result PROVE first.result[k].n <= hi
      <4>1. first.result[k] \in MsgSet /\ first.result[k].n <= lo
        BY <1>2 DEF Fine
      <4> QED
        BY <4>1, <1>2 DEF MsgSet
    <3> QED
      BY <1>2, <3>1 DEF Fine
  <2> QED
    BY <1>2, <2>1, <2>4, <2>5
<1> QED
  BY <1>7, <1>8

LEMMA RestSentOnce ==
  ASSUME SentOnce, NEW c \in Chunk, ReceiveRest(c)
  PROVE  SentOnce'
<1>1. PICK d : d = Decoded(frames \o c.new)
  OBVIOUS
<1>2. PICK fs : fs = frames \o c.new
  OBVIOUS
<1>3. PICK hi \in Nat : hi = Len(fs)
  BY <1>2, Decoding
<1>4. /\ fs \in Seq(Frame) /\ Len(frames) <= hi /\ d \in DecSet /\ d.frames = fs
      /\ Fine(d.msgs, from - 1, hi) /\ CtxOf(d) \in CtxSet
  BY <1>1, <1>2, <1>3, Decoding
<1>5. frames' = fs
  BY <1>2 DEF ReceiveRest, Buffered
<1>6. Clean(events, Used) /\ ctx \in CtxSet
  BY DEF SentOnce
<1>7. CASE TooShort(c)
  <2>1. from' = from /\ ctx' = ctx /\ first' = first /\ events' = events
    BY <1>7 DEF ReceiveRest
  <2> QED
    BY <2>1, <1>3, <1>4, <1>5, <1>6, SentOnceStays
<1>8. CASE ~TooShort(c)
  <2>1. /\ ctx' = CtxOf(d)
        /\ from' = IF d.err THEN from ELSE Len(d.frames) + 1
        /\ events' = IF d.err THEN ErrorPiece ELSE Piece(d, c)
        /\ first' = IF d.err THEN first ELSE FirstLeft(c)
    BY <1>1, <1>8 DEF ReceiveRest
  <2>2. CASE d.err
    <3>1. Clean(events', Used)
      BY <2>1, <2>2, ErrorClean
    <3>2. from' = from /\ first' = first
      BY <2>1, <2>2
    <3> QED
      BY <2>1, <3>1, <3>2, <1>3, <1>4, <1>5, SentOnceStays
  <2>3. CASE ~d.err
    <3>1. from - 1 <= hi
      <4>1. from \in 1..(Len(frames) + 1) /\ Len(frames) \in Nat
        BY DEF SentOnce
      <4> QED
        BY <4>1, <1>4
    <3>2. from' = hi + 1 /\ first' = FirstLeft(c) /\ events' = Piece(d, c)
      BY <2>1, <2>3, <1>3, <1>4
    <3>3. /\ FirstLeft(c) \in FirstSet /\ Fine(FirstLeft(c).result, 0, hi)
          /\ Clean(Piece(d, c), (1..hi) \ Carried(FirstLeft(c).result, Len(FirstLeft(c).result)))
      BY <3>1, <1>4, PieceClean
    <3> QED
      BY <2>1, <3>2, <3>3, <1>3, <1>4, <1>5, SentOnceDecoded
  <2> QED
    BY <2>2, <2>3
<1> QED
  BY <1>7, <1>8

LEMMA AllSentOnce ==
  ASSUME SentOnce, NEW c \in Chunk, ReceiveAll(c)
  PROVE  SentOnce'
<1>1. PICK d : d = Decoded(frames \o c.new)
  OBVIOUS
<1>2. PICK fs : fs = frames \o c.new
  OBVIOUS
<1>3. PICK hi \in Nat : hi = Len(fs)
  BY <1>2, Decoding
<1>4. /\ fs \in Seq(Frame) /\ Len(frames) <= hi /\ d \in DecSet /\ d.frames = fs
      /\ Fine(d.msgs, from - 1, hi) /\ CtxOf(d) \in CtxSet
  BY <1>1, <1>2, <1>3, Decoding
<1>5. frames' = fs /\ first' = first
  BY <1>2 DEF ReceiveAll, Buffered
<1>6. Clean(events, Used) /\ ctx \in CtxSet /\ first \in FirstSet
  BY DEF SentOnce
<1>7. CASE TooShort(c)
  <2>1. from' = from /\ ctx' = ctx /\ events' = events
    BY <1>7 DEF ReceiveAll
  <2> QED
    BY <2>1, <1>3, <1>4, <1>5, <1>6, SentOnceStays
<1>8. CASE ~TooShort(c)
  <2>1. /\ ctx' = CtxOf(d)
        /\ from' = IF d.err THEN from ELSE Len(d.frames) + 1
        /\ events' = IF d.err THEN events ELSE collect(api, events, d.msgs, Complete(d))
    BY <1>1, <1>8 DEF ReceiveAll
  <2>2. CASE d.err
    <3>1. Clean(events', Used) /\ from' = from
      BY <1>6, <2>1, <2>2
    <3> QED
      BY <2>1, <3>1, <1>3, <1>4, <1>5, SentOnceStays
  <2>3. CASE ~d.err
    <3>1. PICK lo \in Nat : lo = from - 1
      BY DEF SentOnce
    <3>2. lo <= hi
      <4>1. from \in 1..(Len(frames) + 1) /\ Len(frames) \in Nat
        BY DEF SentOnce
      <4> QED
        BY <4>1, <1>4, <3>1
    <3>3. PICK ms : ms = d.msgs
      OBVIOUS
    <3>4. /\ Apart(ms, Used) /\ \A k \in DOMAIN ms : ms[k].n > 0
          /\ Used \cup Carried(ms, Len(ms)) \subseteq (1..hi) \ Carried(first.result, Len(first.result))
      BY <3>1, <3>2, <3>3, <1>4, UsedMore
    <3>5. PICK q : q = Complete(d)
      OBVIOUS
    <3>6. Clean(collect(api, events, ms, q), Used \cup Carried(ms, Len(ms)))
      BY <1>6, <3>4, CollectClean
    <3>7. Clean(collect(api, events, ms, q), (1..hi) \ Carried(first.result, Len(first.result)))
      BY <3>4, <3>6, CleanMore
    <3>8. from' = hi + 1 /\ events' = collect(api, events, ms, q)
      BY <2>1, <2>3, <3>3, <3>5, <1>3, <1>4
    <3>9. Fine(first.result, 0, hi)
      <4>1. Fine(first.result, 0, lo)
        BY <3>1 DEF SentOnce
      <4>2. ASSUME NEW k \in DOMAIN first.result PROVE first.result[k].n <= hi
        <5>1. first.result[k] \in MsgSet /\ first.result[k].n <= lo
          BY <4>1 DEF Fine
        <5> QED
          BY <5>1, <3>2 DEF MsgSet
      <4> QED
        BY <4>1, <4>2 DEF Fine
    <3>10. Clean(events', (1..hi) \ Carried(first'.result, Len(first'.result)))
      BY <3>7, <3>8, <1>5
    <3> QED
      BY <2>1, <3>8, <3>9, <3>10, <1>3, <1>4, <1>5, <1>6, SentOnceDecoded
  <2> QED
    BY <2>2, <2>3
<1> QED
  BY <1>7, <1>8

LEMMA LastSentOnce ==
  ASSUME SentOnce, LastPieceSent
  PROVE  SentOnce'
<1>1. Clean(events, Used)
  BY DEF SentOnce
<1>2. PICK p : p = ctx.processed
  OBVIOUS
<1>e. ASSUME NEW type \in {"done", "tool_use", "end_turn", "message_stop"}
      PROVE  Event(type, 0, 0) \in EventSet /\ Event(type, 0, 0).n = 0
  <2>1. type \in EventTypes /\ 0 \in Nat
    BY DEF EventTypes
  <2> QED
    BY <2>1, EventIs
<1>3. CASE api = "openai"
  <2>1. Clean(Emit(events, Event("done", 0, 0)), Used)
    BY <1>1, <1>e, EmitClean0
  <2>2. Clean(events', Used)
    BY <1>3, <2>1 DEF LastPieceSent, LastPiece
  <2> QED
    BY <2>2, SentOnceStays DEF LastPieceSent, decoderVars, SentOnce
<1>4. CASE api # "openai"
  <2>1. StopReason(p) \in EventSet /\ StopReason(p).n = 0
    BY <1>e DEF StopReason
  <2>2. PICK t : t = Emit(events, StopReason(p))
    OBVIOUS
  <2>3. Clean(t, Used)
    BY <1>1, <2>1, <2>2, EmitClean0
  <2>4. Clean(Emit(t, Event("message_stop", 0, 0)), Used)
    BY <1>e, <2>3, EmitClean0
  <2>5. Clean(events', Used)
    BY <1>2, <1>4, <2>2, <2>4 DEF LastPieceSent, LastPiece
  <2> QED
    BY <2>5, SentOnceStays DEF LastPieceSent, decoderVars, SentOnce
<1> QED
  BY <1>3, <1>4

LEMMA CollectedSentOnce ==
  ASSUME SentOnce, SendCollected
  PROVE  SentOnce'
<1>1. Clean(events, Used) /\ events \in EvState /\ events.out \in Seq(EventSet)
  BY DEF SentOnce, Clean, EvState
<1>2. UNCHANGED decoderVars
  BY DEF SendCollected
<1>3. PICK p : p = ctx.processed
  OBVIOUS
<1>4. CASE events' = events
  BY <1>1, <1>2, <1>4, SentOnceStays DEF decoderVars, SentOnce
<1>5. CASE events' # events /\ api = "openai"
  <2>1. PICK body : body = OpenAiBody(events)
    OBVIOUS
  <2>2. body \in Seq(EventSet) /\ Distinct(body) /\ Numbers(body) \subseteq Used \cup {0}
    BY <1>1, <2>1, OpenAiBodyClean
  <2>3. events' = [events EXCEPT !.out = body]
    BY <1>5, <2>1 DEF SendCollected
  <2>4. Clean(events', Used)
    BY <1>1, <2>2, <2>3 DEF Clean, EvState
  <2> QED
    BY <1>2, <2>4, SentOnceStays DEF decoderVars, SentOnce
<1>6. CASE events' # events /\ api # "openai"
  <2>1. events' = [events EXCEPT !.out = AnthropicBody(events, p)]
    BY <1>3, <1>6 DEF SendCollected
  <2>2. StopReason(p) \in EventSet /\ StopReason(p).n = 0
    <3>1. "tool_use" \in EventTypes /\ "end_turn" \in EventTypes /\ 0 \in Nat
      BY DEF EventTypes
    <3> QED
      BY <3>1, EventIs DEF StopReason
  <2>3. Clean(Emit(events, StopReason(p)), Used)
    BY <1>1, <2>2, EmitClean0
  <2>4. events' = Emit(events, StopReason(p))
    BY <2>1 DEF Emit, AnthropicBody
  <2> QED
    BY <1>2, <2>3, <2>4, SentOnceStays DEF decoderVars, SentOnce
<1> QED
  BY <1>4, <1>5, <1>6

LEMMA InitSentOnce == Init => SentOnce
<1> SUFFICES ASSUME Init PROVE SentOnce
  OBVIOUS
<1>1. frames = <<>> /\ from = 1 /\ Len(<<>>) = 0 /\ DOMAIN <<>> = {}
  BY DEF Init
<1>2. frames \in Seq(Frame) /\ from \in 1..(Len(frames) + 1)
  BY <1>1
<1>3. ctx \in CtxSet /\ first \in FirstSet /\ first.result = <<>>
  BY DEF Init, CtxSet, FirstSet
<1>4. Fine(first.result, 0, from - 1)
  BY <1>1, <1>3 DEF Fine
<1>5. events \in EvState /\ events.out = <<>>
  BY DEF Init, FreshEvents, EvState, BlockKind
<1>6. Clean(events, Used)
  BY <1>1, <1>5 DEF Clean, Distinct, Numbers
<1> QED
  BY <1>2, <1>3, <1>4, <1>6 DEF SentOnce

LEMMA NextSentOnce == SentOnce /\ [Next]_vars => SentOnce'
<1> SUFFICES ASSUME SentOnce, [Next]_vars PROVE SentOnce'
  OBVIOUS
<1>0. frames \in Seq(Frame) /\ ctx \in CtxSet /\ Clean(events, Used) /\ Len(frames) \in Nat
  BY DEF SentOnce
<1>1. CASE \E c \in Chunk : ReceiveFirst(c)
  BY <1>1, FirstSentOnce
<1>2. CASE \E c \in Chunk : ReceiveRest(c)
  BY <1>2, RestSentOnce
<1>3. CASE \E c \in Chunk : ReceiveAll(c)
  BY <1>3, AllSentOnce
<1>4. CASE EndsFirst \/ EndsRest \/ ReadFails \/ UNCHANGED vars
  <2>1. UNCHANGED <<decoderVars, events>>
    BY <1>4 DEF EndsFirst, EndsRest, ReadFails, vars, decoderVars
  <2> QED
    BY <1>0, <2>1, SentOnceStays DEF decoderVars
<1>5. CASE LastPieceSent
  BY <1>5, LastSentOnce
<1>6. CASE SendCollected
  BY <1>6, CollectedSentOnce
<1> QED
  BY <1>1, <1>2, <1>3, <1>4, <1>5, <1>6 DEF Next

\* Whatever the upstream server sends, however the stream is cut into chunks,
\* and although an error leaves frames in the buffer to be decoded again: no
\* frame reaches the client twice.
THEOREM SentAtMostOnce == Spec => []NothingTwice
<1>1. SentOnce => NothingTwice
  BY DEF SentOnce, Clean, Distinct, NothingTwice
<1> QED
  BY <1>1, InitSentOnce, NextSentOnce, PTL DEF Spec

-----------------------------------------------------------------------------
(* A streamed response in order: OpenAI *)

\* The events carry the frames of B, in their order.
Tidy(out, B) ==
  /\ out \in Seq(EventSet)
  /\ \A i, j \in DOMAIN out :
       i < j /\ out[i].n # 0 /\ out[j].n # 0 => out[i].n < out[j].n
  /\ Numbers(out) \ {0} = B

LEMMA TidyAppend ==
  ASSUME NEW out, NEW B, NEW e \in EventSet, Tidy(out, B),
         e.n # 0 => \A x \in B : x < e.n
  PROVE  Tidy(Append(out, e), B \cup ({e.n} \ {0}))
<1>1. out \in Seq(EventSet)
  BY DEF Tidy
<1>2. PICK m \in Nat : m = Len(out)
  BY <1>1
<1>3. PICK q : q = Append(out, e)
  OBVIOUS
<1>4. /\ q \in Seq(EventSet) /\ DOMAIN out = 1..m /\ DOMAIN q = 1..(m + 1) /\ q[m + 1] = e
      /\ \A i \in 1..m : q[i] = out[i]
  BY <1>1, <1>2, <1>3, Appended
<1>5. ASSUME NEW i \in 1..(m + 1), i # m + 1 PROVE i \in 1..m /\ q[i] = out[i]
  BY <1>2, <1>4, <1>5
<1>6. ASSUME NEW i \in 1..(m + 1), NEW j \in 1..(m + 1), i < j, q[i].n # 0, q[j].n # 0
      PROVE  q[i].n < q[j].n
  <2>1. i # m + 1
    BY <1>2, <1>6
  <2>2. i \in 1..m /\ q[i] = out[i]
    BY <2>1, <1>5
  <2>3. CASE j = m + 1
    <3>1. out[i].n \in B
      BY <1>4, <1>6, <2>2 DEF Tidy, Numbers
    <3> QED
      BY <3>1, <2>2, <2>3, <1>4, <1>6
  <2>4. CASE j # m + 1
    BY <2>2, <2>4, <1>4, <1>5, <1>6 DEF Tidy
  <2> QED
    BY <2>3, <2>4
<1>7. ASSUME NEW x \in Numbers(q), x # 0 PROVE x \in B \cup ({e.n} \ {0})
  <2>1. PICK i \in 1..(m + 1) : x = q[i].n
    BY <1>4 DEF Numbers
  <2>2. CASE i = m + 1
    BY <2>1, <2>2, <1>4, <1>7
  <2>3. CASE i # m + 1
    <3>1. x \in Numbers(out)
      BY <2>1, <2>3, <1>4, <1>5 DEF Numbers
    <3> QED
      BY <3>1, <1>7 DEF Tidy
  <2> QED
    BY <2>2, <2>3
<1>8. ASSUME NEW x \in B PROVE x \in Numbers(q) /\ x # 0
  <2>1. x \in Numbers(out) /\ x # 0
    BY DEF Tidy
  <2>2. PICK i \in 1..m : x = out[i].n
    BY <1>4, <2>1 DEF Numbers
  <2>3. i \in 1..(m + 1) /\ x = q[i].n
    BY <1>2, <1>4, <2>2
  <2> QED
    BY <1>4, <2>1, <2>3 DEF Numbers
<1>9. e.n \in Numbers(q)
  <2>1. m + 1 \in DOMAIN q /\ q[m + 1].n = e.n
    BY <1>2, <1>4
  <2> QED
    BY <2>1 DEF Numbers
<1>10. Numbers(q) \ {0} = B \cup ({e.n} \ {0})
  BY <1>7, <1>8, <1>9
<1> QED
  BY <1>3, <1>4, <1>6, <1>10 DEF Tidy

\* An event that is the first one if and only if it is of the given type.
Heads(out, type) == \A i \in DOMAIN out : out[i].type = type <=> i = 1
None(out, type) == \A i \in DOMAIN out : out[i].type # type

LEMMA TypesAppend ==
  ASSUME NEW out \in Seq(EventSet), NEW e \in EventSet, NEW type
  PROVE  /\ Heads(out, type) /\ (out = <<>> <=> e.type = type) => Heads(Append(out, e), type)
         /\ None(out, type) /\ e.type # type => None(Append(out, e), type)
         /\ Append(out, e) # <<>>
<1>1. PICK m \in Nat : m = Len(out)
  OBVIOUS
<1>2. PICK q : q = Append(out, e)
  OBVIOUS
<1>3. /\ DOMAIN out = 1..m /\ DOMAIN q = 1..(m + 1) /\ q[m + 1] = e
      /\ \A i \in 1..m : q[i] = out[i]
  BY <1>1, <1>2, Appended
<1>4. out = <<>> <=> m = 0
  BY <1>1
<1>5. ASSUME NEW i \in 1..(m + 1), i # m + 1 PROVE i \in 1..m /\ q[i] = out[i]
  BY <1>1, <1>3, <1>5
<1>6. ASSUME Heads(out, type), out = <<>> <=> e.type = type PROVE Heads(q, type)
  <2> SUFFICES ASSUME NEW i \in 1..(m + 1) PROVE q[i].type = type <=> i = 1
    BY <1>3 DEF Heads
  <2>1. CASE i = m + 1
    BY <2>1, <1>1, <1>3, <1>4, <1>6
  <2>2. CASE i # m + 1
    BY <2>2, <1>3, <1>5, <1>6 DEF Heads
  <2> QED
    BY <2>1, <2>2
<1>7. ASSUME None(out, type), e.type # type PROVE None(q, type)
  <2> SUFFICES ASSUME NEW i \in 1..(m + 1) PROVE q[i].type # type
    BY <1>3 DEF None
  <2>1. CASE i = m + 1
    BY <2>1, <1>3, <1>7
  <2>2. CASE i # m + 1
    BY <2>2, <1>3, <1>5, <1>7 DEF None
  <2> QED
    BY <2>1, <2>2
<1>8. q # <<>>
  <2>1. Len(q) = m + 1
    BY <1>1, <1>2
  <2> QED
    BY <2>1, <1>1
<1> QED
  BY <1>2, <1>6, <1>7, <1>8

\* The role is the first event, and there is no finish yet.
Begun(out, B) == Tidy(out, B) /\ Heads(out, "role") /\ None(out, "finish")

LEMMA BegunAppend ==
  ASSUME NEW out, NEW B, NEW e \in EventSet, Begun(out, B),
         e.n # 0 => \A x \in B : x < e.n,
         out = <<>> <=> e.type = "role", e.type # "finish"
  PROVE  Begun(Append(out, e), B \cup ({e.n} \ {0})) /\ Append(out, e) # <<>>
<1>1. out \in Seq(EventSet)
  BY DEF Begun, Tidy
<1>2. Tidy(Append(out, e), B \cup ({e.n} \ {0}))
  BY TidyAppend DEF Begun
<1>3. Heads(Append(out, e), "role") /\ None(Append(out, e), "finish") /\ Append(out, e) # <<>>
  BY <1>1, TypesAppend DEF Begun
<1> QED
  BY <1>2, <1>3 DEF Begun

OpenAiState(s, B) ==
  /\ s \in EvState /\ Begun(s.out, B)
  /\ s.started <=> s.out # <<>>
  /\ s.thinking => s.started
  /\ ~s.ended

OpenAiEnded(s, B) ==
  /\ s \in EvState /\ s.ended
  /\ \E out : Begun(out, B) /\ out # <<>> /\ s.out = Append(out, Event("finish", 0, 0))

LEMMA OpenAiTextState ==
  ASSUME NEW s, NEW B, NEW n \in Nat, OpenAiState(s, B), n # 0 => \A x \in B : x < n
  PROVE  OpenAiState(OpenAiText(s, n), B \cup ({n} \ {0})) /\ OpenAiText(s, n).started
<1>e. ASSUME NEW type \in {"close", "role", "text"}, NEW k \in Nat
      PROVE  /\ Event(type, 0, k) \in EventSet /\ Event(type, 0, k).n = k
             /\ Event(type, 0, k).type = type
  <2>1. type \in EventTypes /\ 0 \in Nat
    BY DEF EventTypes
  <2> QED
    BY <2>1, EventIs
<1>1. PICK close, role, text :
        close = Event("close", 0, 0) /\ role = Event("role", 0, 0) /\ text = Event("text", 0, n)
  OBVIOUS
<1>2. /\ close \in EventSet /\ close.n = 0 /\ close.type = "close"
      /\ role \in EventSet /\ role.n = 0 /\ role.type = "role"
      /\ text \in EventSet /\ text.n = n /\ text.type = "text"
  BY <1>1, <1>e
<1>3. PICK closed : closed = EmitIf(s.thinking, s, close)
  OBVIOUS
<1>4. closed \in EvState /\ Begun(closed.out, B) /\ (closed.out = <<>> <=> ~s.started) /\ closed.ended = FALSE
  <2>1. CASE s.thinking
    <3>1. closed = Emit(s, close)
      BY <1>3, <2>1 DEF EmitIf
    <3>2. closed \in EvState /\ closed.out = Append(s.out, close) /\ closed.ended = FALSE
      BY <1>2, <3>1, EmitIs DEF OpenAiState, EvState
    <3>3. Begun(Append(s.out, close), B \cup ({close.n} \ {0})) /\ Append(s.out, close) # <<>>
      BY <1>2, <2>1, BegunAppend DEF OpenAiState
    <3>4. B \cup ({close.n} \ {0}) = B
      BY <1>2
    <3> QED
      BY <2>1, <3>2, <3>3, <3>4 DEF OpenAiState
  <2>2. CASE ~s.thinking
    <3>1. closed = s
      BY <1>3, <2>2 DEF EmitIf
    <3> QED
      BY <3>1 DEF OpenAiState, EvState
  <2> QED
    BY <2>1, <2>2
<1>5. PICK begun : begun = EmitIf(~s.started, closed, role)
  OBVIOUS
<1>6. begun \in EvState /\ Begun(begun.out, B) /\ begun.out # <<>> /\ begun.ended = FALSE
  <2>1. CASE ~s.started
    <3>1. begun = Emit(closed, role)
      BY <1>5, <2>1 DEF EmitIf
    <3>2. begun \in EvState /\ begun.out = Append(closed.out, role) /\ begun.ended = FALSE
      BY <1>2, <1>4, <3>1, EmitIs
    <3>3. Begun(Append(closed.out, role), B \cup ({role.n} \ {0})) /\ Append(closed.out, role) # <<>>
      BY <1>2, <1>4, <2>1, BegunAppend
    <3>4. B \cup ({role.n} \ {0}) = B
      BY <1>2
    <3> QED
      BY <3>2, <3>3, <3>4
  <2>2. CASE s.started
    <3>1. begun = closed
      BY <1>5, <2>2 DEF EmitIf
    <3> QED
      BY <3>1, <1>4, <2>2
  <2> QED
    BY <2>1, <2>2
<1>7. PICK sent : sent = Emit(begun, text)
  OBVIOUS
<1>8. sent \in EvState /\ sent.out = Append(begun.out, text) /\ sent.ended = FALSE
  BY <1>2, <1>6, <1>7, EmitIs
<1>9. Begun(sent.out, B \cup ({n} \ {0})) /\ sent.out # <<>>
  BY <1>2, <1>6, <1>8, BegunAppend
<1>10. OpenAiText(s, n) = [sent EXCEPT !.thinking = FALSE, !.started = TRUE]
  BY <1>1, <1>3, <1>5, <1>7 DEF OpenAiText
<1> QED
  BY <1>8, <1>9, <1>10 DEF OpenAiState, EvState


LEMMA OpenAiThinkingState ==
  ASSUME NEW s, NEW B, NEW n \in Nat, OpenAiState(s, B), n # 0 => \A x \in B : x < n
  PROVE  OpenAiState(OpenAiThinking(s, n), B \cup ({n} \ {0})) /\ OpenAiThinking(s, n).started
<1>e. ASSUME NEW type \in {"open", "role", "think"}, NEW k \in Nat
      PROVE  /\ Event(type, 0, k) \in EventSet /\ Event(type, 0, k).n = k
             /\ Event(type, 0, k).type = type
  <2>1. type \in EventTypes /\ 0 \in Nat
    BY DEF EventTypes
  <2> QED
    BY <2>1, EventIs
<1>1. PICK open, role, think :
        open = Event("open", 0, 0) /\ role = Event("role", 0, 0) /\ think = Event("think", 0, n)
  OBVIOUS
<1>2. /\ open \in EventSet /\ open.n = 0 /\ open.type = "open"
      /\ role \in EventSet /\ role.n = 0 /\ role.type = "role"
      /\ think \in EventSet /\ think.n = n /\ think.type = "think"
  BY <1>1, <1>e
<1>3. PICK begun : begun = EmitIf(~s.thinking /\ ~s.started, s, role)
  OBVIOUS
<1>4. begun \in EvState /\ Begun(begun.out, B) /\ begun.out # <<>> /\ begun.ended = FALSE
  <2>1. CASE ~s.started
    <3>1. begun = Emit(s, role)
      BY <1>3, <2>1 DEF EmitIf, OpenAiState
    <3>2. begun \in EvState /\ begun.out = Append(s.out, role) /\ begun.ended = FALSE
      BY <1>2, <3>1, EmitIs DEF OpenAiState, EvState
    <3>3. Begun(Append(s.out, role), B \cup ({role.n} \ {0})) /\ Append(s.out, role) # <<>>
      BY <1>2, <2>1, BegunAppend DEF OpenAiState
    <3>4. B \cup ({role.n} \ {0}) = B
      BY <1>2
    <3> QED
      BY <3>2, <3>3, <3>4
  <2>2. CASE s.started
    <3>1. begun = s
      BY <1>3, <2>2 DEF EmitIf
    <3> QED
      BY <3>1, <2>2 DEF OpenAiState, EvState
  <2> QED
    BY <2>1, <2>2
<1>5. PICK opened : opened = EmitIf(~s.thinking, begun, open)
  OBVIOUS
<1>6. opened \in EvState /\ Begun(opened.out, B) /\ opened.out # <<>> /\ opened.ended = FALSE
  <2>1. CASE ~s.thinking
    <3>1. opened = Emit(begun, open)
      BY <1>5, <2>1 DEF EmitIf
    <3>2. opened \in EvState /\ opened.out = Append(begun.out, open) /\ opened.ended = FALSE
      BY <1>2, <1>4, <3>1, EmitIs
    <3>3. Begun(Append(begun.out, open), B \cup ({open.n} \ {0})) /\ Append(begun.out, open) # <<>>
      BY <1>2, <1>4, <2>1, BegunAppend
    <3>4. B \cup ({open.n} \ {0}) = B
      BY <1>2
    <3> QED
      BY <3>2, <3>3, <3>4
  <2>2. CASE s.thinking
    <3>1. opened = begun
      BY <1>5, <2>2 DEF EmitIf
    <3> QED
      BY <3>1, <1>4
  <2> QED
    BY <2>1, <2>2
<1>7. PICK sent : sent = Emit(opened, think)
  OBVIOUS
<1>8. sent \in EvState /\ sent.out = Append(opened.out, think) /\ sent.ended = FALSE
  BY <1>2, <1>6, <1>7, EmitIs
<1>9. Begun(sent.out, B \cup ({n} \ {0})) /\ sent.out # <<>>
  <2>1. PICK out : out = opened.out
    OBVIOUS
  <2>2. /\ think.n # 0 => \A x \in B : x < think.n
        /\ out = <<>> <=> think.type = "role"
        /\ think.type # "finish" /\ Begun(out, B)
    BY <1>2, <1>6, <2>1
  <2>3. Begun(Append(out, think), B \cup ({think.n} \ {0})) /\ Append(out, think) # <<>>
    BY <1>2, <2>2, BegunAppend
  <2> QED
    BY <1>2, <1>8, <2>1, <2>3
<1>10. OpenAiThinking(s, n) = [sent EXCEPT !.thinking = TRUE, !.started = TRUE]
  BY <1>1, <1>3, <1>5, <1>7 DEF OpenAiThinking, OpenAiThought
<1> QED
  BY <1>8, <1>9, <1>10 DEF OpenAiState, EvState

LEMMA OpenAiEndState ==
  ASSUME NEW s, NEW B, NEW m \in MsgSet, m.kind = "end", OpenAiState(s, B), s.started
  PROVE  OpenAiEnded(OpenAiStep(s, m), B)
<1>1. "finish" \in EventTypes /\ 0 \in Nat
  BY DEF EventTypes
<1>2. PICK e : e = Event("finish", 0, 0)
  OBVIOUS
<1>3. e \in EventSet
  BY <1>1, <1>2, EventIs
<1>4. s \in EvState /\ Begun(s.out, B) /\ s.out # <<>>
  BY DEF OpenAiState
<1>5. PICK t : t = Emit(s, e)
  OBVIOUS
<1>6. t \in EvState /\ t.out = Append(s.out, e)
  BY <1>3, <1>4, <1>5, EmitIs
<1>7. OpenAiStep(s, m) = [t EXCEPT !.ended = TRUE]
  BY <1>2, <1>5 DEF OpenAiStep
<1>8. OpenAiStep(s, m) \in EvState /\ OpenAiStep(s, m).ended /\ OpenAiStep(s, m).out = t.out
  BY <1>6, <1>7 DEF EvState
<1> QED
  BY <1>2, <1>4, <1>6, <1>8 DEF OpenAiEnded

-----------------------------------------------------------------------------
(* A streamed response in order: Anthropic *)

Unwalked == [ok |-> TRUE, open |-> "none", next |-> 0]

\* The blocks after the first i events.
IsWalk(f, out, n) ==
  f = [i \in 0..n |-> IF i = 0 THEN Unwalked ELSE Walk(f[i - 1], out[i])]

Walks(out, w) == \A f : IsWalk(f, out, Len(out)) => f[Len(out)] = w

LEMMA WalkRun ==
  ASSUME NEW out, NEW w, Len(out) \in Nat, Walks(out, w)
  PROVE  Walked(out) = w
<1> DEFINE P == {n \in Nat : \E f : IsWalk(f, out, n)}
<1>l. 0 \in Nat /\ Len(out) \in Nat /\ 0 <= Len(out)
  OBVIOUS
<1>1. 0 \in P
  <2> DEFINE f == [i \in 0..0 |-> Unwalked]
  <2>1. IsWalk(f, out, 0)
    BY <1>l DEF IsWalk
  <2> QED
    BY <1>l, <2>1
<1>2. ASSUME NEW n \in 0..Len(out), n # 0, n - 1 \in P PROVE n \in P
  <2>1. PICK g : IsWalk(g, out, n - 1)
    BY <1>2
  <2> DEFINE f == [i \in 0..n |-> IF i = n THEN Walk(g[n - 1], out[n]) ELSE g[i]]
  <2>2. ASSUME NEW i \in 0..n
        PROVE  f[i] = IF i = 0 THEN Unwalked ELSE Walk(f[i - 1], out[i])
    <3>1. CASE i = n
      <4>1. f[i - 1] = g[n - 1] /\ i # 0
        BY <1>l, <1>2, <3>1
      <4> QED
        BY <3>1, <4>1
    <3>2. CASE i # n
      <4>1. i \in 0..(n - 1) /\ f[i] = g[i] /\ (i # 0 => f[i - 1] = g[i - 1])
        BY <1>l, <1>2, <3>2
      <4> QED
        BY <4>1, <2>1 DEF IsWalk
    <3> QED
      BY <3>1, <3>2
  <2>3. IsWalk(f, out, n)
    BY <2>2 DEF IsWalk
  <2> QED
    BY <1>l, <2>3
<1>3. \A n \in 0..Len(out) : n \in P
  BY <1>l, <1>1, <1>2, Upwards
<1>4. PICK g : IsWalk(g, out, Len(out))
  BY <1>l, <1>3
<1>5. \E f : IsWalk(f, out, Len(out)) /\ Walked(out) = f[Len(out)]
  BY <1>4 DEF IsWalk, Walked, Unwalked
<1> QED
  BY <1>5 DEF Walks

LEMMA WalkEmpty == Walks(<<>>, Unwalked)
<1>1. Len(<<>>) = 0
  OBVIOUS
<1>2. ASSUME NEW f, IsWalk(f, <<>>, 0) PROVE f[0] = Unwalked
  BY <1>2 DEF IsWalk
<1> QED
  BY <1>1, <1>2 DEF Walks

LEMMA WalkAppend ==
  ASSUME NEW out \in Seq(EventSet), NEW e \in EventSet, NEW w, Walks(out, w)
  PROVE  Walks(Append(out, e), Walk(w, e))
<1>1. PICK m \in Nat : m = Len(out)
  OBVIOUS
<1>2. PICK q : q = Append(out, e)
  OBVIOUS
<1>3. Len(q) = m + 1 /\ q[m + 1] = e /\ \A i \in 1..m : q[i] = out[i]
  BY <1>1, <1>2, Appended
<1>4. ASSUME NEW f, IsWalk(f, q, m + 1) PROVE f[m + 1] = Walk(w, e)
  <2> DEFINE g == [i \in 0..m |-> f[i]]
  <2>1. ASSUME NEW i \in 0..m
        PROVE  g[i] = IF i = 0 THEN Unwalked ELSE Walk(g[i - 1], out[i])
    <3>1. i \in 0..(m + 1)
      BY <1>1
    <3>2. f[i] = IF i = 0 THEN Unwalked ELSE Walk(f[i - 1], q[i])
      BY <1>4, <3>1 DEF IsWalk
    <3>3. CASE i = 0
      BY <3>2, <3>3
    <3>4. CASE i # 0
      <4>1. i \in 1..m /\ i - 1 \in 0..m
        BY <1>1, <3>4
      <4>2. q[i] = out[i] /\ g[i - 1] = f[i - 1]
        BY <1>3, <4>1
      <4> QED
        BY <3>2, <3>4, <4>2
    <3> QED
      BY <3>3, <3>4
  <2>2. IsWalk(g, out, m)
    BY <2>1 DEF IsWalk
  <2>3. g[m] = w
    BY <1>1, <2>2 DEF Walks
  <2>4. m + 1 \in 0..(m + 1) /\ m + 1 # 0 /\ (m + 1) - 1 = m
    BY <1>1
  <2>5. f[m + 1] = Walk(f[(m + 1) - 1], q[m + 1])
    BY <1>4, <2>4 DEF IsWalk
  <2>6. f[m] = w
    BY <1>1, <2>3
  <2> QED
    BY <1>3, <2>4, <2>5, <2>6
<1> QED
  BY <1>2, <1>3, <1>4 DEF Walks

\* The events of a message up to some point: in order, announced by the first
\* one, and with their blocks in order; open is the block that is not stopped
\* yet, next its number or that of the next one.
At(open, next) == [ok |-> TRUE, open |-> open, next |-> next]

Message(out, B, open, next) ==
  /\ Tidy(out, B) /\ Heads(out, "message_start")
  /\ None(out, "error") /\ None(out, "tool_use")
  /\ Walks(out, At(open, next))

LEMMA NoneAppend ==
  ASSUME NEW out \in Seq(EventSet), NEW e \in EventSet, NEW type
  PROVE  None(Append(out, e), type) <=> None(out, type) /\ e.type # type
<1>1. PICK m \in Nat : m = Len(out)
  OBVIOUS
<1>2. PICK q : q = Append(out, e)
  OBVIOUS
<1>3. /\ DOMAIN out = 1..m /\ DOMAIN q = 1..(m + 1) /\ q[m + 1] = e
      /\ \A i \in 1..m : q[i] = out[i]
  BY <1>1, <1>2, Appended
<1>4. m + 1 \in 1..(m + 1) /\ \A i \in 1..m : i \in 1..(m + 1)
  BY <1>1
<1>5. ASSUME None(q, type) PROVE None(out, type) /\ e.type # type
  BY <1>3, <1>4, <1>5 DEF None
<1>6. None(out, type) /\ e.type # type => None(q, type)
  BY <1>2, TypesAppend
<1> QED
  BY <1>2, <1>5, <1>6

LEMMA MessageAppend ==
  ASSUME NEW out, NEW B, NEW open, NEW next, NEW e \in EventSet,
         Message(out, B, open, next),
         e.n # 0 => \A x \in B : x < e.n,
         out = <<>> <=> e.type = "message_start", e.type \notin {"error", "tool_use"},
         NEW open2, NEW next2, Walk(At(open, next), e) = At(open2, next2)
  PROVE  /\ Message(Append(out, e), B \cup ({e.n} \ {0}), open2, next2)
         /\ Append(out, e) # <<>>
<1>1. out \in Seq(EventSet)
  BY DEF Message, Tidy
<1>2. Tidy(Append(out, e), B \cup ({e.n} \ {0}))
  BY TidyAppend DEF Message
<1>3. /\ Heads(Append(out, e), "message_start") /\ Append(out, e) # <<>>
      /\ None(Append(out, e), "error") /\ None(Append(out, e), "tool_use")
  BY <1>1, TypesAppend DEF Message
<1>4. Walks(Append(out, e), At(open2, next2))
  BY <1>1, WalkAppend DEF Message
<1> QED
  BY <1>2, <1>3, <1>4 DEF Message

Starts == {"start text", "start thinking", "start tool"}
Deltas == {"text", "think", "sign", "json"}
Announcements == {"message_start", "ping"}

\* What each kind of event does to the blocks.
LEMMA WalkStart ==
  ASSUME NEW start \in Starts, NEW x \in Nat
  PROVE  Walk(At("none", x), Event(start, x, 0)) = At(BlockOf(start), x)
<1>1. PICK w, e : w = At("none", x) /\ e = Event(start, x, 0)
  OBVIOUS
<1>2. w.ok = TRUE /\ w.open = "none" /\ w.next = x /\ e.type = start /\ e.index = x
  BY <1>1 DEF Event, At
<1>3. Walk(w, e) = [ok |-> Fits(w, e, "none"), open |-> BlockOf(e.type), next |-> w.next]
  BY <1>2 DEF Walk, Starts
<1>4. Fits(w, e, "none") = TRUE
  BY <1>2 DEF Fits
<1> QED
  BY <1>1, <1>2, <1>3, <1>4 DEF At

LEMMA WalkStop ==
  ASSUME NEW open, open # "none", NEW x \in Nat
  PROVE  Walk(At(open, x), Event("stop", x, 0)) = At("none", x + 1)
<1>1. PICK w, e : w = At(open, x) /\ e = Event("stop", x, 0)
  OBVIOUS
<1>2. w.ok = TRUE /\ w.open = open /\ w.next = x /\ e.type = "stop" /\ e.index = x
  BY <1>1 DEF Event, At
<1>3. Walk(w, e) = [ok |-> Stops(w, e), open |-> "none", next |-> w.next + 1]
  BY <1>2 DEF Walk
<1>4. Stops(w, e) = TRUE
  BY <1>2 DEF Stops, Fits
<1> QED
  BY <1>1, <1>2, <1>3, <1>4 DEF At

LEMMA WalkDelta ==
  ASSUME NEW type \in Deltas, NEW x \in Nat, NEW n \in Nat
  PROVE  Walk(At(BlockOf(type), x), Event(type, x, n)) = At(BlockOf(type), x)
<1>1. PICK w, e : w = At(BlockOf(type), x) /\ e = Event(type, x, n)
  OBVIOUS
<1>2. w.ok = TRUE /\ w.open = BlockOf(type) /\ w.next = x /\ e.type = type /\ e.index = x
  BY <1>1 DEF Event, At
<1>3. Walk(w, e) = [w EXCEPT !.ok = Fits(w, e, BlockOf(e.type))]
  BY <1>2 DEF Walk, Deltas
<1>4. Fits(w, e, BlockOf(e.type)) = TRUE
  BY <1>2 DEF Fits
<1> QED
  BY <1>1, <1>2, <1>3, <1>4 DEF At

LEMMA WalkOther ==
  ASSUME NEW type \in {"message_start", "ping", "tool_use", "end_turn"}, NEW open, NEW x \in Nat,
         NEW i, NEW n
  PROVE  Walk(At(open, x), Event(type, i, n)) = At(open, x)
BY DEF Walk, Event

\* An event that may come next.
Follows(out, B, e) ==
  /\ e \in EventSet /\ (e.n # 0 => \A x \in B : x < e.n)
  /\ out = <<>> <=> e.type = "message_start"
  /\ e.type \notin {"error", "tool_use"}

\* The rest of the state is as it was.
SameBut(t, s) ==
  t.started = s.started /\ t.last = s.last /\ t.index = s.index /\ t.ended = s.ended

\* A state with the events of a message, and one event more.
LEMMA MessageEmit ==
  ASSUME NEW s \in EvState, NEW B, NEW open, NEW next, NEW e,
         Message(s.out, B, open, next), Follows(s.out, B, e),
         NEW open2, NEW next2, Walk(At(open, next), e) = At(open2, next2),
         NEW t, t = Emit(s, e)
  PROVE  /\ t \in EvState /\ t.out # <<>>
         /\ Message(t.out, B \cup ({e.n} \ {0}), open2, next2)
         /\ None(t.out, "json") <=> None(s.out, "json") /\ e.type # "json"
         /\ SameBut(t, s)
<1>1. /\ t \in EvState /\ t.out = Append(s.out, e) /\ t.started = s.started
      /\ t.last = s.last /\ t.index = s.index /\ t.ended = s.ended
  BY EmitIs DEF Follows
<1>2. PICK out : out = s.out
  OBVIOUS
<1>3. /\ Message(out, B, open, next) /\ out \in Seq(EventSet)
      /\ out = <<>> <=> e.type = "message_start"
      /\ e \in EventSet /\ (e.n # 0 => \A x \in B : x < e.n)
      /\ e.type \notin {"error", "tool_use"}
  BY <1>2 DEF EvState, Follows
<1>4. /\ Message(Append(out, e), B \cup ({e.n} \ {0}), open2, next2)
      /\ Append(out, e) # <<>>
  BY <1>3, MessageAppend
<1>5. None(Append(out, e), "json") <=> None(out, "json") /\ e.type # "json"
  BY <1>3, NoneAppend
<1> QED
  BY <1>1, <1>2, <1>4, <1>5 DEF SameBut

\* A state in which the message has begun, one in which it has not, and what
\* an event leaves as it was.
Ready(s, B, open, x) ==
  s \in EvState /\ s.out # <<>> /\ x \in Nat /\ Message(s.out, B, open, x)

Unbegun(s, B, x) ==
  s \in EvState /\ s.out = <<>> /\ x \in Nat /\ Message(s.out, B, "none", x)

Then(t, s, B, open, x) == Ready(t, B, open, x) /\ SameBut(t, s)

NoCall(s) == None(s.out, "json")
Unasked(t, s) == NoCall(t) <=> NoCall(s)

\* A number that is not among those that were sent, and the numbers with it.
New(B, n) == n \in Nat /\ (n # 0 => \A x \in B : x < n)
With(B, n) == B \cup ({n} \ {0})

\* The same, by kind of event.
LEMMA StopSent ==
  ASSUME NEW s, NEW B, NEW open, open # "none", NEW x, Ready(s, B, open, x),
         NEW t, t = Emit(s, Event("stop", x, 0))
  PROVE  Then(t, s, B, "none", x + 1) /\ Unasked(t, s)
<1>0. s \in EvState /\ s.out # <<>> /\ x \in Nat /\ Message(s.out, B, open, x) /\ x + 1 \in Nat
  BY DEF Ready
<1>1. PICK e : e = Event("stop", x, 0)
  OBVIOUS
<1>2. "stop" \in EventTypes /\ 0 \in Nat
  BY DEF EventTypes
<1>3. e \in EventSet /\ e.type = "stop" /\ e.n = 0
  BY <1>0, <1>1, <1>2, EventIs
<1>4. PICK y \in Nat : y = x + 1
  BY <1>0
<1>5. Walk(At(open, x), e) = At("none", y)
  BY <1>0, <1>1, <1>4, WalkStop
<1>6. Follows(s.out, B, e) /\ t = Emit(s, e)
  BY <1>0, <1>1, <1>3 DEF Follows
<1>7. /\ t \in EvState /\ t.out # <<>> /\ Message(t.out, B \cup ({e.n} \ {0}), "none", y)
      /\ None(t.out, "json") <=> None(s.out, "json") /\ e.type # "json"
      /\ SameBut(t, s)
  BY <1>0, <1>5, <1>6, MessageEmit
<1>8. B \cup ({e.n} \ {0}) = B /\ e.type # "json"
  BY <1>3
<1> QED
  BY <1>4, <1>7, <1>8 DEF Then, Ready, Unasked, NoCall

LEMMA StartSent ==
  ASSUME NEW s, NEW B, NEW start \in Starts, NEW x, Ready(s, B, "none", x),
         NEW t, t = Emit(s, Event(start, x, 0))
  PROVE  Then(t, s, B, BlockOf(start), x) /\ Unasked(t, s)
<1>0. s \in EvState /\ s.out # <<>> /\ x \in Nat /\ Message(s.out, B, "none", x)
  BY DEF Ready
<1>1. PICK e : e = Event(start, x, 0)
  OBVIOUS
<1>2. start \notin {"message_start", "error", "tool_use", "json"}
  BY DEF Starts
<1>3. start \in EventTypes /\ 0 \in Nat
  BY DEF EventTypes, Starts
<1>4. e \in EventSet /\ e.type = start /\ e.n = 0
  BY <1>0, <1>1, <1>3, EventIs
<1>5. PICK b : b = BlockOf(start)
  OBVIOUS
<1>6. Walk(At("none", x), e) = At(b, x)
  BY <1>0, <1>1, <1>5, WalkStart
<1>7. Follows(s.out, B, e) /\ t = Emit(s, e)
  BY <1>0, <1>1, <1>2, <1>4 DEF Follows
<1>8. /\ t \in EvState /\ t.out # <<>> /\ Message(t.out, B \cup ({e.n} \ {0}), b, x)
      /\ None(t.out, "json") <=> None(s.out, "json") /\ e.type # "json"
      /\ SameBut(t, s)
  BY <1>0, <1>6, <1>7, MessageEmit
<1>9. B \cup ({e.n} \ {0}) = B /\ e.type # "json"
  BY <1>2, <1>4
<1> QED
  BY <1>0, <1>5, <1>8, <1>9 DEF Then, Ready, Unasked, NoCall

LEMMA AnnounceSent ==
  ASSUME NEW s \in EvState, NEW B, NEW open, NEW x \in Nat,
         NEW type \in Announcements, s.out = <<>> <=> type = "message_start",
         Message(s.out, B, open, x), NEW t, t = Emit(s, Event(type, 0, 0))
  PROVE  Then(t, s, B, open, x) /\ Unasked(t, s)
<1>1. PICK e : e = Event(type, 0, 0)
  OBVIOUS
<1>2. type \notin {"error", "tool_use", "json"}
  BY DEF Announcements
<1>3. type \in EventTypes /\ 0 \in Nat
  BY DEF EventTypes, Announcements
<1>4. e \in EventSet /\ e.type = type /\ e.n = 0
  BY <1>1, <1>3 DEF Event, EventSet
<1>5. Walk(At(open, x), e) = At(open, x)
  <2>1. type \in {"message_start", "ping", "tool_use", "end_turn"}
    BY DEF Announcements
  <2> QED
    BY <1>1, <2>1, WalkOther
<1>6. Follows(s.out, B, e) /\ t = Emit(s, e)
  BY <1>1, <1>2, <1>4 DEF Follows
<1>7. /\ t \in EvState /\ t.out # <<>> /\ Message(t.out, B \cup ({e.n} \ {0}), open, x)
      /\ None(t.out, "json") <=> None(s.out, "json") /\ e.type # "json"
      /\ SameBut(t, s)
  BY <1>5, <1>6, MessageEmit
<1>8. B \cup ({e.n} \ {0}) = B /\ e.type # "json"
  BY <1>2, <1>4
<1> QED
  BY <1>7, <1>8 DEF Then, Ready, Unasked, NoCall

LEMMA MessageStarts ==
  ASSUME NEW s, NEW B, NEW x, Unbegun(s, B, x), NEW t, t = Emit(s, Event("message_start", 0, 0))
  PROVE  Then(t, s, B, "none", x) /\ Unasked(t, s)
<1>1. PICK type, open : type = "message_start" /\ open = "none"
  OBVIOUS
<1>2. /\ s \in EvState /\ x \in Nat /\ (s.out = <<>> <=> type = "message_start")
      /\ Message(s.out, B, open, x) /\ t = Emit(s, Event(type, 0, 0))
  BY <1>1 DEF Unbegun
<1>3. type \in Announcements
  BY <1>1 DEF Announcements
<1>4. Then(t, s, B, open, x) /\ Unasked(t, s)
  BY <1>2, <1>3, AnnounceSent
<1> QED
  BY <1>1, <1>4

LEMMA PingSent ==
  ASSUME NEW s, NEW B, NEW open, NEW x, Ready(s, B, open, x),
         NEW t, t = Emit(s, Event("ping", 0, 0))
  PROVE  Then(t, s, B, open, x) /\ Unasked(t, s)
<1>1. PICK type : type = "ping"
  OBVIOUS
<1>2. /\ s \in EvState /\ x \in Nat /\ (s.out = <<>> <=> type = "message_start")
      /\ Message(s.out, B, open, x) /\ t = Emit(s, Event(type, 0, 0))
  BY <1>1 DEF Ready
<1>3. type \in Announcements
  BY <1>1 DEF Announcements
<1> QED
  BY <1>2, <1>3, AnnounceSent

LEMMA DeltaSent ==
  ASSUME NEW s, NEW B, NEW x, NEW n, New(B, n), NEW type \in Deltas,
         Ready(s, B, BlockOf(type), x), NEW t, t = Emit(s, Event(type, x, n))
  PROVE  /\ Then(t, s, With(B, n), BlockOf(type), x)
         /\ NoCall(t) <=> NoCall(s) /\ type # "json"
<1>0. PICK open : open = BlockOf(type)
  OBVIOUS
<1>1. /\ s \in EvState /\ s.out # <<>> /\ x \in Nat /\ Message(s.out, B, open, x)
      /\ n \in Nat /\ (n # 0 => \A z \in B : z < n)
  BY <1>0 DEF Ready, New
<1>2. PICK e : e = Event(type, x, n)
  OBVIOUS
<1>3. type \notin {"error", "tool_use", "message_start"}
  BY DEF Deltas
<1>4. type \in EventTypes
  BY DEF EventTypes, Deltas
<1>5. e \in EventSet /\ e.type = type /\ e.n = n
  BY <1>1, <1>2, <1>4, EventIs
<1>6. Walk(At(open, x), e) = At(open, x)
  BY <1>0, <1>1, <1>2, WalkDelta
<1>7. Follows(s.out, B, e) /\ t = Emit(s, e)
  BY <1>1, <1>2, <1>3, <1>5 DEF Follows
<1>8. /\ t \in EvState /\ t.out # <<>> /\ Message(t.out, B \cup ({e.n} \ {0}), open, x)
      /\ None(t.out, "json") <=> None(s.out, "json") /\ e.type # "json"
      /\ SameBut(t, s)
  BY <1>1, <1>6, <1>7, MessageEmit
<1> QED
  BY <1>0, <1>1, <1>5, <1>8 DEF Then, Ready, With, NoCall

\* The block that is open for a type of content.
OpenOf(last) ==
  CASE last = "Thinking" -> "thinking" [] last = "Text" -> "text" [] OTHER -> "none"

\* An Anthropic stream that is under way: without a call so far, or in one.
\* In a call the type of content that is kept is Text all the same.
UnderWay(s) ==
  /\ s \in EvState /\ (s.started <=> s.out # <<>>) /\ (s.started <=> s.last # "None")
  /\ ~s.ended

Plain(s, B) ==
  /\ UnderWay(s) /\ s.last \in {"None", "Thinking", "Text"}
  /\ Message(s.out, B, OpenOf(s.last), s.index) /\ NoCall(s)

InCall(s, B) ==
  /\ UnderWay(s) /\ s.last = "Text" /\ Message(s.out, B, "tool", s.index) /\ ~NoCall(s)

\* An Anthropic stream after its end.
Stopped(s, B) ==
  /\ s \in EvState /\ s.ended /\ s.out # <<>>
  /\ \E next \in Nat : Message(s.out, B, "none", next)

\* A block that opens: the one before it, if there is one, is stopped first.
Opens(s, B, type, open) ==
  /\ type \in BlockKind /\ s.last # type /\ ((s.last = "None") <=> open = "none")
  /\ Ready(s, B, open, s.index)

Opened(v, s, B, type, open) ==
  /\ Ready(v, B, open, v.index) /\ (v.started <=> s.started)
  /\ v.last = type /\ v.ended = FALSE

LEMMA BlockState ==
  ASSUME NEW s, NEW B, NEW type, NEW start \in Starts, NEW open, Opens(s, B, type, open),
         NEW v, v = Block(s, type, start)
  PROVE  Opened(v, s, B, type, BlockOf(start)) /\ Unasked(v, s)
<1>a. /\ s \in EvState /\ type \in BlockKind /\ s.last # type
      /\ ((s.last = "None") <=> open = "none") /\ Ready(s, B, open, s.index)
  BY DEF Opens, Ready
<1>0. s.index \in Nat /\ NextIndex(s) \in Nat
  BY <1>a DEF EvState, NextIndex
<1>1. PICK t : t = EmitIf(s.last # "None", s, Event("stop", s.index, 0))
  OBVIOUS
<1>2. Ready(t, B, "none", NextIndex(s)) /\ Unasked(t, s) /\ (t.started <=> s.started)
  <2>1. CASE s.last = "None"
    <3>1. t = s /\ NextIndex(s) = s.index /\ open = "none"
      BY <1>a, <1>1, <2>1 DEF EmitIf, NextIndex
    <3> QED
      BY <1>a, <3>1 DEF Unasked
  <2>2. CASE s.last # "None"
    <3>1. t = Emit(s, Event("stop", s.index, 0)) /\ NextIndex(s) = s.index + 1 /\ open # "none"
      BY <1>a, <1>1, <2>2 DEF EmitIf, NextIndex
    <3>2. PICK x \in Nat : x = s.index
      BY <1>0
    <3>3. t = Emit(s, Event("stop", x, 0)) /\ Ready(s, B, open, x)
      BY <1>a, <3>1, <3>2
    <3>4. Then(t, s, B, "none", x + 1) /\ Unasked(t, s)
      BY <3>1, <3>3, StopSent
    <3>5. t.started <=> s.started
      BY <3>4 DEF Then, SameBut
    <3> QED
      BY <3>1, <3>2, <3>4, <3>5 DEF Then
  <2> QED
    BY <2>1, <2>2
<1>3. PICK x \in Nat : x = NextIndex(s)
  BY <1>0
<1>4. PICK u : u = Emit(t, Event(start, x, 0))
  OBVIOUS
<1>5. Ready(t, B, "none", x)
  BY <1>2, <1>3
<1>6. Then(u, t, B, BlockOf(start), x) /\ Unasked(u, t)
  BY <1>4, <1>5, StartSent
<1>7. v = [u EXCEPT !.index = x, !.last = type, !.ended = FALSE]
  BY <1>a, <1>1, <1>3, <1>4 DEF Block
<1>8. u \in EvState /\ (u.started <=> t.started) /\ Ready(u, B, BlockOf(start), x)
  BY <1>6 DEF Then, Ready, SameBut
<1>9. /\ v \in EvState /\ v.out = u.out /\ v.index = x /\ v.last = type
      /\ v.ended = FALSE /\ (v.started <=> u.started)
  BY <1>a, <1>7, <1>8 DEF EvState
<1>10. Ready(v, B, BlockOf(start), v.index)
  BY <1>8, <1>9 DEF Ready
<1>11. Unasked(v, s)
  BY <1>2, <1>6, <1>9 DEF Unasked, NoCall
<1> QED
  BY <1>2, <1>8, <1>9, <1>10, <1>11 DEF Opened

\* The types of content that have a block of their own, and its first event.
Begins(type, start) ==
  \/ type = "Text" /\ start = "start text"
  \/ type = "Thinking" /\ start = "start thinking"

LEMMA OpenedPlain ==
  ASSUME NEW v, NEW s, NEW B, NEW type, NEW start, Begins(type, start),
         Opened(v, s, B, type, BlockOf(start)), NoCall(v), v.started
  PROVE  Plain(v, B) /\ v.last = type
<1>1. BlockOf(start) = OpenOf(type) /\ type \in {"None", "Thinking", "Text"} /\ type # "None"
  BY DEF Begins, BlockOf, OpenOf
<1>2. Ready(v, B, BlockOf(start), v.index) /\ v.last = type /\ v.ended = FALSE
  BY DEF Opened
<1>3. v \in EvState /\ v.out # <<>> /\ Message(v.out, B, OpenOf(v.last), v.index)
  BY <1>1, <1>2 DEF Ready
<1> QED
  BY <1>1, <1>2, <1>3 DEF Plain, UnderWay

LEMMA FirstBlockState ==
  ASSUME NEW s, NEW B, Plain(s, B), NEW type, NEW start, Begins(type, start),
         NEW w, w = FirstBlock(s, type, start)
  PROVE  Plain(w, B) /\ w.last = type /\ w.started
<1>0. type \in BlockKind /\ start \in Starts /\ type # "None"
  BY DEF BlockKind, Starts, Begins
<1>a. NoCall(s) /\ s \in EvState
  BY DEF Plain, UnderWay
<1>1. CASE s.started /\ s.last = type
  <2>1. w = s
    BY <1>1 DEF FirstBlock, Block
  <2> QED
    BY <1>1, <2>1
<1>2. CASE s.started /\ s.last # type
  <2>1. w = Block(s, type, start)
    BY <1>2 DEF FirstBlock
  <2>2. PICK open : open = OpenOf(s.last)
    OBVIOUS
  <2>3. s.out # <<>> /\ s.last # "None" /\ s.index \in Nat
    BY <1>2 DEF Plain, UnderWay, EvState
  <2>4. open # "none"
    BY <2>2, <2>3 DEF Plain, OpenOf
  <2>5. Message(s.out, B, open, s.index)
    BY <2>2 DEF Plain
  <2>6. Opens(s, B, type, open)
    BY <1>0, <1>a, <1>2, <2>3, <2>4, <2>5 DEF Opens, Ready
  <2>7. Opened(w, s, B, type, BlockOf(start)) /\ Unasked(w, s)
    BY <1>0, <2>1, <2>6, BlockState
  <2>8. NoCall(w) /\ w.started
    BY <1>a, <1>2, <2>7 DEF Opened, Unasked
  <2> QED
    BY <2>7, <2>8, OpenedPlain
<1>3. CASE ~s.started
  <2>1. s.out = <<>> /\ s.last = "None" /\ s.index \in Nat
    BY <1>3 DEF Plain, UnderWay, EvState
  <2>2. OpenOf(s.last) = "none"
    BY <2>1 DEF OpenOf
  <2>3. Unbegun(s, B, s.index)
    BY <1>a, <2>1, <2>2 DEF Unbegun, Plain
  <2>4. PICK x \in Nat : x = s.index
    BY <2>1
  <2>5. PICK t : t = Emit(s, Event("message_start", 0, 0))
    OBVIOUS
  <2>6. Then(t, s, B, "none", x) /\ Unasked(t, s)
    BY <2>3, <2>4, <2>5, MessageStarts
  <2>7. Ready(t, B, "none", t.index) /\ t.last = "None"
    BY <2>1, <2>4, <2>6 DEF Then, SameBut
  <2>8. Opens(t, B, type, "none")
    BY <1>0, <2>7 DEF Opens
  <2>9. PICK u : u = Block(t, type, start)
    OBVIOUS
  <2>10. Opened(u, t, B, type, BlockOf(start)) /\ Unasked(u, t)
    BY <1>0, <2>8, <2>9, BlockState
  <2>11. Ready(u, B, BlockOf(start), u.index) /\ u.last = type /\ u.ended = FALSE
    BY <2>10 DEF Opened
  <2>12. PICK y : y = u.index
    OBVIOUS
  <2>13. PICK v : v = Emit(u, Event("ping", 0, 0))
    OBVIOUS
  <2>14. Then(v, u, B, BlockOf(start), y) /\ Unasked(v, u)
    BY <2>11, <2>12, <2>13, PingSent
  <2>15. /\ v \in EvState /\ v.last = type /\ v.ended = FALSE /\ v.index = y
         /\ Ready(v, B, BlockOf(start), y)
    BY <2>11, <2>12, <2>14 DEF Then, SameBut, Ready
  <2>16. w = [v EXCEPT !.started = TRUE]
    BY <1>3, <2>5, <2>9, <2>13 DEF FirstBlock
  <2>17. /\ w \in EvState /\ w.out = v.out /\ w.index = y /\ w.last = type
         /\ w.ended = FALSE /\ w.started = TRUE
    BY <2>15, <2>16 DEF EvState
  <2>18. Opened(w, w, B, type, BlockOf(start))
    BY <2>15, <2>17 DEF Opened, Ready
  <2>19. NoCall(w)
    BY <1>a, <2>6, <2>10, <2>14, <2>17 DEF Unasked, NoCall
  <2> QED
    BY <2>17, <2>18, <2>19, OpenedPlain
<1> QED
  BY <1>1, <1>2, <1>3

\* A text or a thought in the block that is open for it.
Continues(s, type) == type \in Deltas \ {"json"} /\ OpenOf(s.last) = BlockOf(type) /\ s.last # "None"

LEMMA DeltaState ==
  ASSUME NEW s, NEW B, Plain(s, B), NEW type, Continues(s, type),
         NEW n, New(B, n), NEW t, t = Delta(s, type, n)
  PROVE  Plain(t, With(B, n)) /\ t.started
<1>1. type \in Deltas /\ type # "json" /\ OpenOf(s.last) = BlockOf(type) /\ s.last # "None"
  BY DEF Continues
<1>2. s \in EvState /\ s.index \in Nat /\ s.out # <<>> /\ s.started /\ s.ended = FALSE
  BY <1>1 DEF Plain, UnderWay, EvState
<1>3. PICK x \in Nat : x = s.index
  BY <1>2
<1>4. Message(s.out, B, OpenOf(s.last), s.index) /\ NoCall(s) /\ s.last \in {"None", "Thinking", "Text"}
  BY DEF Plain
<1>5. Ready(s, B, BlockOf(type), x)
  BY <1>1, <1>2, <1>3, <1>4 DEF Ready
<1>6. t = Emit(s, Event(type, x, n))
  BY <1>3 DEF Delta
<1>7. /\ Then(t, s, With(B, n), BlockOf(type), x)
      /\ NoCall(t) <=> NoCall(s) /\ type # "json"
  BY <1>1, <1>5, <1>6, DeltaSent
<1>8. /\ t.started /\ t.last = s.last /\ t.index = x /\ t.ended = FALSE
      /\ t \in EvState /\ t.out # <<>> /\ Message(t.out, With(B, n), BlockOf(type), x)
  BY <1>2, <1>3, <1>7 DEF Then, SameBut, Ready
<1>9. Message(t.out, With(B, n), OpenOf(t.last), t.index)
  BY <1>1, <1>8
<1>10. t.last \in {"None", "Thinking", "Text"} /\ t.last # "None" /\ NoCall(t)
  BY <1>1, <1>4, <1>7, <1>8
<1> QED
  BY <1>8, <1>9, <1>10 DEF Plain, UnderWay

LEMMA AnthropicTextState ==
  ASSUME NEW s, NEW B, Plain(s, B), NEW n, New(B, n), NEW u, u = AnthropicText(s, n)
  PROVE  Plain(u, With(B, n)) /\ u.started
<1>1. PICK t : t = FirstBlock(s, "Text", "start text")
  OBVIOUS
<1>2. PICK type, start : type = "Text" /\ start = "start text"
  OBVIOUS
<1>3. Plain(t, B) /\ t.last = "Text"
  <2>1. Begins(type, start)
    BY <1>2 DEF Begins
  <2>2. t = FirstBlock(s, type, start)
    BY <1>1, <1>2
  <2>3. Plain(t, B) /\ t.last = type
    BY <2>1, <2>2, FirstBlockState
  <2> QED
    BY <1>2, <2>3
<1>4. Continues(t, "text")
  BY <1>3 DEF Continues, OpenOf, BlockOf, Deltas
<1>5. u = Delta(t, "text", n)
  BY <1>1 DEF AnthropicText
<1> QED
  BY <1>3, <1>4, <1>5, DeltaState

LEMMA AnthropicThinkingState ==
  ASSUME NEW s, NEW B, Plain(s, B), NEW m, m.kind \in {"think", "sign", "redacted"},
         New(B, m.n), NEW u, u = AnthropicThinking(s, m)
  PROVE  /\ m.kind = "redacted" => Plain(u, B)
         /\ m.kind # "redacted" => Plain(u, With(B, m.n))
         /\ u.started
<1>1. PICK t : t = FirstBlock(s, "Thinking", "start thinking")
  OBVIOUS
<1>2. PICK type, start : type = "Thinking" /\ start = "start thinking"
  OBVIOUS
<1>3. Plain(t, B) /\ t.last = "Thinking" /\ t.started
  <2>1. Begins(type, start)
    BY <1>2 DEF Begins
  <2>2. t = FirstBlock(s, type, start)
    BY <1>1, <1>2
  <2>3. Plain(t, B) /\ t.last = type /\ t.started
    BY <2>1, <2>2, FirstBlockState
  <2> QED
    BY <1>2, <2>3
<1>4. CASE m.kind = "redacted"
  <2>1. u = t
    BY <1>1, <1>4 DEF AnthropicThinking
  <2> QED
    BY <1>3, <1>4, <2>1
<1>5. CASE m.kind # "redacted"
  <2>1. PICK kind, n : kind = m.kind /\ n = m.n
    OBVIOUS
  <2>2. kind \in {"think", "sign"}
    BY <1>5, <2>1
  <2>3. Continues(t, kind)
    BY <1>3, <2>2 DEF Continues, OpenOf, BlockOf, Deltas
  <2>4. u = Delta(t, kind, n)
    BY <1>1, <1>5, <2>1 DEF AnthropicThinking
  <2>5. New(B, n)
    BY <2>1
  <2>6. Plain(u, With(B, n)) /\ u.started
    BY <1>3, <2>3, <2>4, <2>5, DeltaState
  <2> QED
    BY <1>5, <2>1, <2>6
<1> QED
  BY <1>4, <1>5

\* A stream that has begun has a block that is not stopped.
LEMMA HasBlock ==
  ASSUME NEW s, NEW B, Plain(s, B) \/ InCall(s, B), s.started
  PROVE  /\ \E open : Ready(s, B, open, s.index) /\ open # "none"
         /\ s \in EvState /\ s.last \in {"Thinking", "Text"}
<1>1. CASE Plain(s, B)
  <2>1. /\ s \in EvState /\ s.out # <<>> /\ s.index \in Nat
        /\ Message(s.out, B, OpenOf(s.last), s.index) /\ s.last \in {"Thinking", "Text"}
    BY <1>1 DEF Plain, UnderWay, EvState
  <2>2. PICK open : open = OpenOf(s.last)
    OBVIOUS
  <2>3. open # "none"
    BY <2>1, <2>2 DEF OpenOf
  <2>4. Ready(s, B, open, s.index)
    BY <2>1, <2>2 DEF Ready
  <2> QED
    BY <2>1, <2>3, <2>4
<1>2. CASE InCall(s, B)
  <2>1. /\ s \in EvState /\ s.out # <<>> /\ s.index \in Nat
        /\ Message(s.out, B, "tool", s.index) /\ s.last \in {"Thinking", "Text"}
    BY <1>2 DEF InCall, UnderWay, EvState
  <2>2. Ready(s, B, "tool", s.index)
    BY <2>1 DEF Ready
  <2> QED
    BY <2>1, <2>2
<1> QED
  BY <1>1, <1>2

LEMMA AnthropicToolState ==
  ASSUME NEW s, NEW B, Plain(s, B) \/ InCall(s, B), s.started,
         NEW n, New(B, n), NEW w, w = AnthropicTool(s, n)
  PROVE  InCall(w, With(B, n)) /\ w.started
<1>0. /\ "InputJson" \in BlockKind /\ "start tool" \in Starts /\ "json" \in Deltas
      /\ BlockOf("start tool") = "tool" /\ BlockOf("json") = "tool"
  BY DEF BlockKind, Starts, Deltas, BlockOf
<1>1. PICK open : Ready(s, B, open, s.index) /\ open # "none"
  BY HasBlock
<1>2. s.last # "InputJson" /\ s.last # "None"
  BY HasBlock
<1>3. Opens(s, B, "InputJson", open)
  BY <1>0, <1>1, <1>2 DEF Opens
<1>4. PICK t : t = Block(s, "InputJson", "start tool")
  OBVIOUS
<1>5. Opened(t, s, B, "InputJson", BlockOf("start tool"))
  BY <1>0, <1>3, <1>4, BlockState
<1>6. PICK x : x = t.index
  OBVIOUS
<1>7. Ready(t, B, BlockOf("json"), x) /\ t.ended = FALSE
  BY <1>0, <1>5, <1>6 DEF Opened
<1>8. PICK u : u = Emit(t, Event("json", x, 0))
  OBVIOUS
<1>9. New(B, 0) /\ With(B, 0) = B
  BY DEF New, With
<1>10. Then(u, t, With(B, 0), BlockOf("json"), x)
  <2>1. PICK type, z : type = "json" /\ z = 0
    OBVIOUS
  <2>2. /\ type \in Deltas /\ New(B, z) /\ Ready(t, B, BlockOf(type), x)
        /\ u = Emit(t, Event(type, x, z))
    BY <1>0, <1>7, <1>8, <1>9, <2>1
  <2>3. Then(u, t, With(B, z), BlockOf(type), x)
    BY <2>2, DeltaSent
  <2> QED
    BY <2>1, <2>3
<1>11. /\ Ready(u, B, BlockOf("json"), x) /\ u.index = x /\ u.ended = FALSE /\ u \in EvState
  BY <1>6, <1>7, <1>9, <1>10 DEF Then, SameBut, Ready
<1>12. PICK v : v = [u EXCEPT !.last = "Text", !.started = TRUE]
  OBVIOUS
<1>13. /\ v \in EvState /\ v.out = u.out /\ v.last = "Text" /\ v.started = TRUE /\ v.index = x
       /\ v.ended = FALSE
  BY <1>11, <1>12 DEF EvState, BlockKind
<1>14. Ready(v, B, BlockOf("json"), x)
  BY <1>11, <1>13 DEF Ready
<1>15. w = Emit(v, Event("json", x, n))
  BY <1>4, <1>6, <1>8, <1>12, <1>13 DEF AnthropicTool, Delta
<1>16. /\ Then(w, v, With(B, n), BlockOf("json"), x)
       /\ NoCall(w) <=> NoCall(v) /\ "json" # "json"
  BY <1>0, <1>14, <1>15, DeltaSent
<1>17. /\ w.last = "Text" /\ w.started /\ w.index = x /\ w.ended = FALSE
       /\ w \in EvState /\ w.out # <<>> /\ Message(w.out, With(B, n), "tool", x)
  BY <1>0, <1>13, <1>16 DEF Then, SameBut, Ready
<1>18. ~NoCall(w)
  BY <1>16
<1> QED
  BY <1>17, <1>18 DEF InCall, UnderWay

LEMMA AnthropicEndState ==
  ASSUME NEW s, NEW B, Plain(s, B) \/ InCall(s, B), s.started, NEW e, e = AnthropicEnd(s)
  PROVE  Stopped(e, B) /\ Unasked(e, s)
<1>1. PICK open : Ready(s, B, open, s.index) /\ open # "none"
  BY HasBlock
<1>2. s.last # "None"
  BY HasBlock
<1>3. PICK x : x = s.index
  OBVIOUS
<1>4. PICK t : t = Emit(s, Event("stop", x, 0))
  OBVIOUS
<1>5. Ready(s, B, open, x)
  BY <1>1, <1>3
<1>6. Then(t, s, B, "none", x + 1) /\ Unasked(t, s)
  BY <1>1, <1>4, <1>5, StopSent
<1>7. t \in EvState /\ t.out # <<>> /\ Message(t.out, B, "none", x + 1) /\ x + 1 \in Nat
  BY <1>6 DEF Then, Ready
<1>8. e = [t EXCEPT !.ended = TRUE, !.started = TRUE]
  BY <1>2, <1>3, <1>4 DEF AnthropicEnd, EmitIf
<1>9. e \in EvState /\ e.ended /\ e.out = t.out
  BY <1>7, <1>8 DEF EvState
<1>10. Unasked(e, s)
  BY <1>6, <1>9 DEF Unasked, NoCall
<1> QED
  BY <1>7, <1>9, <1>10 DEF Stopped

-----------------------------------------------------------------------------
(* A batch of messages *)

Apis == {"openai", "anthropic"}

\* Whether a format has an event with the text of such a message.
Carries(a, kind) ==
  kind \in {"text", "think"} \/ (a = "anthropic" /\ kind \in {"sign", "tool"})

\* The two states of either format. D are the numbers of the frames that
\* brought a part of a call.
AnthropicState(s, B, D) == IF D = {} THEN Plain(s, B) ELSE InCall(s, B)
AnthropicEnded(s, B, D) == Stopped(s, B) /\ (D = {} <=> NoCall(s))

Going(a, s, B, D) == IF a = "openai" THEN OpenAiState(s, B) ELSE AnthropicState(s, B, D)
Over(a, s, B, D) == IF a = "openai" THEN OpenAiEnded(s, B) ELSE AnthropicEnded(s, B, D)

\* The frames whose text is sent for the first i messages, and those of the
\* messages that are part of a call.
Shown(a, ms, i) == {ms[k].n : k \in {l \in 1..i : Carries(a, ms[l].kind)}}
Calls(ms, i) == {ms[k].n : k \in {l \in 1..i : ms[l].kind = "tool"}}

\* The same for one message more.
ShownWith(a, B, m) == IF Carries(a, m.kind) THEN B \cup {m.n} ELSE B
CallsWith(D, m) == IF m.kind = "tool" THEN D \cup {m.n} ELSE D

\* A message that may come next: of a later frame, a call only after some
\* text, and nothing but the call's arguments after it.
May(s, B, D, m) ==
  /\ m \in MsgSet /\ m.n # 0 /\ \A x \in B : x < m.n
  /\ m.kind = "tool" => s.started
  /\ D # {} => m.kind = "tool"

LEMMA MayBeSent ==
  ASSUME NEW s, NEW B, NEW D, NEW m, May(s, B, D, m)
  PROVE  m.n \in Nat /\ m.n # 0 /\ New(B, m.n) /\ With(B, m.n) = B \cup {m.n} /\ m.kind \in MsgKind
<1>1. m.n \in Nat /\ m.n # 0 /\ m.kind \in MsgKind /\ \A x \in B : x < m.n
  BY DEF May, MsgSet
<1>2. New(B, m.n) /\ With(B, m.n) = B \cup {m.n}
  BY <1>1 DEF New, With
<1> QED
  BY <1>1, <1>2

LEMMA OpenAiGoing ==
  ASSUME NEW s, NEW B, OpenAiState(s, B), NEW D, NEW m, May(s, B, D, m), m.kind # "end",
         NEW t, t = OpenAiStep(s, m)
  PROVE  /\ OpenAiState(t, ShownWith("openai", B, m))
         /\ s.started \/ m.kind = "text" => t.started
<1>1. PICK n \in Nat : n = m.n /\ n # 0 /\ (\A x \in B : x < n) /\ B \cup ({n} \ {0}) = B \cup {n}
  <2>1. m.n \in Nat /\ m.n # 0
    BY MayBeSent
  <2>2. \A x \in B : x < m.n
    BY DEF May
  <2> QED
    BY <2>1, <2>2
<1>2. CASE m.kind = "text"
  <2>1. OpenAiState(OpenAiText(s, n), B \cup {n}) /\ OpenAiText(s, n).started
    BY <1>1, OpenAiTextState
  <2>2. t = OpenAiText(s, n) /\ ShownWith("openai", B, m) = B \cup {n}
    BY <1>1, <1>2 DEF OpenAiStep, Carries, ShownWith
  <2> QED
    BY <2>1, <2>2
<1>3. CASE m.kind = "think"
  <2>1. OpenAiState(OpenAiThinking(s, n), B \cup {n}) /\ OpenAiThinking(s, n).started
    BY <1>1, OpenAiThinkingState
  <2>2. t = OpenAiThinking(s, n) /\ ShownWith("openai", B, m) = B \cup {n}
    BY <1>1, <1>3 DEF OpenAiStep, Carries, ShownWith
  <2> QED
    BY <2>1, <2>2
<1>4. CASE m.kind # "text" /\ m.kind # "think"
  <2>1. t = s /\ ShownWith("openai", B, m) = B
    BY <1>4 DEF OpenAiStep, Carries, ShownWith
  <2> QED
    BY <1>4, <2>1
<1> QED
  BY <1>2, <1>3, <1>4

LEMMA AnthropicGoing ==
  ASSUME NEW s, NEW B, NEW D, AnthropicState(s, B, D), NEW m, May(s, B, D, m), m.kind # "end",
         NEW t, t = AnthropicStep(s, m)
  PROVE  /\ AnthropicState(t, ShownWith("anthropic", B, m), CallsWith(D, m))
         /\ s.started \/ m.kind = "text" => t.started
<1>1. PICK n, C : n = m.n /\ C = B \cup {n} /\ New(B, n) /\ With(B, n) = C
  BY MayBeSent
<1>2. ASSUME m.kind # "tool" PROVE D = {} /\ Plain(s, B) /\ CallsWith(D, m) = {}
  BY <1>2 DEF May, AnthropicState, CallsWith
<1>3. CASE m.kind = "text"
  <2>1. t = AnthropicText(s, n) /\ ShownWith("anthropic", B, m) = C
    BY <1>1, <1>3 DEF AnthropicStep, Carries, ShownWith
  <2>2. D = {} /\ Plain(s, B) /\ CallsWith(D, m) = {}
    BY <1>2, <1>3
  <2>3. Plain(t, C) /\ t.started
    BY <1>1, <2>1, <2>2, AnthropicTextState
  <2> QED
    BY <2>1, <2>2, <2>3 DEF AnthropicState
<1>4. CASE m.kind \in {"think", "sign", "redacted"}
  <2>1. t = AnthropicThinking(s, m)
    BY <1>4 DEF AnthropicStep
  <2>2. D = {} /\ Plain(s, B) /\ CallsWith(D, m) = {}
    BY <1>2, <1>4
  <2>3. New(B, m.n)
    BY <1>1
  <2>4. /\ m.kind = "redacted" => Plain(t, B)
        /\ m.kind # "redacted" => Plain(t, With(B, m.n))
        /\ t.started
    BY <1>4, <2>1, <2>2, <2>3, AnthropicThinkingState
  <2>5. ShownWith("anthropic", B, m) = IF m.kind = "redacted" THEN B ELSE C
    BY <1>1, <1>4 DEF Carries, ShownWith
  <2>6. Plain(t, ShownWith("anthropic", B, m))
    BY <1>1, <2>4, <2>5
  <2> QED
    BY <2>2, <2>4, <2>6 DEF AnthropicState
<1>5. CASE m.kind = "tool"
  <2>1. t = AnthropicTool(s, n) /\ ShownWith("anthropic", B, m) = C
    BY <1>1, <1>5 DEF AnthropicStep, Carries, ShownWith
  <2>2. (Plain(s, B) \/ InCall(s, B)) /\ s.started
    BY <1>5 DEF AnthropicState, May
  <2>3. InCall(t, C) /\ t.started
    BY <1>1, <2>1, <2>2, AnthropicToolState
  <2>4. CallsWith(D, m) # {}
    BY <1>5 DEF CallsWith
  <2> QED
    BY <2>1, <2>3, <2>4 DEF AnthropicState
<1>6. CASE m.kind = "web"
  <2>1. t = s /\ ShownWith("anthropic", B, m) = B /\ CallsWith(D, m) = D
    BY <1>6 DEF AnthropicStep, Carries, ShownWith, CallsWith
  <2> QED
    BY <1>6, <2>1
<1>7. m.kind \in MsgKind
  BY MayBeSent
<1> QED
  BY <1>3, <1>4, <1>5, <1>6, <1>7 DEF MsgKind

LEMMA StepGoing ==
  ASSUME NEW a \in Apis, NEW s, NEW B, NEW D, Going(a, s, B, D),
         NEW m, May(s, B, D, m), m.kind # "end", NEW t, t = Step(a, s, m)
  PROVE  /\ Going(a, t, ShownWith(a, B, m), CallsWith(D, m))
         /\ s.started \/ m.kind = "text" => t.started
<1>1. CASE a = "openai"
  <2>1. OpenAiState(s, B) /\ t = OpenAiStep(s, m)
    BY <1>1 DEF Going, Step
  <2>2. /\ OpenAiState(t, ShownWith("openai", B, m))
        /\ s.started \/ m.kind = "text" => t.started
    BY <2>1, OpenAiGoing
  <2> QED
    BY <1>1, <2>2 DEF Going
<1>2. CASE a = "anthropic"
  <2>1. AnthropicState(s, B, D) /\ t = AnthropicStep(s, m)
    BY <1>2 DEF Going, Step
  <2>2. /\ AnthropicState(t, ShownWith("anthropic", B, m), CallsWith(D, m))
        /\ s.started \/ m.kind = "text" => t.started
    BY <2>1, AnthropicGoing
  <2> QED
    BY <1>2, <2>2 DEF Going
<1> QED
  BY <1>1, <1>2 DEF Apis

LEMMA StepOver ==
  ASSUME NEW a \in Apis, NEW s, NEW B, NEW D, Going(a, s, B, D),
         NEW m \in MsgSet, m.kind = "end", s.started, NEW t, t = Step(a, s, m)
  PROVE  Over(a, t, B, D)
<1>1. CASE a = "openai"
  <2>1. OpenAiState(s, B)
    BY <1>1 DEF Going
  <2>2. OpenAiEnded(OpenAiStep(s, m), B)
    BY <2>1, OpenAiEndState
  <2> QED
    BY <1>1, <2>2 DEF Over, Step
<1>2. CASE a = "anthropic"
  <2>1. AnthropicState(s, B, D)
    BY <1>2 DEF Going
  <2>2. (Plain(s, B) \/ InCall(s, B)) /\ (D = {} <=> NoCall(s))
    BY <2>1 DEF AnthropicState, Plain, InCall
  <2>3. t = AnthropicEnd(s)
    BY <1>2 DEF Step, AnthropicStep
  <2>4. Stopped(t, B) /\ Unasked(t, s)
    BY <2>2, <2>3, AnthropicEndState
  <2>5. AnthropicEnded(t, B, D)
    BY <2>2, <2>4 DEF AnthropicEnded, Unasked
  <2> QED
    BY <1>2, <2>5 DEF Over
<1> QED
  BY <1>1, <1>2 DEF Apis

\* A batch that an orderly stream may bring: an end comes last, a call after
\* some text, and nothing but a call's arguments and an end after a call.
Plays(s, D, ms) ==
  \A k \in DOMAIN ms :
    /\ ms[k].kind = "end" => k = Len(ms)
    /\ ms[k].kind \in {"tool", "end"} => s.started \/ \E j \in 1..(k - 1) : ms[j].kind = "text"
    /\ D # {} \/ Calls(ms, k - 1) # {} => ms[k].kind \in {"tool", "end"}

LEMMA ShownNext ==
  ASSUME NEW a, NEW ms, NEW i \in Nat, i # 0
  PROVE  /\ Shown(a, ms, i) = ShownWith(a, Shown(a, ms, i - 1), ms[i])
         /\ Calls(ms, i) = CallsWith(Calls(ms, i - 1), ms[i])
<1>1. i \in 1..i /\ \A l : l \in 1..i <=> l \in 1..(i - 1) \/ l = i
  OBVIOUS
<1>2. Shown(a, ms, i) = ShownWith(a, Shown(a, ms, i - 1), ms[i])
  <2>1. CASE Carries(a, ms[i].kind)
    <3>1. ASSUME NEW x \in Shown(a, ms, i) PROVE x \in Shown(a, ms, i - 1) \cup {ms[i].n}
      BY <1>1 DEF Shown
    <3>2. ASSUME NEW x \in Shown(a, ms, i - 1) \cup {ms[i].n} PROVE x \in Shown(a, ms, i)
      BY <1>1, <2>1 DEF Shown
    <3> QED
      BY <2>1, <3>1, <3>2 DEF ShownWith
  <2>2. CASE ~Carries(a, ms[i].kind)
    <3>1. ASSUME NEW x \in Shown(a, ms, i) PROVE x \in Shown(a, ms, i - 1)
      BY <1>1, <2>2 DEF Shown
    <3>2. ASSUME NEW x \in Shown(a, ms, i - 1) PROVE x \in Shown(a, ms, i)
      BY <1>1 DEF Shown
    <3> QED
      BY <2>2, <3>1, <3>2 DEF ShownWith
  <2> QED
    BY <2>1, <2>2
<1>3. Calls(ms, i) = CallsWith(Calls(ms, i - 1), ms[i])
  <2>1. CASE ms[i].kind = "tool"
    <3>1. ASSUME NEW x \in Calls(ms, i) PROVE x \in Calls(ms, i - 1) \cup {ms[i].n}
      BY <1>1 DEF Calls
    <3>2. ASSUME NEW x \in Calls(ms, i - 1) \cup {ms[i].n} PROVE x \in Calls(ms, i)
      BY <1>1, <2>1 DEF Calls
    <3> QED
      BY <2>1, <3>1, <3>2 DEF CallsWith
  <2>2. CASE ms[i].kind # "tool"
    <3>1. ASSUME NEW x \in Calls(ms, i) PROVE x \in Calls(ms, i - 1)
      BY <1>1, <2>2 DEF Calls
    <3>2. ASSUME NEW x \in Calls(ms, i - 1) PROVE x \in Calls(ms, i)
      BY <1>1 DEF Calls
    <3> QED
      BY <2>2, <3>1, <3>2 DEF CallsWith
  <2> QED
    BY <2>1, <2>2
<1> QED
  BY <1>2, <1>3

Ends(ms, i) == \E k \in 1..i : ms[k].kind = "end"

\* What has been sent after the first i messages of a batch.
Handled(a, s, B, D, ms, i, r) ==
  LET C == B \cup Shown(a, ms, i)
      E == D \cup Calls(ms, i)
  IN  /\ Ends(ms, i) => Over(a, r, C, E)
      /\ ~Ends(ms, i) =>
           /\ Going(a, r, C, E)
           /\ s.started \/ (\E j \in 1..i : ms[j].kind = "text") => r.started

LEMMA ProcessGoing ==
  ASSUME NEW a \in Apis, NEW s, NEW B, NEW D, Going(a, s, B, D),
         NEW ms, NEW lo \in Nat, NEW hi \in Nat, Fine(ms, lo, hi),
         \A x \in B : x \in Nat /\ x <= lo, Plays(s, D, ms),
         NEW r, r = process_messages(a, s, ms)
  PROVE  Handled(a, s, B, D, ms, Len(ms), r)
<1>1. ms \in Seq(MsgSet) /\ Len(ms) \in Nat /\ DOMAIN ms = 1..Len(ms)
  BY DEF Fine
<1>2. PICK n \in Nat : n = Len(ms)
  BY <1>1
<1>3. PICK f : /\ f[0] = s
               /\ \A i \in 0..n : i # 0 => f[i] = (IF Left(ms, i) THEN f[i - 1] ELSE Step(a, f[i - 1], ms[i]))
               /\ process_messages(a, s, ms) = f[n]
  BY <1>1, <1>2, ProcessRun
<1> DEFINE P == {i \in 0..n : Handled(a, s, B, D, ms, i, f[i])}
<1>4. 0 \in P
  <2>1. /\ Shown(a, ms, 0) = {} /\ Calls(ms, 0) = {} /\ ~Ends(ms, 0)
        /\ ~(\E j \in 1..0 : ms[j].kind = "text")
    BY DEF Shown, Calls, Ends
  <2>2. B \cup Shown(a, ms, 0) = B /\ D \cup Calls(ms, 0) = D
    BY <2>1
  <2>3. Handled(a, s, B, D, ms, 0, f[0])
    BY <1>3, <2>1, <2>2 DEF Handled
  <2> QED
    BY <1>2, <2>3
<1>5. ASSUME NEW i \in 0..n, i # 0, i - 1 \in P PROVE i \in P
  <2> HIDE DEF P
  <2>0. i \in Nat /\ i \in 1..n /\ i \in DOMAIN ms /\ i - 1 \in 0..n
    BY <1>1, <1>2, <1>5
  <2>1. ~Ends(ms, i - 1)
    <3> SUFFICES ASSUME NEW k \in 1..(i - 1), ms[k].kind = "end" PROVE FALSE
      BY DEF Ends
    <3>1. k \in DOMAIN ms /\ k < n
      BY <1>1, <1>2, <2>0
    <3> QED
      BY <1>2, <2>0, <3>1 DEF Plays
  <2>2. Handled(a, s, B, D, ms, i - 1, f[i - 1])
    BY <1>5 DEF P
  <2>3. ~Left(ms, i)
    BY <2>1 DEF Ends, Left
  <2>4. f[i] = Step(a, f[i - 1], ms[i])
    BY <1>3, <1>5, <2>3
  <2>5. PICK t, m, u : t = f[i - 1] /\ m = ms[i] /\ u = Step(a, t, m)
    OBVIOUS
  <2>6. PICK C, E : C = B \cup Shown(a, ms, i - 1) /\ E = D \cup Calls(ms, i - 1)
    OBVIOUS
  <2>7. /\ Going(a, t, C, E)
        /\ s.started \/ (\E j \in 1..(i - 1) : ms[j].kind = "text") => t.started
    BY <2>1, <2>2, <2>5, <2>6 DEF Handled
  <2>8. m \in MsgSet /\ lo < m.n /\ m.n \in Nat /\ m.n # 0
    <3>1. m \in MsgSet /\ lo < m.n
      BY <1>1, <2>0, <2>5 DEF Fine
    <3>2. m.n \in Nat
      BY <3>1 DEF MsgSet
    <3> QED
      BY <3>1, <3>2
  <2>9. /\ m.kind \in {"tool", "end"} => s.started \/ \E j \in 1..(i - 1) : ms[j].kind = "text"
        /\ E # {} => m.kind \in {"tool", "end"}
    BY <2>0, <2>5, <2>6 DEF Plays
  <2>10. m.kind \in {"tool", "end"} => t.started
    BY <2>7, <2>9
  <2>11. \A l : l \in 1..i <=> l \in 1..(i - 1) \/ l = i
    BY <2>0
  <2>12. Ends(ms, i) <=> m.kind = "end"
    BY <2>1, <2>5, <2>11 DEF Ends
  <2>13. B \cup Shown(a, ms, i) = ShownWith(a, C, m) /\ D \cup Calls(ms, i) = CallsWith(E, m)
    <3>1. /\ Shown(a, ms, i) = ShownWith(a, Shown(a, ms, i - 1), m)
          /\ Calls(ms, i) = CallsWith(Calls(ms, i - 1), m)
      BY <2>0, <2>5, ShownNext
    <3> QED
      BY <2>6, <3>1 DEF ShownWith, CallsWith
  <2>14. CASE m.kind = "end"
    <3>1. Over(a, u, C, E)
      BY <2>5, <2>7, <2>8, <2>10, <2>14, StepOver
    <3>2. ShownWith(a, C, m) = C /\ CallsWith(E, m) = E
      BY <2>14 DEF Carries, ShownWith, CallsWith
    <3>3. Handled(a, s, B, D, ms, i, f[i])
      BY <2>4, <2>5, <2>12, <2>13, <2>14, <3>1, <3>2 DEF Handled
    <3> QED
      BY <2>0, <3>3 DEF P
  <2>15. CASE m.kind # "end"
    <3>1. ASSUME NEW x \in C PROVE x < m.n
      <4>1. CASE x \in B
        BY <2>8, <4>1
      <4>2. CASE x \in Shown(a, ms, i - 1)
        <5>1. PICK k \in 1..(i - 1) : x = ms[k].n
          BY <4>2 DEF Shown
        <5>2. k \in DOMAIN ms /\ k < i
          BY <1>1, <1>2, <2>0
        <5> QED
          BY <2>0, <2>5, <2>15, <5>1, <5>2 DEF Fine
      <4> QED
        BY <2>6, <4>1, <4>2
    <3>2. May(t, C, E, m)
      BY <2>8, <2>9, <2>10, <2>15, <3>1 DEF May
    <3>3. /\ Going(a, u, ShownWith(a, C, m), CallsWith(E, m))
          /\ t.started \/ m.kind = "text" => u.started
      BY <2>5, <2>7, <2>15, <3>2, StepGoing
    <3>4. ASSUME s.started \/ (\E j \in 1..i : ms[j].kind = "text") PROVE u.started
      <4>1. t.started \/ m.kind = "text"
        BY <2>5, <2>7, <2>11, <3>4
      <4> QED
        BY <3>3, <4>1
    <3>5. Handled(a, s, B, D, ms, i, f[i])
      BY <2>4, <2>5, <2>12, <2>13, <2>15, <3>3, <3>4 DEF Handled
    <3> QED
      BY <2>0, <3>5 DEF P
  <2> QED
    BY <2>14, <2>15
<1>6. \A i \in 0..n : i \in P
  <2> HIDE DEF P
  <2>1. 0 \in Nat /\ n \in Nat
    BY <1>2
  <2> QED
    BY <2>1, <1>4, <1>5, Upwards
<1>7. Handled(a, s, B, D, ms, n, f[n])
  BY <1>2, <1>6
<1> QED
  BY <1>2, <1>3, <1>7

-----------------------------------------------------------------------------
(* What the decoder makes of the frames, exactly *)

\* The kinds of the messages that frame n stands for.
Says(fs, n) ==
  CASE fs[n].kind \in {"blank", "error"} -> {}
    [] fs[n].kind = "web" -> {IF convert_web_ref THEN "text" ELSE "web"}
    [] fs[n].kind = "whole" -> {"tool", "end"}
    [] fs[n].kind = "tool" ->
         IF Adds(fs, n) THEN (IF fs[n].last THEN {"tool", "end"} ELSE {"tool"}) ELSE {}
    [] OTHER -> {fs[n].kind}

\* The messages of the frames after lo and up to hi.
Exact(ms, fs, lo, hi) ==
  /\ Fine(ms, lo, hi)
  /\ \A k \in DOMAIN ms : ms[k].kind \in Says(fs, ms[k].n)
  /\ \A n \in (lo + 1)..hi : \A kind \in Says(fs, n) :
       \E k \in DOMAIN ms : ms[k].kind = kind /\ ms[k].n = n

\* raw_args_len is the length of the longest arguments so far.
ArgsOf(args, fs, i) ==
  /\ \A j \in 1..i : fs[j].kind = "tool" => fs[j].len <= args
  /\ args = 0 \/ \E j \in 1..i : fs[j].kind = "tool" /\ fs[j].len = args

LastTool(f) == f.kind = "whole" \/ (f.kind = "tool" /\ f.last)

LEMMA ExactStep ==
  ASSUME NEW ms, NEW new, NEW fs, NEW lo \in Nat, NEW n \in Nat, lo < n,
         Exact(ms, fs, lo, n - 1), Fine(new, lo, n),
         \A k \in DOMAIN ms : k \in DOMAIN new /\ new[k] = ms[k],
         \A k \in DOMAIN new : \/ k \in DOMAIN ms
                               \/ new[k].n = n /\ new[k].kind \in Says(fs, n),
         \A kind \in Says(fs, n) : \E k \in DOMAIN new : new[k].kind = kind /\ new[k].n = n
  PROVE  Exact(new, fs, lo, n)
<1>1. ASSUME NEW k \in DOMAIN new PROVE new[k].kind \in Says(fs, new[k].n)
  BY DEF Exact
<1>2. ASSUME NEW i \in (lo + 1)..n, NEW kind \in Says(fs, i)
      PROVE  \E k \in DOMAIN new : new[k].kind = kind /\ new[k].n = i
  <2>1. CASE i = n
    BY <2>1
  <2>2. CASE i # n
    <3>1. i \in (lo + 1)..(n - 1)
      BY <2>2
    <3>2. PICK k \in DOMAIN ms : ms[k].kind = kind /\ ms[k].n = i
      BY <3>1 DEF Exact
    <3> QED
      BY <3>2
  <2> QED
    BY <2>1, <2>2
<1> QED
  BY <1>1, <1>2 DEF Exact

\* A frame without a message.
LEMMA ExactSame ==
  ASSUME NEW ms, NEW fs, NEW lo \in Nat, NEW n \in Nat, lo < n, Exact(ms, fs, lo, n - 1),
         Fine(ms, lo, n), Says(fs, n) = {}
  PROVE  Exact(ms, fs, lo, n)
BY ExactStep

\* A frame with one message.
LEMMA ExactOne ==
  ASSUME NEW d \in DecSet, NEW fs, NEW lo \in Nat, NEW n \in Nat, lo < n,
         Exact(d.msgs, fs, lo, n - 1), NEW kind \in MsgKind, Says(fs, n) = {kind},
         Fine(Add(d, kind, n).msgs, lo, n)
  PROVE  Exact(Add(d, kind, n).msgs, fs, lo, n)
<1>1. PICK ms : ms = d.msgs /\ ms \in Seq(MsgSet)
  BY DEF DecSet
<1>2. PICK m, new : m = Msg(kind, n) /\ new = Append(ms, m)
  OBVIOUS
<1>3. m \in MsgSet /\ m.kind = kind /\ m.n = n
  BY <1>2, MsgIs
<1>4. new = Add(d, kind, n).msgs
  BY <1>1, <1>2, AddIs
<1>5. PICK l \in Nat : l = Len(ms)
  BY <1>1
<1>6. /\ DOMAIN ms = 1..l /\ DOMAIN new = 1..(l + 1) /\ new[l + 1] = m
      /\ \A i \in 1..l : new[i] = ms[i]
  BY <1>1, <1>2, <1>3, <1>5, Appended
<1>7. /\ \A k \in DOMAIN ms : k \in DOMAIN new /\ new[k] = ms[k]
      /\ \A k \in DOMAIN new : k \in DOMAIN ms \/ k = l + 1
      /\ l + 1 \in DOMAIN new
  BY <1>5, <1>6
<1> QED
  BY <1>1, <1>3, <1>4, <1>6, <1>7, ExactStep

\* A frame with the last of a call.
LEMMA ExactTwo ==
  ASSUME NEW d \in DecSet, NEW fs, NEW lo \in Nat, NEW n \in Nat, lo < n,
         Exact(d.msgs, fs, lo, n - 1), Says(fs, n) = {"tool", "end"},
         Fine(Add(Add(d, "tool", n), "end", n).msgs, lo, n)
  PROVE  Exact(Add(Add(d, "tool", n), "end", n).msgs, fs, lo, n)
<1>0. "tool" \in MsgKind /\ "end" \in MsgKind
  BY DEF MsgKind
<1>1. PICK ms : ms = d.msgs /\ ms \in Seq(MsgSet)
  BY DEF DecSet
<1>2. PICK t, e, mid, new :
        t = Msg("tool", n) /\ e = Msg("end", n) /\ mid = Append(ms, t) /\ new = Append(mid, e)
  OBVIOUS
<1>3. /\ t \in MsgSet /\ t.kind = "tool" /\ t.n = n
      /\ e \in MsgSet /\ e.kind = "end" /\ e.n = n
  BY <1>0, <1>2, MsgIs
<1>4. new = Add(Add(d, "tool", n), "end", n).msgs
  <2>1. PICK u : u = Add(d, "tool", n)
    OBVIOUS
  <2>2. u \in DecSet /\ u.msgs = mid
    BY <1>0, <1>1, <1>2, <2>1, AddIs
  <2>3. Add(u, "end", n).msgs = Append(u.msgs, e)
    BY <1>0, <1>2, <2>2, AddIs
  <2> QED
    BY <1>2, <2>1, <2>2, <2>3
<1>5. PICK l \in Nat : l = Len(ms)
  BY <1>1
<1>6. /\ DOMAIN ms = 1..l /\ DOMAIN mid = 1..(l + 1) /\ mid[l + 1] = t
      /\ mid \in Seq(MsgSet) /\ Len(mid) = l + 1
      /\ \A i \in 1..l : mid[i] = ms[i]
  BY <1>1, <1>2, <1>3, <1>5, Appended
<1>7. PICK k2 \in Nat : k2 = l + 1
  BY <1>5
<1>8. /\ DOMAIN new = 1..(k2 + 1) /\ new[k2 + 1] = e
      /\ \A i \in 1..k2 : new[i] = mid[i]
  BY <1>2, <1>3, <1>6, <1>7, Appended
<1>9. /\ \A k \in DOMAIN ms : k \in DOMAIN new /\ new[k] = ms[k]
      /\ \A k \in DOMAIN new : k \in DOMAIN ms \/ k = k2 \/ k = k2 + 1
      /\ k2 \in DOMAIN new /\ k2 + 1 \in DOMAIN new /\ new[k2] = t
  BY <1>5, <1>6, <1>7, <1>8
<1>10. Exact(ms, fs, lo, n - 1) /\ Fine(new, lo, n)
  BY <1>1, <1>4
<1>11. \A k \in DOMAIN new : k \in DOMAIN ms \/ (new[k].n = n /\ new[k].kind \in Says(fs, n))
  BY <1>3, <1>8, <1>9
<1>12. \A kind \in Says(fs, n) : \E k \in DOMAIN new : new[k].kind = kind /\ new[k].n = n
  BY <1>3, <1>8, <1>9
<1>13. Exact(new, fs, lo, n)
  BY <1>9, <1>10, <1>11, <1>12, ExactStep
<1> QED
  BY <1>4, <1>13

LEMMA ArgsSame ==
  ASSUME NEW args \in Nat, NEW fs, NEW n \in Nat, n # 0, ArgsOf(args, fs, n - 1),
         fs[n].kind = "tool" => fs[n].len <= args
  PROVE  ArgsOf(args, fs, n)
BY DEF ArgsOf

LEMMA ArgsMore ==
  ASSUME NEW args \in Nat, NEW fs \in Seq(Frame), NEW n \in DOMAIN fs, ArgsOf(args, fs, n - 1),
         fs[n].kind = "tool"
  PROVE  /\ fs[n].len > args <=> Adds(fs, n)
         /\ fs[n].len > args => ArgsOf(fs[n].len, fs, n)
<1>1. n \in Nat /\ n # 0 /\ \A j \in 1..n : fs[j] \in Frame /\ fs[j].len \in Nat
  <2>1. n \in Nat /\ n # 0 /\ \A j \in 1..n : fs[j] \in Frame
    OBVIOUS
  <2> QED
    BY <2>1, FrameType
<1>2. ASSUME fs[n].len > args PROVE Adds(fs, n)
  <2>1. fs[n].len > 0
    BY <1>1, <1>2
  <2>2. ASSUME NEW j \in 1..(n - 1), fs[j].kind = "tool" PROVE fs[j].len < fs[n].len
    <3>1. fs[j].len <= args /\ fs[j].len \in Nat /\ fs[n].len \in Nat
      BY <1>1, <2>2 DEF ArgsOf
    <3> QED
      BY <1>2, <3>1
  <2> QED
    BY <2>1, <2>2 DEF Adds
<1>3. ASSUME Adds(fs, n) PROVE fs[n].len > args
  BY <1>3 DEF Adds, ArgsOf
<1>4. ASSUME fs[n].len > args PROVE ArgsOf(fs[n].len, fs, n)
  <2>1. ASSUME NEW j \in 1..n, fs[j].kind = "tool" PROVE fs[j].len <= fs[n].len
    <3>0. fs[j].len \in Nat /\ fs[n].len \in Nat
      BY <1>1
    <3>1. CASE j = n
      BY <3>0, <3>1
    <3>2. CASE j # n
      <4>1. fs[j].len <= args
        BY <1>1, <2>1, <3>2 DEF ArgsOf
      <4> QED
        BY <1>4, <3>0, <4>1
    <3> QED
      BY <3>1, <3>2
  <2>2. n \in 1..n
    BY <1>1
  <2> QED
    BY <2>1, <2>2 DEF ArgsOf
<1> QED
  BY <1>2, <1>3, <1>4

LEMMA DecodeFrameExact ==
  ASSUME NEW d \in DecSet, NEW fs \in Seq(Frame), d.frames = fs, ~d.err, ~d.processed,
         NEW lo \in Nat, NEW n \in DOMAIN fs, lo < n, Exact(d.msgs, fs, lo, n - 1),
         ArgsOf(d.args, fs, n - 1), OrderlyFrames(fs),
         NEW e, e = DecodeFrame(d, n)
  PROVE  /\ e \in DecSet /\ e.frames = fs
         /\ e.err <=> fs[n].kind = "error"
         /\ e.processed <=> LastTool(fs[n])
         /\ e.seen <=> d.seen \/ fs[n].kind = "text"
         /\ ArgsOf(e.args, fs, n)
         /\ ~e.err => Exact(e.msgs, fs, lo, n)
<1>0. n \in Nat /\ n # 0 /\ d.args \in Nat /\ fs[n] \in Frame
  BY DEF DecSet
<1>f. fs[n].kind \in FrameKind /\ fs[n].len \in Nat /\ fs[n].last \in BOOLEAN
  BY <1>0, FrameType
<1>1. e \in DecSet /\ e.frames = fs /\ Fine(e.msgs, lo, n)
  BY <1>0, DecodeStep DEF Exact
<1>2. PICK f : f = fs[n]
  OBVIOUS
<1>b. d.seen \in BOOLEAN /\ d.err = FALSE /\ d.processed = FALSE
  BY DEF DecSet
<1>3. CASE f.kind = "blank"
  <2>1. e = d
    BY <1>2, <1>3 DEF DecodeFrame
  <2>2. Says(fs, n) = {} /\ ~LastTool(fs[n])
    BY <1>2, <1>3 DEF Says, LastTool
  <2>3. ArgsOf(d.args, fs, n)
    BY <1>0, <1>2, <1>3, ArgsSame
  <2>4. Exact(d.msgs, fs, lo, n)
    BY <1>0, <1>1, <2>1, <2>2, ExactSame
  <2> QED
    BY <1>1, <1>2, <1>3, <2>1, <2>2, <2>3, <2>4
<1>4. CASE f.kind = "error"
  <2>1. e = [d EXCEPT !.err = TRUE]
    BY <1>2, <1>4 DEF DecodeFrame
  <2>2. e.err /\ e.processed = FALSE /\ e.args = d.args /\ e.seen = d.seen
    BY <1>b, <2>1 DEF DecSet
  <2>3. ArgsOf(d.args, fs, n)
    BY <1>0, <1>2, <1>4, ArgsSame
  <2> QED
    BY <1>1, <1>2, <1>4, <2>2, <2>3 DEF LastTool
<1>5. CASE f.kind \in {"text", "web", "think", "sign", "redacted", "end"}
  <2>1. PICK kind \in MsgKind :
          kind = IF f.kind = "web" THEN (IF convert_web_ref THEN "text" ELSE "web") ELSE f.kind
    BY <1>5 DEF MsgKind
  <2>2. PICK u : u = Add(d, kind, n)
    OBVIOUS
  <2>3. /\ u \in DecSet /\ u.err = FALSE /\ u.seen = d.seen /\ u.processed = FALSE
        /\ u.args = d.args
    BY <1>0, <1>b, <2>2, AddIs
  <2>4. e = IF f.kind = "text" THEN [u EXCEPT !.seen = TRUE] ELSE u
    BY <1>2, <1>5, <2>1, <2>2 DEF DecodeFrame
  <2>5. /\ e.err = FALSE /\ e.processed = FALSE /\ e.args = d.args /\ e.msgs = u.msgs
        /\ e.seen <=> d.seen \/ f.kind = "text"
    BY <1>b, <2>3, <2>4 DEF DecSet
  <2>6. Says(fs, n) = {kind} /\ ~LastTool(fs[n])
    BY <1>2, <1>5, <2>1 DEF Says, LastTool
  <2>7. ArgsOf(d.args, fs, n)
    BY <1>0, <1>2, <1>5, ArgsSame
  <2>8. Exact(u.msgs, fs, lo, n)
    BY <1>0, <1>1, <2>2, <2>5, <2>6, ExactOne
  <2> QED
    BY <1>1, <1>2, <1>5, <2>5, <2>6, <2>7, <2>8
<1>6. CASE f.kind = "whole"
  <2>1. PICK u : u = Add(Add(d, "tool", n), "end", n)
    OBVIOUS
  <2>2. e = [u EXCEPT !.processed = TRUE]
    BY <1>2, <1>6, <2>1 DEF DecodeFrame, AddProcessed
  <2>3. "tool" \in MsgKind /\ "end" \in MsgKind
    BY DEF MsgKind
  <2>4. PICK v : v = Add(d, "tool", n)
    OBVIOUS
  <2>5. v \in DecSet /\ v.err = FALSE /\ v.seen = d.seen /\ v.args = d.args
    BY <1>0, <1>b, <2>3, <2>4, AddIs
  <2>6. u \in DecSet /\ u.err = FALSE /\ u.seen = d.seen /\ u.args = d.args
    BY <1>0, <2>1, <2>3, <2>4, <2>5, AddIs
  <2>7. e.err = FALSE /\ e.processed /\ e.seen = d.seen /\ e.args = d.args /\ e.msgs = u.msgs
    BY <2>2, <2>6 DEF DecSet
  <2>8. Says(fs, n) = {"tool", "end"} /\ LastTool(fs[n])
    BY <1>2, <1>6 DEF Says, LastTool
  <2>9. ArgsOf(d.args, fs, n)
    BY <1>0, <1>2, <1>6, ArgsSame
  <2>10. Exact(u.msgs, fs, lo, n)
    BY <1>0, <1>1, <2>1, <2>7, <2>8, ExactTwo
  <2> QED
    BY <1>1, <1>2, <1>6, <2>7, <2>8, <2>9, <2>10
<1>7. CASE f.kind = "tool"
  <2>0. e = ToolFrame(d, f, n)
    BY <1>2, <1>7 DEF DecodeFrame
  <2>1. /\ f.len > d.args <=> Adds(fs, n)
        /\ f.len > d.args => ArgsOf(f.len, fs, n)
    BY <1>0, <1>2, <1>7, ArgsMore
  <2>2. f.len \in Nat /\ f.last \in BOOLEAN /\ (f.last => Adds(fs, n))
    BY <1>f, <1>2, <1>7 DEF OrderlyFrames
  <2>3. CASE f.len > d.args
    <3>1. PICK g : g = [d EXCEPT !.args = f.len]
      OBVIOUS
    <3>2. /\ g \in DecSet /\ g.msgs = d.msgs /\ g.args = f.len /\ g.seen = d.seen
          /\ g.err = FALSE /\ g.processed = FALSE
      BY <1>b, <2>2, <3>1 DEF DecSet
    <3>3. e = AddProcessed(g, n, f.last)
      BY <2>0, <2>3, <3>1 DEF ToolFrame
    <3>4. "tool" \in MsgKind /\ "end" \in MsgKind
      BY DEF MsgKind
    <3>5. PICK v : v = Add(g, "tool", n)
      OBVIOUS
    <3>6. v \in DecSet /\ v.err = FALSE /\ v.seen = d.seen /\ v.args = f.len /\ v.processed = FALSE
      BY <1>0, <3>2, <3>4, <3>5, AddIs
    <3>7. CASE f.last
      <4>1. PICK u : u = Add(Add(g, "tool", n), "end", n)
        OBVIOUS
      <4>2. u \in DecSet /\ u.err = FALSE /\ u.seen = d.seen /\ u.args = f.len
        BY <1>0, <3>4, <3>5, <3>6, <4>1, AddIs
      <4>3. e = [u EXCEPT !.processed = TRUE]
        BY <3>3, <3>7, <4>1 DEF AddProcessed
      <4>4. e.err = FALSE /\ e.processed /\ e.seen = d.seen /\ e.args = f.len /\ e.msgs = u.msgs
        BY <4>2, <4>3 DEF DecSet
      <4>5. Says(fs, n) = {"tool", "end"} /\ LastTool(fs[n])
        BY <1>2, <1>7, <2>1, <2>3, <3>7 DEF Says, LastTool
      <4>6. Exact(u.msgs, fs, lo, n)
        BY <1>0, <1>1, <3>2, <4>1, <4>4, <4>5, ExactTwo
      <4> QED
        BY <1>1, <1>2, <1>7, <2>1, <2>3, <4>4, <4>5, <4>6
    <3>8. CASE ~f.last
      <4>1. e = v
        BY <3>3, <3>5, <3>8 DEF AddProcessed
      <4>2. Says(fs, n) = {"tool"} /\ ~LastTool(fs[n])
        BY <1>2, <1>7, <2>1, <2>3, <3>8 DEF Says, LastTool
      <4>3. Exact(v.msgs, fs, lo, n)
        BY <1>0, <1>1, <3>2, <3>4, <3>5, <4>1, <4>2, ExactOne
      <4> QED
        BY <1>1, <1>2, <1>7, <2>1, <2>3, <3>6, <4>1, <4>2, <4>3
    <3> QED
      BY <3>7, <3>8
  <2>4. CASE ~(f.len > d.args)
    <3>1. ~Adds(fs, n) /\ ~f.last
      BY <2>1, <2>2, <2>4
    <3>2. e = d
      <4>1. CASE f.len = d.args
        BY <2>0, <2>4, <4>1 DEF ToolFrame
      <4>2. CASE f.len # d.args
        <5>1. e = [d EXCEPT !.processed = f.last]
          BY <2>0, <2>4, <4>2 DEF ToolFrame
        <5>2. f.last = FALSE
          BY <2>2, <3>1
        <5> QED
          BY <1>b, <5>1, <5>2 DEF DecSet
      <4> QED
        BY <4>1, <4>2
    <3>3. Says(fs, n) = {} /\ ~LastTool(fs[n])
      BY <1>2, <1>7, <3>1 DEF Says, LastTool
    <3>4. ArgsOf(d.args, fs, n)
      <4>1. f.len <= d.args
        BY <1>0, <2>2, <2>4
      <4> QED
        BY <1>0, <1>2, <4>1, ArgsSame
    <3>5. Exact(d.msgs, fs, lo, n)
      BY <1>0, <1>1, <3>2, <3>3, ExactSame
    <3> QED
      BY <1>1, <1>2, <1>7, <3>2, <3>3, <3>4, <3>5
  <2> QED
    BY <2>3, <2>4
<1> QED
  BY <1>f, <1>2, <1>3, <1>4, <1>5, <1>6, <1>7 DEF FrameKind

\* What the frames after lo and up to h decode to.
Decodes(d, fs, lo, h) ==
  /\ d \in DecSet /\ d.frames = fs
  /\ d.err <=> \E k \in (lo + 1)..h : fs[k].kind = "error"
  /\ d.processed <=> \E k \in (lo + 1)..h : LastTool(fs[k])
  /\ d.seen <=> ctx.seen \/ \E k \in (lo + 1)..h : fs[k].kind = "text"
  /\ ArgsOf(d.args, fs, h)
  /\ ~d.err => Exact(d.msgs, fs, lo, h)

LEMMA DecodeExact ==
  ASSUME NEW fs \in Seq(Frame), NEW lo \in Nat, lo = from - 1, lo <= Len(fs), ctx \in CtxSet,
         ~ctx.processed, ArgsOf(ctx.args, fs, lo), OrderlyFrames(fs),
         NEW d, d = Decoded(fs)
  PROVE  Decodes(d, fs, lo, Len(fs))
<1>1. PICK n \in Nat : n = Len(fs) /\ DOMAIN fs = 1..n
  OBVIOUS
<1>2. PICK f : /\ f[lo] = Fresh(fs)
               /\ \A i \in lo..n : i # lo => f[i] = DecodeFrame(f[i - 1], i)
               /\ Decoded(fs) = f[n]
  BY <1>1, DecodeRun
<1> DEFINE Good(i) ==
             /\ f[i] \in DecSet /\ f[i].frames = fs
             /\ f[i].err <=> \E k \in (lo + 1)..i : fs[k].kind = "error"
             /\ f[i].processed <=> \E k \in (lo + 1)..i : LastTool(fs[k])
             /\ f[i].seen <=> ctx.seen \/ \E k \in (lo + 1)..i : fs[k].kind = "text"
             /\ ArgsOf(f[i].args, fs, i)
             /\ ~f[i].err => Exact(f[i].msgs, fs, lo, i)
           P == {i \in lo..n : Good(i)}
<1>3. lo \in P
  <2>1. /\ Fresh(fs) \in DecSet /\ Fresh(fs).frames = fs /\ Fresh(fs).msgs = <<>>
        /\ Fresh(fs).err = FALSE /\ Fresh(fs).processed = FALSE /\ Fresh(fs).seen = ctx.seen
        /\ Fresh(fs).args = ctx.args
    BY DEF Fresh, DecSet, CtxSet
  <2>2. (lo + 1)..lo = {}
    OBVIOUS
  <2>3. Exact(<<>>, fs, lo, lo)
    BY <2>2 DEF Exact, Fine
  <2> QED
    BY <1>1, <1>2, <2>1, <2>2, <2>3
<1>4. ASSUME NEW i \in lo..n, i # lo, i - 1 \in P PROVE i \in P
  <2>1. i \in DOMAIN fs /\ lo < i /\ i - 1 \in lo..n /\ i \in Nat
    BY <1>1, <1>4
  <2>2. Good(i - 1)
    BY <1>4
  <2> HIDE DEF P
  <2>3. ASSUME NEW k \in (lo + 1)..(i - 1) PROVE fs[k].kind # "error" /\ ~LastTool(fs[k])
    <3>1. k \in 1..(n - 1)
      BY <1>1, <2>1
    <3>2. ~Final(fs[k])
      BY <1>1, <3>1 DEF OrderlyFrames
    <3> QED
      BY <3>2 DEF Final, LastTool
  <2>4. PICK u : u = f[i - 1]
    OBVIOUS
  <2>5. /\ u \in DecSet /\ u.frames = fs /\ ~u.err /\ ~u.processed
        /\ u.seen <=> ctx.seen \/ \E k \in (lo + 1)..(i - 1) : fs[k].kind = "text"
        /\ ArgsOf(u.args, fs, i - 1) /\ Exact(u.msgs, fs, lo, i - 1)
    BY <2>2, <2>3, <2>4
  <2>6. PICK e : e = f[i]
    OBVIOUS
  <2>7. e = DecodeFrame(u, i)
    BY <1>2, <1>4, <2>4, <2>6
  <2>8. /\ e \in DecSet /\ e.frames = fs
        /\ e.err <=> fs[i].kind = "error"
        /\ e.processed <=> LastTool(fs[i])
        /\ e.seen <=> u.seen \/ fs[i].kind = "text"
        /\ ArgsOf(e.args, fs, i)
        /\ ~e.err => Exact(e.msgs, fs, lo, i)
    BY <2>1, <2>5, <2>7, DecodeFrameExact
  <2>9. \A k : k \in (lo + 1)..i <=> k \in (lo + 1)..(i - 1) \/ k = i
    BY <2>1
  <2>10. Good(i)
    BY <2>3, <2>5, <2>6, <2>8, <2>9
  <2> QED
    BY <2>10 DEF P
<1>5. \A i \in lo..n : i \in P
  <2> HIDE DEF P
  <2>1. n \in Nat /\ lo \in Nat
    BY <1>1
  <2> QED
    BY <2>1, <1>3, <1>4, Upwards
<1>6. Good(n)
  BY <1>1, <1>5
<1> QED
  BY <1>1, <1>2, <1>6 DEF Decodes

-----------------------------------------------------------------------------
(* An orderly stream *)

\* Nothing but arguments comes after a call.
LEMMA ToolsLast ==
  ASSUME NEW fs \in Seq(Frame), OrderlyFrames(fs), NEW i \in DOMAIN fs, IsTool(fs[i]),
         NEW j \in DOMAIN fs, i < j
  PROVE  fs[j].kind = "tool"
<1>1. PICK n \in Nat : n = Len(fs) /\ DOMAIN fs = 1..n
  OBVIOUS
<1>2. PICK a \in Nat : a = i + 1
  BY <1>1
<1> DEFINE P == {k \in Nat : fs[k].kind = "tool"}
<1>3. ASSUME NEW k \in 1..(n - 1), IsTool(fs[k]) PROVE fs[k + 1].kind = "tool"
  BY <1>1, <1>3 DEF OrderlyFrames
<1>4. a \in P
  <2>1. i \in 1..(n - 1)
    BY <1>1
  <2> QED
    BY <1>2, <1>3, <2>1
<1>5. ASSUME NEW k \in a..n, k # a, k - 1 \in P PROVE k \in P
  <2>1. k - 1 \in 1..(n - 1) /\ k = (k - 1) + 1 /\ k \in Nat
    BY <1>1, <1>2, <1>5
  <2>2. IsTool(fs[k - 1])
    BY <1>5 DEF IsTool
  <2>3. fs[(k - 1) + 1].kind = "tool"
    BY <1>3, <2>1, <2>2
  <2> QED
    BY <2>1, <2>3
<1>6. \A k \in a..n : k \in P
  <2> HIDE DEF P
  <2> QED
    BY <1>1, <1>2, <1>4, <1>5, Upwards
<1>7. j \in a..n
  BY <1>1, <1>2
<1> QED
  BY <1>6, <1>7

LEMMA SaysWhat ==
  ASSUME NEW fs, NEW n
  PROVE  /\ "tool" \in Says(fs, n) => IsTool(fs[n])
         /\ "end" \in Says(fs, n) <=>
              \/ fs[n].kind = "end" \/ fs[n].kind = "whole"
              \/ fs[n].kind = "tool" /\ Adds(fs, n) /\ fs[n].last
         /\ fs[n].kind = "text" => Says(fs, n) = {"text"}
         /\ fs[n].kind = "tool" => Says(fs, n) \subseteq {"tool", "end"}
BY DEF Says, IsTool

\* The frames that are to be sent.
Wanted(a, fs, n) == \E kind \in Says(fs, n) : Carries(a, kind)

\* What the messages of the frames after lo and up to hi show of them.
Shows(a, ms, fs, lo, hi) ==
  /\ Shown(a, ms, Len(ms)) = {n \in (lo + 1)..hi : Wanted(a, fs, n)}
  /\ Calls(ms, Len(ms)) = {n \in (lo + 1)..hi : "tool" \in Says(fs, n)}
  /\ Ends(ms, Len(ms)) <=> \E n \in (lo + 1)..hi : "end" \in Says(fs, n)
  /\ (\E n \in (lo + 1)..hi : fs[n].kind = "text")
       => \E j \in 1..Len(ms) : ms[j].kind = "text"

LEMMA ExactShown ==
  ASSUME NEW a, NEW ms, NEW fs, NEW lo \in Nat, NEW hi \in Nat, Exact(ms, fs, lo, hi)
  PROVE  Shows(a, ms, fs, lo, hi)
<1>1. PICK l \in Nat : l = Len(ms) /\ DOMAIN ms = 1..l /\ ms \in Seq(MsgSet)
  BY DEF Exact, Fine
<1>2. ASSUME NEW k \in 1..l PROVE ms[k].n \in (lo + 1)..hi /\ ms[k].kind \in Says(fs, ms[k].n)
  <2>1. ms[k] \in MsgSet
    BY <1>1
  <2>2. ms[k].n \in Nat /\ lo < ms[k].n /\ ms[k].n <= hi
    BY <1>1, <2>1 DEF Exact, Fine, MsgSet
  <2> QED
    BY <1>1, <2>2 DEF Exact
<1>3. ASSUME NEW n \in (lo + 1)..hi, NEW kind \in Says(fs, n)
      PROVE  \E k \in 1..l : ms[k].kind = kind /\ ms[k].n = n
  BY <1>1 DEF Exact
<1>4. ASSUME NEW x \in Shown(a, ms, l) PROVE x \in {n \in (lo + 1)..hi : Wanted(a, fs, n)}
  BY <1>2 DEF Shown, Wanted
<1>5. ASSUME NEW x \in {n \in (lo + 1)..hi : Wanted(a, fs, n)} PROVE x \in Shown(a, ms, l)
  <2>1. PICK kind \in Says(fs, x) : Carries(a, kind)
    BY DEF Wanted
  <2>2. PICK k \in 1..l : ms[k].kind = kind /\ ms[k].n = x
    BY <1>3
  <2> QED
    BY <2>1, <2>2 DEF Shown
<1>6. Calls(ms, l) = {n \in (lo + 1)..hi : "tool" \in Says(fs, n)}
  <2>1. ASSUME NEW x \in Calls(ms, l) PROVE x \in {n \in (lo + 1)..hi : "tool" \in Says(fs, n)}
    BY <1>2 DEF Calls
  <2>2. ASSUME NEW x \in {n \in (lo + 1)..hi : "tool" \in Says(fs, n)} PROVE x \in Calls(ms, l)
    BY <1>3 DEF Calls
  <2> QED
    BY <2>1, <2>2
<1>7. Ends(ms, l) <=> \E n \in (lo + 1)..hi : "end" \in Says(fs, n)
  BY <1>2, <1>3 DEF Ends
<1>8. ASSUME NEW n \in (lo + 1)..hi, fs[n].kind = "text" PROVE \E j \in 1..l : ms[j].kind = "text"
  <2>1. "text" \in Says(fs, n)
    BY <1>8, SaysWhat
  <2> QED
    BY <1>3, <2>1
<1> QED
  BY <1>1, <1>4, <1>5, <1>6, <1>7, <1>8 DEF Shows

\* There was some text before the frames after lo, or is among them; and the
\* parts of a call up to there.
HasBegun(s, fs, lo, hi) == s.started \/ \E t \in (lo + 1)..hi : fs[t].kind = "text"
CallsBefore(D, fs, lo) == \A i \in D : i \in 1..lo /\ "tool" \in Says(fs, i)

\* The messages of an orderly stream can be processed in order.
LEMMA ExactPlays ==
  ASSUME NEW ms, NEW fs \in Seq(Frame), OrderlyFrames(fs), NEW lo \in Nat, NEW hi \in Nat,
         hi <= Len(fs), Exact(ms, fs, lo, hi),
         NEW s, HasBegun(s, fs, lo, hi), NEW D, CallsBefore(D, fs, lo)
  PROVE  Plays(s, D, ms)
<1>1. PICK l \in Nat : l = Len(ms) /\ DOMAIN ms = 1..l /\ ms \in Seq(MsgSet)
  BY DEF Exact, Fine
<1>2. PICK n \in Nat : n = Len(fs) /\ DOMAIN fs = 1..n
  OBVIOUS
<1>3. ASSUME NEW k \in 1..l
      PROVE  /\ ms[k].n \in (lo + 1)..hi /\ ms[k].n \in 1..n
             /\ ms[k].kind \in Says(fs, ms[k].n)
  <2>1. ms[k] \in MsgSet
    BY <1>1
  <2>2. ms[k].n \in Nat /\ lo < ms[k].n /\ ms[k].n <= hi
    BY <1>1, <2>1 DEF Exact, Fine, MsgSet
  <2> QED
    BY <1>1, <1>2, <2>2 DEF Exact
<1>4. ASSUME NEW j \in 1..l, NEW k \in 1..l, j < k
      PROVE  \/ ms[j].n < ms[k].n
             \/ ms[j].n = ms[k].n /\ ms[j].kind = "tool" /\ ms[k].kind = "end"
  BY <1>1, <1>4 DEF Exact, Fine
<1>5. ASSUME NEW i \in 1..n, "end" \in Says(fs, i) PROVE i = n
  <2>1. Final(fs[i])
    BY <1>5, SaysWhat DEF Final
  <2> QED
    BY <1>2, <2>1 DEF OrderlyFrames
<1>6. ASSUME NEW i \in 1..n, NEW j \in 1..n, i < j, "tool" \in Says(fs, i)
      PROVE  fs[j].kind = "tool"
  <2>1. IsTool(fs[i])
    BY <1>6, SaysWhat
  <2> QED
    BY <1>2, <1>6, <2>1, ToolsLast
<1>7. ASSUME NEW k \in 1..l, ms[k].kind = "end" PROVE k = l
  <2>1. ms[k].n = n
    BY <1>3, <1>5, <1>7
  <2>2. CASE k # l
    <3>1. l \in 1..l /\ k < l
      BY <1>1, <2>2
    <3>2. ms[l].n \in 1..n
      BY <1>3, <3>1
    <3>3. ms[k].n < ms[l].n
      BY <1>4, <1>7, <3>1
    <3> QED
      BY <1>2, <2>1, <3>2, <3>3
  <2> QED
    BY <2>2
<1>8. ASSUME NEW k \in 1..l, ms[k].kind \in {"tool", "end"}, ~s.started
      PROVE  \E j \in 1..(k - 1) : ms[j].kind = "text"
  <2>1. PICK t \in (lo + 1)..hi : fs[t].kind = "text"
    BY <1>8 DEF HasBegun
  <2>2. t \in 1..n
    BY <1>2
  <2>3. PICK j \in 1..l : ms[j].kind = "text" /\ ms[j].n = t
    <3>1. "text" \in Says(fs, t)
      BY <2>1, SaysWhat
    <3> QED
      BY <1>1, <3>1 DEF Exact
  <2>4. ~(k < j)
    <3> SUFFICES ASSUME k < j PROVE FALSE
      OBVIOUS
    <3>1. ms[k].n < t
      BY <1>4, <2>3
    <3>2. ms[k].n \in 1..n /\ ms[k].kind \in Says(fs, ms[k].n)
      BY <1>3
    <3>3. CASE ms[k].kind = "tool"
      <4>1. fs[t].kind = "tool"
        BY <1>6, <2>2, <3>1, <3>2, <3>3
      <4> QED
        BY <2>1, <4>1
    <3>4. CASE ms[k].kind = "end"
      <4>1. ms[k].n = n
        BY <1>5, <3>2, <3>4
      <4> QED
        BY <1>2, <2>2, <3>1, <4>1
    <3> QED
      BY <1>8, <3>3, <3>4
  <2>5. k # j
    BY <1>8, <2>3
  <2>6. j \in 1..(k - 1)
    BY <1>1, <2>4, <2>5
  <2> QED
    BY <2>3, <2>6
<1>9. ASSUME NEW k \in 1..l, D # {} \/ Calls(ms, k - 1) # {} PROVE ms[k].kind \in {"tool", "end"}
  <2>0. ms[k].n \in 1..n /\ ms[k].n \in (lo + 1)..hi /\ ms[k].kind \in Says(fs, ms[k].n)
    BY <1>3
  <2>1. ASSUME NEW i \in 1..n, i < ms[k].n, "tool" \in Says(fs, i) PROVE ms[k].kind \in {"tool", "end"}
    <3>1. fs[ms[k].n].kind = "tool"
      BY <1>6, <2>0, <2>1
    <3> QED
      BY <2>0, <3>1, SaysWhat
  <2>2. CASE D # {}
    <3>1. PICK i \in 1..lo : "tool" \in Says(fs, i)
      BY <2>2 DEF CallsBefore
    <3>2. i \in 1..n /\ i < ms[k].n
      BY <1>2, <2>0
    <3> QED
      BY <2>1, <3>1, <3>2
  <2>3. CASE Calls(ms, k - 1) # {}
    <3>1. PICK j \in 1..(k - 1) : ms[j].kind = "tool"
      BY <2>3 DEF Calls
    <3>2. j \in 1..l /\ j < k
      BY <1>1
    <3>3. ms[j].n \in 1..n /\ "tool" \in Says(fs, ms[j].n)
      BY <1>3, <3>1, <3>2
    <3> QED
      BY <1>4, <2>1, <3>2, <3>3
  <2> QED
    BY <1>9, <2>2, <2>3
<1> QED
  BY <1>1, <1>7, <1>8, <1>9 DEF Plays

\* Later frames change nothing about what earlier ones say.
LEMMA SaysPrefix ==
  ASSUME NEW fs \in Seq(Frame), NEW new \in Seq(Frame), NEW n \in 1..Len(fs)
  PROVE  Says(fs \o new, n) = Says(fs, n) /\ (fs \o new)[n] = fs[n]
<1>1. PICK all : all = fs \o new
  OBVIOUS
<1>2. \A i \in 1..Len(fs) : all[i] = fs[i]
  BY <1>1
<1>3. all[n] = fs[n] /\ \A j \in 1..(n - 1) : all[j] = fs[j]
  BY <1>2
<1>4. Adds(all, n) <=> Adds(fs, n)
  BY <1>3 DEF Adds
<1> QED
  BY <1>1, <1>3, <1>4 DEF Says

LEMMA ExactPrefix ==
  ASSUME NEW fs \in Seq(Frame), NEW new \in Seq(Frame), NEW ms, NEW lo \in Nat, NEW hi \in Nat,
         hi <= Len(fs), Exact(ms, fs, lo, hi)
  PROVE  Exact(ms, fs \o new, lo, hi)
<1>1. PICK all : all = fs \o new
  OBVIOUS
<1>2. PICK l \in Nat : l = Len(fs)
  OBVIOUS
<1>3. ASSUME NEW n \in (lo + 1)..hi PROVE Says(all, n) = Says(fs, n)
  <2>1. n \in 1..Len(fs)
    BY <1>2
  <2> QED
    BY <1>1, <2>1, SaysPrefix
<1>4. ASSUME NEW k \in DOMAIN ms PROVE ms[k].n \in (lo + 1)..hi
  <2>1. ms[k] \in MsgSet /\ lo < ms[k].n /\ ms[k].n <= hi
    BY DEF Exact, Fine
  <2>2. ms[k].n \in Nat
    BY <2>1 DEF MsgSet
  <2> QED
    BY <2>1, <2>2
<1>5. Exact(ms, all, lo, hi)
  BY <1>3, <1>4 DEF Exact
<1> QED
  BY <1>1, <1>5

LEMMA ExactJoin ==
  ASSUME NEW a, NEW b, NEW fs, NEW lo \in Nat, NEW mid \in Nat, NEW hi \in Nat,
         lo <= mid, mid <= hi, Exact(a, fs, lo, mid), Exact(b, fs, mid, hi)
  PROVE  Exact(a \o b, fs, lo, hi)
<1>1. Fine(a \o b, lo, hi)
  BY FineJoin DEF Exact
<1>2. a \in Seq(MsgSet) /\ b \in Seq(MsgSet)
  BY DEF Exact, Fine
<1>3. PICK m \in Nat, k \in Nat : m = Len(a) /\ k = Len(b)
  BY <1>2
<1>4. PICK c : c = a \o b
  OBVIOUS
<1>5. /\ DOMAIN a = 1..m /\ DOMAIN b = 1..k /\ DOMAIN c = 1..(m + k)
      /\ \A i \in 1..m : c[i] = a[i]
      /\ \A i \in 1..k : c[m + i] = b[i]
  BY <1>2, <1>3, <1>4, Joined
<1>e. /\ \A i \in 1..m : a[i].kind \in Says(fs, a[i].n)
      /\ \A i \in 1..k : b[i].kind \in Says(fs, b[i].n)
      /\ \A n \in (lo + 1)..mid : \A kind \in Says(fs, n) : \E i \in 1..m : a[i].kind = kind /\ a[i].n = n
      /\ \A n \in (mid + 1)..hi : \A kind \in Says(fs, n) : \E i \in 1..k : b[i].kind = kind /\ b[i].n = n
  <2>1. \A i \in 1..m : a[i].kind \in Says(fs, a[i].n)
    BY <1>5 DEF Exact
  <2>2. \A i \in 1..k : b[i].kind \in Says(fs, b[i].n)
    BY <1>5 DEF Exact
  <2>3. \A n \in (lo + 1)..mid : \A kind \in Says(fs, n) : \E i \in 1..m : a[i].kind = kind /\ a[i].n = n
    BY <1>5 DEF Exact
  <2>4. \A n \in (mid + 1)..hi : \A kind \in Says(fs, n) : \E i \in 1..k : b[i].kind = kind /\ b[i].n = n
    BY <1>5 DEF Exact
  <2> QED
    BY <2>1, <2>2, <2>3, <2>4
<1>6. ASSUME NEW i \in 1..(m + k) PROVE c[i].kind \in Says(fs, c[i].n)
  <2>1. CASE i \in 1..m
    BY <1>5, <1>e, <2>1
  <2>2. CASE i \notin 1..m
    <3>1. PICK j \in 1..k : i = m + j
      <4>1. i - m \in 1..k /\ i = m + (i - m)
        BY <1>3, <2>2
      <4> QED
        BY <4>1
    <3> QED
      BY <1>5, <1>e, <3>1
  <2> QED
    BY <2>1, <2>2
<1>7. ASSUME NEW n \in (lo + 1)..hi, NEW kind \in Says(fs, n)
      PROVE  \E i \in 1..(m + k) : c[i].kind = kind /\ c[i].n = n
  <2>1. CASE n <= mid
    <3>1. n \in (lo + 1)..mid
      BY <2>1
    <3>2. PICK i \in 1..m : a[i].kind = kind /\ a[i].n = n
      BY <1>5, <1>e, <3>1
    <3>3. i \in 1..(m + k)
      BY <1>3
    <3> QED
      BY <1>5, <3>2, <3>3
  <2>2. CASE ~(n <= mid)
    <3>1. n \in (mid + 1)..hi
      BY <2>2
    <3>2. PICK i \in 1..k : b[i].kind = kind /\ b[i].n = n
      BY <1>5, <1>e, <3>1
    <3>3. m + i \in 1..(m + k)
      BY <1>3
    <3> QED
      BY <1>5, <3>2, <3>3
  <2> QED
    BY <2>1, <2>2
<1>8. /\ Fine(c, lo, hi)
      /\ \A i \in DOMAIN c : c[i].kind \in Says(fs, c[i].n)
      /\ \A n \in (lo + 1)..hi : \A kind \in Says(fs, n) :
           \E i \in DOMAIN c : c[i].kind = kind /\ c[i].n = n
  <2>1. Fine(c, lo, hi)
    BY <1>1, <1>4
  <2>2. DOMAIN c = 1..(m + k)
    BY <1>5
  <2> QED
    BY <1>6, <1>7, <2>1, <2>2
<1>9. Exact(c, fs, lo, hi)
  BY <1>8 DEF Exact
<1> QED
  BY <1>4, <1>9

-----------------------------------------------------------------------------
(* A streamed response, step by step *)

SoFar(fs) == {n \in 1..Len(fs) : Wanted(api, fs, n)}
Called(fs) == {n \in 1..Len(fs) : "tool" \in Says(fs, n)}
HasError(fs) == \E i \in DOMAIN fs : fs[i].kind = "error"

\* Everything that has arrived is decoded and kept in first_result.
Keeping ==
  /\ ~first.taken /\ events = FreshEvents /\ from = Len(frames) + 1
  /\ Exact(first.result, frames, 0, Len(frames))

\* Everything that has arrived is sent.
Sending ==
  /\ first.taken /\ first.result = <<>> /\ from = Len(frames) + 1
  /\ Going(api, events, SoFar(frames), Called(frames)) /\ events.started

\* The last message has been processed, or an error has been sent.
Closed(s) == Over(api, s, SoFar(frames), Called(frames)) /\ (ctx.processed <=> Called(frames) # {})
Erred(s) ==
  /\ HasError(frames) /\ s \in EvState
  /\ IF api = "openai" THEN \E B : OpenAiEnded(s, B) ELSE ~None(s.out, "error")

InFirst ==
  /\ Keeping /\ ~first.ready /\ ~ctx.seen /\ ~HasText(frames)
  /\ ctx.processed => Finished(frames)
  /\ ArgsOf(ctx.args, frames, Len(frames))

InRest ==
  \/ /\ ~ctx.processed /\ ~Finished(frames) /\ ArgsOf(ctx.args, frames, Len(frames))
     /\ (Keeping /\ first.ready /\ HasText(frames)) \/ Sending
  \/ Erred(events)

StreamInv ==
  /\ SentOnce /\ api \in Apis /\ stream \in BOOLEAN
  /\ stream =>
       /\ OrderlyFrames(frames)
       /\ phase \in {"first", "rest", "tail", "done", "failed"}
       /\ phase = "first" => InFirst
       /\ phase = "rest" => InRest
       /\ phase = "tail" => Closed(events) \/ Erred(events)
       /\ phase = "done" => \E s : /\ Closed(s) \/ Erred(s)
                                   /\ events = LastPiece(api, s, ctx.processed)
       /\ phase = "failed" => events = FreshEvents

LEMMA StartsGoing ==
  ASSUME NEW a \in Apis
  PROVE  Going(a, FreshEvents, {}, {})
<1>1. FreshEvents \in EvState
  BY DEF FreshEvents, EvState, BlockKind
<1>2. /\ FreshEvents.out = <<>> /\ FreshEvents.started = FALSE /\ FreshEvents.thinking = FALSE
      /\ FreshEvents.last = "None" /\ FreshEvents.index = 0 /\ FreshEvents.ended = FALSE
  BY DEF FreshEvents
<1>3. Tidy(<<>>, {})
  BY DEF Tidy, Numbers
<1>4. \A type : Heads(<<>>, type) /\ None(<<>>, type)
  BY DEF Heads, None
<1>5. OpenAiState(FreshEvents, {})
  BY <1>1, <1>2, <1>3, <1>4 DEF OpenAiState, Begun
<1>6. Message(<<>>, {}, "none", 0)
  BY <1>3, <1>4, WalkEmpty DEF Message, Unwalked, At
<1>7. AnthropicState(FreshEvents, {}, {})
  <2>1. OpenOf("None") = "none"
    BY DEF OpenOf
  <2>2. UnderWay(FreshEvents)
    BY <1>1, <1>2 DEF UnderWay
  <2>3. Plain(FreshEvents, {})
    BY <1>2, <1>4, <1>6, <2>1, <2>2 DEF Plain, NoCall
  <2> QED
    BY <2>3 DEF AnthropicState
<1> QED
  BY <1>5, <1>7 DEF Going

\* An error ends the events of either format.
LEMMA ErrorSent ==
  ASSUME api \in Apis, NEW B, NEW D, Going(api, events, B, D)
  PROVE  /\ ErrorPiece \in EvState
         /\ IF api = "openai" THEN \E C : OpenAiEnded(ErrorPiece, C) ELSE ~None(ErrorPiece.out, "error")
<1>1. CASE api = "openai"
  <2>1. OpenAiState(events, B)
    BY <1>1 DEF Going
  <2>2. PICK t, e, ms : t = Msg("text", 0) /\ e = Msg("end", 0) /\ ms = <<t, e>>
    OBVIOUS
  <2>3. /\ t \in MsgSet /\ t.kind = "text" /\ t.n = 0
        /\ e \in MsgSet /\ e.kind = "end" /\ e.n = 0
    <3>1. "text" \in MsgKind /\ "end" \in MsgKind /\ 0 \in Nat
      BY DEF MsgKind
    <3> QED
      BY <2>2, <3>1, MsgIs
  <2>4. Len(ms) = 2 /\ ms[1] = t /\ ms[2] = e
    BY <2>2
  <2>5. PICK f : /\ f[0] = events
                 /\ \A i \in 0..Len(ms) : i # 0 => f[i] = (IF Left(ms, i) THEN f[i - 1] ELSE Step(api, f[i - 1], ms[i]))
                 /\ process_messages(api, events, ms) = f[Len(ms)]
    <3>1. Len(ms) \in Nat
      BY <2>4
    <3> QED
      BY <3>1, ProcessRun
  <2>6. ~Left(ms, 1) /\ ~Left(ms, 2)
    BY <2>3, <2>4 DEF Left
  <2>7. f[1] = Step(api, f[0], t) /\ f[2] = Step(api, f[1], e)
    <3>1. 1 \in 0..2 /\ 2 \in 0..2 /\ 1 - 1 = 0 /\ 2 - 1 = 1
      OBVIOUS
    <3> QED
      BY <2>4, <2>5, <2>6, <3>1
  <2>8. f[1] = OpenAiText(events, 0)
    BY <1>1, <2>3, <2>5, <2>7 DEF Step, OpenAiStep
  <2>9. OpenAiState(f[1], B \cup ({0} \ {0})) /\ f[1].started
    BY <2>1, <2>8, OpenAiTextState
  <2>10. f[2] = OpenAiStep(f[1], e)
    BY <1>1, <2>7 DEF Step
  <2>11. OpenAiEnded(f[2], B \cup ({0} \ {0}))
    BY <2>3, <2>9, <2>10, OpenAiEndState
  <2>12. ErrorPiece = f[2]
    BY <1>1, <2>2, <2>4, <2>5 DEF ErrorPiece
  <2>13. f[2] \in EvState
    BY <2>11 DEF OpenAiEnded
  <2> QED
    BY <1>1, <2>11, <2>12, <2>13
<1>2. CASE api = "anthropic"
  <2>1. events \in EvState
    BY <1>2 DEF Going, AnthropicState, Plain, InCall, UnderWay
  <2>2. PICK e : e = Event("error", 0, 0)
    OBVIOUS
  <2>3. e \in EventSet /\ e.type = "error"
    <3>1. "error" \in EventTypes /\ 0 \in Nat
      BY DEF EventTypes
    <3> QED
      BY <2>2, <3>1, EventIs
  <2>4. ErrorPiece = Emit(events, e)
    BY <1>2, <2>2 DEF ErrorPiece
  <2>5. Emit(events, e) \in EvState /\ Emit(events, e).out = Append(events.out, e)
    BY <2>1, <2>3, EmitIs
  <2>6. PICK out : out = events.out /\ out \in Seq(EventSet)
    BY <2>1 DEF EvState
  <2>7. PICK m \in Nat : m = Len(out)
    BY <2>6
  <2>8. DOMAIN Append(out, e) = 1..(m + 1) /\ Append(out, e)[m + 1] = e
    BY <2>3, <2>6, <2>7, Appended
  <2>9. m + 1 \in 1..(m + 1)
    BY <2>7
  <2>10. ~None(Append(out, e), "error")
    BY <2>3, <2>8, <2>9 DEF None
  <2> QED
    BY <1>2, <2>4, <2>5, <2>6, <2>10
<1> QED
  BY <1>1, <1>2 DEF Apis

\* What has been sent with what the frames of a chunk add.
Extended(fs, l, h) ==
  /\ l <= h /\ fs \in Seq(Frame) /\ DOMAIN fs = 1..h /\ DOMAIN frames = 1..l
  /\ SoFar(fs) = SoFar(frames) \cup {n \in (l + 1)..h : Wanted(api, fs, n)}
  /\ Called(fs) = Called(frames) \cup {n \in (l + 1)..h : "tool" \in Says(fs, n)}
  /\ \A i \in 1..l : fs[i] = frames[i] /\ Says(fs, i) = Says(frames, i)

LEMMA SoFarMore ==
  ASSUME frames \in Seq(Frame), NEW new \in Seq(Frame), NEW fs, fs = frames \o new,
         NEW l \in Nat, l = Len(frames), NEW h \in Nat, h = Len(fs)
  PROVE  Extended(fs, l, h)
<1>1. l <= h /\ fs \in Seq(Frame)
  <2>1. h = l + Len(new) /\ Len(new) \in Nat
    OBVIOUS
  <2> QED
    BY <2>1
<1>2. \A i \in 1..l : fs[i] = frames[i] /\ Says(fs, i) = Says(frames, i)
  BY SaysPrefix
<1>3. \A i : i \in 1..h <=> i \in 1..l \/ i \in (l + 1)..h
  BY <1>1
<1>4. ASSUME NEW i \in 1..l PROVE Wanted(api, fs, i) <=> Wanted(api, frames, i)
  BY <1>2 DEF Wanted
<1>5. SoFar(fs) = SoFar(frames) \cup {n \in (l + 1)..h : Wanted(api, fs, n)}
  BY <1>3, <1>4 DEF SoFar
<1>6. Called(fs) = Called(frames) \cup {n \in (l + 1)..h : "tool" \in Says(fs, n)}
  BY <1>2, <1>3 DEF Called
<1>7. DOMAIN fs = 1..h /\ DOMAIN frames = 1..l
  BY <1>1
<1> QED
  BY <1>1, <1>2, <1>5, <1>6, <1>7 DEF Extended

LEMMA SaysEnd ==
  ASSUME NEW fs \in Seq(Frame), OrderlyFrames(fs), NEW n \in DOMAIN fs
  PROVE  "end" \in Says(fs, n) <=> Final(fs[n]) /\ fs[n].kind # "error"
BY SaysWhat DEF Final, OrderlyFrames

\* A batch that follows what has been sent.
LEMMA BatchSent ==
  ASSUME api \in Apis, frames \in Seq(Frame), NEW new \in Seq(Frame), NEW fs, fs = frames \o new,
         OrderlyFrames(fs), NEW s, s.started, Going(api, s, SoFar(frames), Called(frames)),
         NEW ms, Exact(ms, fs, Len(frames), Len(fs)), ~Finished(frames),
         ~HasError(fs),
         NEW r, r = process_messages(api, s, ms)
  PROVE  /\ Finished(fs) => Over(api, r, SoFar(fs), Called(fs))
         /\ ~Finished(fs) => Going(api, r, SoFar(fs), Called(fs)) /\ r.started
<1>1. PICK l \in Nat, h \in Nat : l = Len(frames) /\ h = Len(fs) /\ DOMAIN frames = 1..l
  <2>1. fs \in Seq(Frame)
    OBVIOUS
  <2> QED
    BY <2>1
<1>e. Extended(fs, l, h)
  BY <1>1, SoFarMore
<1>2. /\ l <= h /\ fs \in Seq(Frame) /\ DOMAIN fs = 1..h
      /\ SoFar(fs) = SoFar(frames) \cup {n \in (l + 1)..h : Wanted(api, fs, n)}
      /\ Called(fs) = Called(frames) \cup {n \in (l + 1)..h : "tool" \in Says(fs, n)}
      /\ \A i \in 1..l : fs[i] = frames[i] /\ Says(fs, i) = Says(frames, i)
  BY <1>e DEF Extended
<1>3. Exact(ms, fs, l, h)
  BY <1>1
<1>4. /\ Shown(api, ms, Len(ms)) = {n \in (l + 1)..h : Wanted(api, fs, n)}
      /\ Calls(ms, Len(ms)) = {n \in (l + 1)..h : "tool" \in Says(fs, n)}
      /\ Ends(ms, Len(ms)) <=> \E n \in (l + 1)..h : "end" \in Says(fs, n)
  <2>1. Shows(api, ms, fs, l, h)
    BY <1>3, ExactShown
  <2> QED
    BY <2>1 DEF Shows
<1>5. PICK B, D : B = SoFar(frames) /\ D = Called(frames)
  OBVIOUS
<1>6. \A i \in D : i \in 1..l /\ "tool" \in Says(fs, i)
  BY <1>1, <1>2, <1>5 DEF Called
<1>7. Plays(s, D, ms)
  <2>1. CallsBefore(D, fs, l)
    BY <1>6 DEF CallsBefore
  <2>2. HasBegun(s, fs, l, h)
    BY DEF HasBegun
  <2>3. fs \in Seq(Frame) /\ h <= Len(fs)
    BY <1>1, <1>2
  <2> QED
    BY <1>3, <2>1, <2>2, <2>3, ExactPlays
<1>8. \A x \in B : x \in Nat /\ x <= l
  BY <1>1, <1>5 DEF SoFar
<1>9. Fine(ms, l, h) /\ Going(api, s, B, D)
  BY <1>3, <1>5 DEF Exact
<1>10. Handled(api, s, B, D, ms, Len(ms), r)
  BY <1>7, <1>8, <1>9, ProcessGoing
<1>11. B \cup Shown(api, ms, Len(ms)) = SoFar(fs) /\ D \cup Calls(ms, Len(ms)) = Called(fs)
  BY <1>2, <1>4, <1>5
<1>12. Ends(ms, Len(ms)) <=> Finished(fs)
  <2>1. DOMAIN fs = 1..h
    BY <1>1, <1>2
  <2>2. ASSUME NEW n \in 1..h PROVE "end" \in Says(fs, n) <=> Final(fs[n])
    BY <1>2, <2>1, SaysEnd DEF HasError
  <2>3. ASSUME NEW n \in 1..h, Final(fs[n]) PROVE n \in (l + 1)..h
    <3>1. n \notin 1..l
      BY <1>1, <1>2, <2>3 DEF Finished
    <3> QED
      BY <3>1
  <2>4. \A n \in (l + 1)..h : n \in 1..h
    BY <1>2
  <2> QED
    BY <1>4, <2>1, <2>2, <2>3, <2>4 DEF Finished
<1> QED
  BY <1>10, <1>11, <1>12 DEF Handled

LEMMA GoingType ==
  ASSUME NEW a \in Apis, NEW s, NEW B, NEW D
  PROVE  /\ Going(a, s, B, D) => s \in EvState /\ s.ended = FALSE
         /\ Over(a, s, B, D) => s \in EvState /\ s.ended = TRUE
<1>1. ASSUME Going(a, s, B, D) PROVE s \in EvState /\ ~s.ended
  BY <1>1 DEF Going, OpenAiState, AnthropicState, Plain, InCall, UnderWay
<1>2. ASSUME Over(a, s, B, D) PROVE s \in EvState /\ s.ended
  BY <1>2 DEF Over, OpenAiEnded, AnthropicEnded, Stopped
<1>3. s \in EvState => s.ended \in BOOLEAN
  BY DEF EvState
<1> QED
  BY <1>1, <1>2, <1>3

LEMMA EmptySeq ==
  ASSUME NEW T, NEW q \in Seq(T), Len(q) = 0
  PROVE  q = <<>>
OBVIOUS

\* Nothing comes after a frame that ends the stream.
LEMMA OrderlyEnds ==
  ASSUME frames \in Seq(Frame), NEW new \in Seq(Frame), OrderlyFrames(frames \o new),
         Finished(frames)
  PROVE  new = <<>>
<1>1. PICK l \in Nat, k \in Nat : l = Len(frames) /\ k = Len(new) /\ DOMAIN frames = 1..l
  OBVIOUS
<1>2. PICK fs : fs = frames \o new
  OBVIOUS
<1>3. Len(fs) = l + k /\ \A i \in 1..l : fs[i] = frames[i]
  BY <1>1, <1>2
<1>4. PICK i \in 1..l : Final(frames[i])
  BY <1>1 DEF Finished
<1>5. i \notin 1..(l + k - 1)
  BY <1>1, <1>2, <1>3, <1>4 DEF OrderlyFrames
<1>6. k = 0
  BY <1>1, <1>5
<1>7. Len(new) = 0
  BY <1>1, <1>6
<1> QED
  BY <1>7, EmptySeq

\* The chunk that a decoder takes, when everything before it is decoded.
UpToDate ==
  /\ from = Len(frames) + 1 /\ ~ctx.processed /\ ~Finished(frames)
  /\ ArgsOf(ctx.args, frames, Len(frames))

ChunkDone(d, fs, l, h) ==
  /\ Decodes(d, fs, l, h) /\ fs \in Seq(Frame) /\ l <= h
  /\ d.err <=> HasError(fs)
  /\ d.processed => Finished(fs)

LEMMA ChunkDecoded ==
  ASSUME SentOnce, UpToDate, NEW c \in Chunk, OrderlyFrames(frames \o c.new),
         NEW fs, fs = frames \o c.new, NEW l \in Nat, l = Len(frames), NEW h \in Nat, h = Len(fs),
         NEW d, d = Decoded(fs)
  PROVE  ChunkDone(d, fs, l, h)
<1>0. frames \in Seq(Frame) /\ ctx \in CtxSet /\ c.new \in Seq(Frame)
  BY ChunkType DEF SentOnce
<1>1. Extended(fs, l, h)
  BY <1>0, SoFarMore
<1>2. /\ fs \in Seq(Frame) /\ l <= h /\ DOMAIN fs = 1..h /\ DOMAIN frames = 1..l
      /\ \A i \in 1..l : fs[i] = frames[i]
  BY <1>1 DEF Extended
<1>3. /\ from = l + 1 /\ ~ctx.processed /\ ~Finished(frames) /\ ArgsOf(ctx.args, frames, l)
  BY DEF UpToDate
<1>4. ArgsOf(ctx.args, fs, l)
  BY <1>2, <1>3 DEF ArgsOf
<1>5. Decodes(d, fs, l, h)
  <2>1. l = from - 1 /\ l <= Len(fs) /\ OrderlyFrames(fs)
    BY <1>2, <1>3
  <2>2. Decodes(d, fs, l, Len(fs))
    BY <1>0, <1>2, <1>3, <1>4, <2>1, DecodeExact
  <2> QED
    BY <2>2
<1>6. \A i \in (l + 1)..h : i \in 1..h
  OBVIOUS
<1>7. d.err <=> HasError(fs)
  <2>1. ASSUME NEW i \in 1..h, fs[i].kind = "error" PROVE i \in (l + 1)..h
    <3>1. i \notin 1..l
      BY <1>2, <1>3, <2>1 DEF Finished, Final
    <3> QED
      BY <3>1
  <2>2. d.err <=> \E k \in (l + 1)..h : fs[k].kind = "error"
    BY <1>5 DEF Decodes
  <2> QED
    BY <1>2, <1>6, <2>1, <2>2 DEF HasError
<1>8. ASSUME d.processed PROVE Finished(fs)
  <2>1. PICK k \in (l + 1)..h : LastTool(fs[k])
    BY <1>5, <1>8 DEF Decodes
  <2>2. Final(fs[k])
    BY <2>1 DEF LastTool, Final
  <2>3. k \in DOMAIN fs
    BY <1>2, <1>6
  <2> QED
    BY <2>2, <2>3 DEF Finished
<1> QED
  BY <1>2, <1>5, <1>7, <1>8 DEF ChunkDone

\* The first messages go to the client.
LEMMA FirstBatch ==
  ASSUME StreamInv, stream, Keeping, HasText(frames), ~Finished(frames),
         NEW r, r = process_messages(api, events, first.result)
  PROVE  Going(api, r, SoFar(frames), Called(frames)) /\ r.started
<1>0. api \in Apis /\ frames \in Seq(Frame) /\ OrderlyFrames(frames) /\ events = FreshEvents
  BY DEF StreamInv, SentOnce, Keeping
<1>1. PICK l \in Nat : l = Len(frames) /\ DOMAIN frames = 1..l
  BY <1>0
<1>2. PICK ms : ms = first.result
  OBVIOUS
<1>3. Exact(ms, frames, 0, l) /\ Fine(ms, 0, l) /\ 0 \in Nat /\ 0 + 1 = 1
  BY <1>1, <1>2 DEF Keeping, Exact
<1>4. PICK t \in 1..l : frames[t].kind = "text"
  BY <1>1 DEF HasText
<1>5. Going(api, events, {}, {})
  BY <1>0, StartsGoing
<1>6. Plays(events, {}, ms)
  <2>1. CallsBefore({}, frames, 0)
    BY DEF CallsBefore
  <2>2. HasBegun(events, frames, 0, l)
    BY <1>3, <1>4 DEF HasBegun
  <2>3. l <= Len(frames)
    BY <1>1
  <2> QED
    BY <1>0, <1>3, <2>1, <2>2, <2>3, ExactPlays
<1>7. /\ Shown(api, ms, Len(ms)) = {n \in (0 + 1)..l : Wanted(api, frames, n)}
      /\ Calls(ms, Len(ms)) = {n \in (0 + 1)..l : "tool" \in Says(frames, n)}
      /\ Ends(ms, Len(ms)) <=> \E n \in (0 + 1)..l : "end" \in Says(frames, n)
      /\ (\E n \in (0 + 1)..l : frames[n].kind = "text")
           => \E j \in 1..Len(ms) : ms[j].kind = "text"
  <2>1. Shows(api, ms, frames, 0, l)
    BY <1>3, ExactShown
  <2> QED
    BY <2>1 DEF Shows
<1>8. Handled(api, events, {}, {}, ms, Len(ms), r)
  <2>1. r = process_messages(api, events, ms)
    BY <1>2
  <2>2. \A x \in {} : x \in Nat /\ x <= 0
    OBVIOUS
  <2> QED
    BY <1>0, <1>1, <1>3, <1>5, <1>6, <2>1, <2>2, ProcessGoing
<1>9. ~Ends(ms, Len(ms))
  <2>1. ASSUME NEW n \in 1..l PROVE "end" \notin Says(frames, n)
    BY <1>0, <1>1, SaysEnd DEF Finished
  <2> QED
    BY <1>3, <1>7, <2>1
<1>10. /\ {} \cup Shown(api, ms, Len(ms)) = SoFar(frames)
       /\ {} \cup Calls(ms, Len(ms)) = Called(frames)
  BY <1>1, <1>3, <1>7 DEF SoFar, Called
<1>11. \E j \in 1..Len(ms) : ms[j].kind = "text"
  BY <1>3, <1>4, <1>7
<1> QED
  BY <1>8, <1>9, <1>10, <1>11 DEF Handled

LEMMA FirstStream ==
  ASSUME StreamInv, stream, SentOnce', NEW c \in Chunk, OrderlyChunk(c), SteadyChunk(c),
         ReceiveFirst(c)
  PROVE  StreamInv'
<1>0. /\ api \in Apis /\ frames \in Seq(Frame) /\ phase = "first" /\ InFirst /\ SentOnce
      /\ first \in FirstSet /\ stream' = stream /\ api' = api /\ events' = events
  BY DEF StreamInv, SentOnce, ReceiveFirst
<1>1. PICK fs : fs = frames \o c.new
  OBVIOUS
<1>2. frames' = fs /\ OrderlyFrames(fs) /\ c.new \in Seq(Frame) /\ fs \in Seq(Frame)
  BY <1>0, <1>1, ChunkType DEF ReceiveFirst, Buffered, OrderlyChunk
<1>3. CASE TooShort(c)
  <2>1. c.new = <<>>
    BY <1>3 DEF TooShort, Chunk
  <2>2. frames' = frames /\ UNCHANGED <<from, ctx, first, phase>>
    BY <1>0, <1>1, <1>2, <1>3, <2>1 DEF ReceiveFirst
  <2>3. InFirst'
    BY <1>0, <2>2 DEF InFirst, Keeping
  <2> QED
    BY <1>0, <1>2, <2>2, <2>3 DEF StreamInv
<1>4. CASE ~TooShort(c)
  <2>0. /\ from = Len(frames) + 1 /\ ~first.taken /\ ~first.ready /\ ~ctx.seen
        /\ ~HasText(frames) /\ events = FreshEvents
        /\ Exact(first.result, frames, 0, Len(frames)) /\ ArgsOf(ctx.args, frames, Len(frames))
        /\ ctx.processed => Finished(frames)
    BY <1>0 DEF InFirst, Keeping
  <2>1. ~Finished(frames)
    <3> SUFFICES ASSUME Finished(frames) PROVE FALSE
      OBVIOUS
    <3>1. c.new = <<>>
      BY <1>0, <1>1, <1>2, OrderlyEnds
    <3>2. fs = frames
      BY <1>0, <1>1, <3>1
    <3>3. c.part = "none"
      BY <1>1, <3>2 DEF OrderlyChunk
    <3> QED
      BY <1>4, <2>0, <3>1, <3>3 DEF TooShort
  <2>2. PICK l \in Nat, h \in Nat : l = Len(frames) /\ h = Len(fs)
    BY <1>0, <1>2
  <2>d. PICK d : d = Decoded(fs)
    OBVIOUS
  <2>3. /\ l <= h /\ d \in DecSet /\ d.frames = fs
        /\ d.err <=> HasError(fs)
        /\ d.processed => Finished(fs)
        /\ d.seen <=> ctx.seen \/ \E k \in (l + 1)..h : fs[k].kind = "text"
        /\ ArgsOf(d.args, fs, h)
        /\ ~d.err => Exact(d.msgs, fs, l, h)
    <3>1. UpToDate
      BY <2>0, <2>1 DEF UpToDate
    <3>2. OrderlyFrames(frames \o c.new)
      BY <1>1, <1>2
    <3>3. ChunkDone(d, fs, l, h)
      BY <1>0, <1>1, <2>2, <2>d, <3>1, <3>2, ChunkDecoded
    <3> QED
      BY <3>3 DEF ChunkDone, Decodes
  <2>4. /\ Decode(d)
        /\ phase' = IF d.err THEN "failed" ELSE IF first'.ready THEN "rest" ELSE "first"
    BY <1>1, <1>4, <2>d DEF ReceiveFirst
  <2>5. CASE d.err
    BY <1>0, <1>2, <2>0, <2>4, <2>5 DEF StreamInv
  <2>6. CASE ~d.err
    <3>1. PICK a, b : a = first.result /\ b = d.msgs
      OBVIOUS
    <3>2. Exact(b, fs, l, h) /\ Exact(a, fs, 0, l)
      <4>1. Exact(a, frames, 0, l) /\ 0 \in Nat
        BY <2>0, <2>2, <3>1
      <4>2. Exact(a, fs, 0, l)
        BY <1>0, <1>1, <1>2, <2>2, <4>1, ExactPrefix
      <4> QED
        BY <2>3, <2>6, <3>1, <4>2
    <3>3. a \in Seq(MsgSet) /\ b \in Seq(MsgSet)
      BY <3>2 DEF Exact, Fine
    <3>4. FirstWith(b) = a \o b
      <4>1. CASE b = <<>>
        <5>1. FirstWith(b) = a
          BY <3>1, <4>1 DEF FirstWith, Kept
        <5>2. a \o <<>> = a
          BY <3>3
        <5> QED
          BY <4>1, <5>1, <5>2
      <4>2. CASE b # <<>>
        <5>1. Kept(b)
          BY <2>0, <4>2 DEF Kept
        <5> QED
          BY <3>1, <5>1 DEF FirstWith
      <4> QED
        BY <4>1, <4>2
    <3>5. PICK q : q = a \o b
      OBVIOUS
    <3>6. Exact(q, fs, 0, h)
      BY <2>3, <3>2, <3>5, ExactJoin
    <3>7. d.seen <=> HasText(fs)
      <4>1. DOMAIN fs = 1..h /\ DOMAIN frames = 1..l /\ \A i \in 1..l : fs[i] = frames[i]
        <5>1. Extended(fs, l, h)
          BY <1>0, <1>1, <1>2, <2>2, SoFarMore
        <5> QED
          BY <5>1 DEF Extended
      <4>2. \A i : i \in 1..h <=> i \in 1..l \/ i \in (l + 1)..h
        BY <2>3
      <4> QED
        BY <2>0, <2>3, <4>1, <4>2 DEF HasText
    <3>8. d.seen => q # <<>>
      <4> SUFFICES ASSUME d.seen, q = <<>> PROVE FALSE
        OBVIOUS
      <4>1. PICK t \in 1..h : fs[t].kind = "text"
        BY <1>2, <2>2, <3>7 DEF HasText
      <4>2. "text" \in Says(fs, t) /\ t \in (0 + 1)..h
        BY <4>1, SaysWhat
      <4>3. \E k \in DOMAIN q : q[k].kind = "text"
        BY <3>6, <4>2 DEF Exact
      <4> QED
        BY <4>3
    <3>9. first' = [first EXCEPT !.result = q, !.ready = d.seen]
      <4>1. first' = [first EXCEPT !.result = q, !.ready = first.ready \/ (q # <<>> /\ ~first.taken /\ d.seen)]
        BY <2>4, <2>6, <3>1, <3>4, <3>5 DEF Decode
      <4>2. (first.ready \/ (q # <<>> /\ ~first.taken /\ d.seen)) = d.seen
        <5>1. d.seen \in BOOLEAN
          BY <2>3 DEF DecSet
        <5> QED
          BY <2>0, <3>8, <5>1
      <4> QED
        BY <4>1, <4>2
    <3>10. first'.result = q /\ first'.ready = d.seen /\ first'.taken = FALSE
      BY <1>0, <2>0, <3>9 DEF FirstSet
    <3>11. from' = h + 1 /\ ctx'.seen = d.seen /\ ctx'.processed = d.processed /\ ctx'.args = d.args
      BY <2>2, <2>3, <2>4, <2>6 DEF Decode, CtxOf
    <3>12. Keeping'
      BY <1>0, <1>2, <2>0, <2>2, <3>6, <3>10, <3>11 DEF Keeping
    <3>13. ArgsOf(ctx.args, frames, Len(frames))'
      BY <1>2, <2>2, <2>3, <3>11
    <3>14. CASE d.seen
      <4>1. phase' = "rest"
        BY <2>4, <2>6, <3>10, <3>14
      <4>2. ~Finished(fs) /\ HasText(fs)
        BY <1>0, <1>1, <3>7, <3>14 DEF SteadyChunk
      <4>3. ~d.processed
        BY <2>3, <4>2
      <4>4. InRest'
        BY <1>2, <3>10, <3>11, <3>12, <3>13, <3>14, <4>2, <4>3 DEF InRest
      <4> QED
        BY <1>0, <1>2, <4>1, <4>4 DEF StreamInv
    <3>15. CASE ~d.seen
      <4>1. phase' = "first"
        BY <2>4, <2>6, <3>10, <3>15
      <4>2. InFirst'
        BY <1>2, <2>3, <3>7, <3>10, <3>11, <3>12, <3>13, <3>15 DEF InFirst
      <4> QED
        BY <1>0, <1>2, <4>1, <4>2 DEF StreamInv
    <3> QED
      BY <3>14, <3>15
  <2> QED
    BY <2>5, <2>6
<1> QED
  BY <1>3, <1>4

\* The call is processed if and only if there was one.
LEMMA ProcessedCalled ==
  ASSUME NEW fs \in Seq(Frame), OrderlyFrames(fs), Finished(fs), ~HasError(fs),
         NEW l \in Nat, NEW h \in Nat, h = Len(fs), l < h
  PROVE  (\E k \in (l + 1)..h : LastTool(fs[k])) <=> Called(fs) # {}
<1>1. DOMAIN fs = 1..h /\ h \in 1..h /\ h \in (l + 1)..h
  OBVIOUS
<1>2. Final(fs[h]) /\ fs[h].kind # "error"
  <2>1. PICK i \in 1..h : Final(fs[i])
    BY <1>1 DEF Finished
  <2>2. i = h
    BY <2>1 DEF OrderlyFrames
  <2> QED
    BY <1>1, <2>1, <2>2 DEF HasError
<1>3. ASSUME NEW k \in (l + 1)..h, LastTool(fs[k]) PROVE Called(fs) # {}
  <2>1. k \in 1..h
    OBVIOUS
  <2>2. "tool" \in Says(fs, k)
    BY <1>1, <1>3, <2>1 DEF LastTool, Says, OrderlyFrames
  <2> QED
    BY <2>1, <2>2 DEF Called
<1>4. ASSUME Called(fs) # {} PROVE \E k \in (l + 1)..h : LastTool(fs[k])
  <2>1. PICK n \in 1..h : "tool" \in Says(fs, n)
    BY <1>4 DEF Called
  <2>2. IsTool(fs[n])
    BY <2>1, SaysWhat
  <2>3. IsTool(fs[h])
    <3>1. CASE n = h
      BY <2>2, <3>1
    <3>2. CASE n # h
      <4>1. n < h
        BY <3>2
      <4>2. fs[h].kind = "tool"
        BY <1>1, <2>2, <4>1, ToolsLast
      <4> QED
        BY <4>2 DEF IsTool
    <3> QED
      BY <3>1, <3>2
  <2>4. LastTool(fs[h])
    BY <1>2, <2>3 DEF LastTool, IsTool, Final
  <2> QED
    BY <1>1, <2>4
<1> QED
  BY <1>3, <1>4

LEMMA RestStream ==
  ASSUME StreamInv, stream, SentOnce', NEW c \in Chunk, OrderlyChunk(c), SteadyChunk(c),
         ReceiveRest(c)
  PROVE  StreamInv'
<1>0. /\ api \in Apis /\ frames \in Seq(Frame) /\ phase = "rest" /\ InRest /\ SentOnce
      /\ first \in FirstSet /\ stream' = stream /\ api' = api /\ events \in EvState
  BY DEF StreamInv, SentOnce, ReceiveRest, Clean
<1>1. PICK fs : fs = frames \o c.new
  OBVIOUS
<1>2. /\ frames' = fs /\ OrderlyFrames(fs) /\ c.new \in Seq(Frame) /\ fs \in Seq(Frame)
      /\ c.new # <<>> /\ c.part = "none"
  BY <1>0, <1>1, ChunkType DEF ReceiveRest, Buffered, OrderlyChunk, SteadyChunk
<1>3. ~TooShort(c)
  BY <1>2 DEF TooShort, Chunk
<1>4. ~Finished(frames)
  BY <1>0, <1>1, <1>2, OrderlyEnds
<1>5. ~HasError(frames)
  BY <1>4 DEF HasError, Finished, Final
<1>6. /\ ~ctx.processed /\ ArgsOf(ctx.args, frames, Len(frames))
      /\ (Keeping /\ first.ready /\ HasText(frames)) \/ Sending
  BY <1>0, <1>5 DEF InRest, Erred
<1>7. from = Len(frames) + 1
  BY <1>6 DEF Keeping, Sending
<1>8. PICK l \in Nat, h \in Nat : l = Len(frames) /\ h = Len(fs)
  BY <1>0, <1>2
<1>d. PICK d : d = Decoded(fs)
  OBVIOUS
<1>9. /\ l <= h /\ d \in DecSet /\ d.frames = fs
      /\ d.err <=> HasError(fs)
      /\ d.processed <=> \E k \in (l + 1)..h : LastTool(fs[k])
      /\ d.processed => Finished(fs)
      /\ ArgsOf(d.args, fs, h)
      /\ ~d.err => Exact(d.msgs, fs, l, h)
  <2>1. UpToDate
    BY <1>4, <1>6, <1>7 DEF UpToDate
  <2>2. OrderlyFrames(frames \o c.new)
    BY <1>1, <1>2
  <2>3. ChunkDone(d, fs, l, h)
    BY <1>0, <1>1, <1>8, <1>d, <2>1, <2>2, ChunkDecoded
  <2> QED
    BY <2>3 DEF ChunkDone, Decodes
<1>10. /\ ctx' = CtxOf(d)
       /\ from' = IF d.err THEN from ELSE Len(d.frames) + 1
       /\ events' = IF d.err THEN ErrorPiece ELSE Piece(d, c)
       /\ first' = IF d.err THEN first ELSE FirstLeft(c)
       /\ phase' = IF events'.ended /\ ~d.err THEN "tail" ELSE "rest"
  BY <1>1, <1>3, <1>d DEF ReceiveRest
<1>11. CASE d.err
  <2>1. \E B, D : Going(api, events, B, D)
    <3>1. CASE Keeping
      BY <1>0, <3>1, StartsGoing DEF Keeping
    <3>2. CASE Sending
      BY <3>2 DEF Sending
    <3> QED
      BY <1>6, <3>1, <3>2
  <2>2. PICK B, D : Going(api, events, B, D)
    BY <2>1
  <2>3. /\ ErrorPiece \in EvState
        /\ IF api = "openai" THEN \E C : OpenAiEnded(ErrorPiece, C) ELSE ~None(ErrorPiece.out, "error")
    BY <1>0, <2>2, ErrorSent
  <2>4. events' = ErrorPiece /\ phase' = "rest"
    BY <1>10, <1>11
  <2>5. Erred(events)'
    BY <1>0, <1>2, <1>9, <1>11, <2>3, <2>4 DEF Erred
  <2> QED
    BY <1>0, <1>2, <2>4, <2>5 DEF StreamInv, InRest
<1>12. CASE ~d.err
  <2>1. Returned(d.msgs) = d.msgs
    <3>1. ~Kept(d.msgs)
      <4>1. CASE Sending
        BY <4>1 DEF Kept, Sending
      <4>2. CASE Keeping /\ first.ready /\ HasText(frames)
        <5>1. first.result # <<>>
          <6> SUFFICES ASSUME first.result = <<>> PROVE FALSE
            OBVIOUS
          <6>1. PICK t \in 1..l : frames[t].kind = "text"
            BY <1>0, <1>8, <4>2 DEF HasText
          <6>2. "text" \in Says(frames, t) /\ t \in (0 + 1)..l
            BY <6>1, SaysWhat
          <6>3. \E k \in DOMAIN first.result : first.result[k].kind = "text"
            BY <1>8, <4>2, <6>2 DEF Keeping, Exact
          <6> QED
            BY <6>3
        <5> QED
          BY <4>2, <5>1 DEF Kept
      <4> QED
        BY <1>6, <4>1, <4>2
    <3> QED
      BY <3>1 DEF Returned
  <2>2. PICK s : s = IF TakesFirst(c) THEN process_messages(api, events, first.result) ELSE events
    OBVIOUS
  <2>3. /\ Going(api, s, SoFar(frames), Called(frames)) /\ s.started
        /\ FirstLeft(c).taken /\ FirstLeft(c).result = <<>>
    <3>1. CASE Sending
      <4>1. ~TakesFirst(c) /\ s = events /\ FirstLeft(c) = first
        BY <2>2, <3>1 DEF TakesFirst, Sending, FirstLeft
      <4> QED
        BY <3>1, <4>1 DEF Sending
    <3>2. CASE Keeping /\ HasText(frames)
      <4>1. first.result # <<>>
        <5> SUFFICES ASSUME first.result = <<>> PROVE FALSE
          OBVIOUS
        <5>1. PICK t \in 1..l : frames[t].kind = "text"
          BY <1>0, <1>8, <3>2 DEF HasText
        <5>2. "text" \in Says(frames, t) /\ t \in (0 + 1)..l
          BY <5>1, SaysWhat
        <5>3. \E k \in DOMAIN first.result : first.result[k].kind = "text"
          BY <1>8, <3>2, <5>2 DEF Keeping, Exact
        <5> QED
          BY <5>3
      <4>2. TakesFirst(c)
        BY <1>2, <4>1 DEF TakesFirst
      <4>3. s = process_messages(api, events, first.result)
        BY <2>2, <4>2
      <4>4. Going(api, s, SoFar(frames), Called(frames)) /\ s.started
        BY <1>4, <3>2, <4>3, FirstBatch
      <4>5. FirstLeft(c) = [first EXCEPT !.result = <<>>, !.taken = TRUE]
        BY <4>2 DEF FirstLeft
      <4> QED
        BY <1>0, <4>4, <4>5 DEF FirstSet
    <3> QED
      BY <1>6, <3>1, <3>2
  <2>4. PICK r : r = process_messages(api, s, d.msgs)
    OBVIOUS
  <2>5. events' = r /\ first'.taken /\ first'.result = <<>> /\ from' = h + 1
    BY <1>8, <1>9, <1>10, <1>12, <2>1, <2>2, <2>3, <2>4 DEF Piece
  <2>6. s \in EvState
    BY <1>0, <2>3, GoingType
  <2>7. PICK ms : ms = d.msgs /\ Exact(ms, fs, Len(frames), Len(fs)) /\ ~HasError(fs)
    BY <1>8, <1>9, <1>12
  <2>8. /\ Finished(fs) => Over(api, r, SoFar(fs), Called(fs))
        /\ ~Finished(fs) => Going(api, r, SoFar(fs), Called(fs)) /\ r.started
    BY <1>0, <1>1, <1>2, <1>4, <2>3, <2>4, <2>6, <2>7, BatchSent
  <2>9. ctx'.processed = d.processed /\ ctx'.args = d.args
    BY <1>10 DEF CtxOf
  <2>10. CASE Finished(fs)
    <3>1. Over(api, r, SoFar(fs), Called(fs)) /\ r.ended = TRUE
      BY <1>0, <2>8, <2>10, GoingType
    <3>2. phase' = "tail"
      BY <1>10, <1>12, <2>5, <3>1
    <3>3. l < h
      <4>1. h = l + Len(c.new) /\ Len(c.new) \in Nat /\ Len(c.new) # 0
        BY <1>0, <1>1, <1>2, <1>8
      <4> QED
        BY <4>1
    <3>4. d.processed <=> Called(fs) # {}
      BY <1>2, <1>8, <1>9, <2>7, <2>10, <3>3, ProcessedCalled
    <3>5. SoFar(frames)' = SoFar(fs)
      BY <1>0, <1>2 DEF SoFar
    <3>6. Closed(events)'
      BY <1>0, <1>2, <2>5, <2>9, <3>1, <3>4, <3>5 DEF Closed
    <3> QED
      BY <1>0, <1>2, <3>2, <3>6 DEF StreamInv
  <2>11. CASE ~Finished(fs)
    <3>1. Going(api, r, SoFar(fs), Called(fs)) /\ r.started /\ r.ended = FALSE
      BY <1>0, <2>8, <2>11, GoingType
    <3>2. phase' = "rest"
      BY <1>10, <2>5, <3>1
    <3>3. SoFar(frames)' = SoFar(fs)
      BY <1>0, <1>2 DEF SoFar
    <3>4. Sending'
      BY <1>0, <1>2, <1>8, <2>5, <3>1, <3>3 DEF Sending
    <3>5. ~ctx'.processed /\ ArgsOf(ctx.args, frames, Len(frames))'
      BY <1>2, <1>8, <1>9, <2>9, <2>11
    <3>6. InRest'
      BY <1>2, <2>11, <3>4, <3>5 DEF InRest
    <3> QED
      BY <1>0, <1>2, <3>2, <3>6 DEF StreamInv
  <2> QED
    BY <2>10, <2>11
<1> QED
  BY <1>11, <1>12

LEMMA SteadyIsNext == [SteadyNext]_vars => [Next]_vars
BY DEF SteadyNext, Next, Receives, Closes

LEMMA InitStream == Init => StreamInv
<1> SUFFICES ASSUME Init PROVE StreamInv
  OBVIOUS
<1>1. SentOnce
  BY InitSentOnce
<1>2. api \in Apis /\ stream \in BOOLEAN
  BY DEF Init, Apis
<1>3. ASSUME stream
      PROVE  OrderlyFrames(frames) /\ phase = "first" /\ InFirst
  <2>1. frames = <<>> /\ Len(frames) = 0 /\ DOMAIN frames = {} /\ from = 0 + 1
    BY DEF Init
  <2>2. OrderlyFrames(frames) /\ ~HasText(frames)
    BY <2>1 DEF OrderlyFrames, HasText
  <2>3. first.result = <<>> /\ ~first.ready /\ ~first.taken
    BY <1>3 DEF Init
  <2>4. Exact(<<>>, frames, 0, 0)
    BY <2>1 DEF Exact, Fine
  <2>5. Keeping
    BY <2>1, <2>3, <2>4 DEF Keeping, Init
  <2>6. ~ctx.seen /\ ~ctx.processed /\ ctx.args = 0
    BY DEF Init
  <2>7. ArgsOf(ctx.args, frames, Len(frames))
    BY <2>1, <2>6 DEF ArgsOf
  <2> QED
    BY <1>3, <2>2, <2>3, <2>5, <2>6, <2>7 DEF InFirst, Init
<1> QED
  BY <1>1, <1>2, <1>3 DEF StreamInv

LEMMA NextStream == StreamInv /\ [SteadyNext]_vars => StreamInv'
<1> SUFFICES ASSUME StreamInv, [SteadyNext]_vars PROVE StreamInv'
  OBVIOUS
<1>0. SentOnce /\ api \in Apis /\ stream \in BOOLEAN
  BY DEF StreamInv
<1>1. SentOnce'
  BY <1>0, SteadyIsNext, NextSentOnce
<1>2. api' = api /\ stream' = stream
  BY DEF SteadyNext, Receives, Closes, ReceiveFirst, ReceiveRest, ReceiveAll, EndsFirst, EndsRest,
         LastPieceSent, SendCollected, ReadFails, vars
<1>3. CASE ~stream
  BY <1>0, <1>1, <1>2, <1>3 DEF StreamInv
<1>4. CASE stream
  <2>0. phase \in {"first", "rest", "tail", "done", "failed"} /\ OrderlyFrames(frames)
    BY <1>4 DEF StreamInv
  <2>1. ASSUME NEW c \in Chunk, OrderlyChunk(c), SteadyChunk(c), Receives(c) PROVE StreamInv'
    <3>1. CASE ReceiveFirst(c)
      BY <1>1, <1>4, <2>1, <3>1, FirstStream
    <3>2. CASE ReceiveRest(c)
      BY <1>1, <1>4, <2>1, <3>2, RestStream
    <3>3. CASE ReceiveAll(c)
      BY <2>0, <3>3 DEF ReceiveAll
    <3> QED
      BY <2>1, <3>1, <3>2, <3>3 DEF Receives
  <2>2. CASE EndsFirst
    <3>1. phase = "first" /\ phase' = "failed" /\ UNCHANGED <<api, stream, decoderVars, events>>
      BY <2>2 DEF EndsFirst
    <3>2. events' = FreshEvents /\ frames' = frames
      BY <1>4, <3>1 DEF StreamInv, InFirst, Keeping, decoderVars
    <3> QED
      BY <1>0, <1>1, <1>2, <2>0, <3>1, <3>2 DEF StreamInv
  <2>3. CASE Finished(frames) /\ EndsRest
    <3>1. phase = "rest" /\ phase' = "tail" /\ UNCHANGED <<api, stream, decoderVars, events>>
      BY <2>3 DEF EndsRest
    <3>2. Erred(events) /\ frames' = frames
      BY <1>4, <2>3, <3>1 DEF StreamInv, InRest, decoderVars
    <3>3. Erred(events)'
      BY <3>1, <3>2 DEF Erred
    <3> QED
      BY <1>0, <1>1, <1>2, <2>0, <3>1, <3>2, <3>3 DEF StreamInv
  <2>4. CASE LastPieceSent
    <3>1. /\ phase = "tail" /\ phase' = "done" /\ UNCHANGED <<api, stream, decoderVars>>
          /\ events' = LastPiece(api, events, ctx.processed)
      BY <2>4 DEF LastPieceSent
    <3>2. PICK s : s = events /\ (Closed(s) \/ Erred(s))
      BY <1>4, <3>1 DEF StreamInv
    <3>3. frames' = frames /\ ctx' = ctx /\ api' = api
      BY <3>1 DEF decoderVars
    <3>4. SoFar(frames)' = SoFar(frames)
      BY <3>3 DEF SoFar
    <3>5. Closed(s) => Over(api', s, SoFar(frames)', Called(frames')) /\ (ctx'.processed <=> Called(frames') # {})
      BY <3>3, <3>4 DEF Closed
    <3>6. Erred(s) => /\ HasError(frames') /\ s \in EvState
                      /\ IF api' = "openai" THEN \E B : OpenAiEnded(s, B) ELSE ~None(s.out, "error")
      BY <3>3 DEF Erred
    <3>7. events' = LastPiece(api', s, ctx'.processed)
      BY <3>1, <3>2, <3>3
    <3>8. (\E t : /\ Closed(t) \/ Erred(t)
                  /\ events = LastPiece(api, t, ctx.processed))'
      BY <3>2, <3>5, <3>6, <3>7 DEF Closed, Erred
    <3> QED
      BY <1>0, <1>1, <1>2, <2>0, <3>1, <3>3, <3>8 DEF StreamInv
  <2>5. CASE SendCollected \/ ReadFails
    BY <2>0, <2>5 DEF SendCollected, ReadFails
  <2>6. CASE UNCHANGED vars
    <3>1. /\ frames' = frames /\ ctx' = ctx /\ api' = api /\ phase' = phase /\ events' = events
          /\ first' = first /\ from' = from
      BY <2>6 DEF vars
    <3> QED
      BY <1>1, <1>2, <3>1 DEF StreamInv, InFirst, InRest, Keeping, Sending, Closed, Erred, SoFar
  <2> QED
    BY <2>1, <2>2, <2>3, <2>4, <2>5, <2>6 DEF SteadyNext, Closes
<1> QED
  BY <1>0, <1>3, <1>4

-----------------------------------------------------------------------------
(* What an orderly stream on a steady network gets *)

SteadySteps == Init /\ [][SteadyNext]_vars

LEMMA SteadyStream == SteadySteps => []StreamInv
BY InitStream, NextStream, PTL DEF SteadySteps

LEMMA SpecSteps == SteadySpec => SteadySteps
BY DEF SteadySpec, SteadySteps

LEMMA ExpectsWanted ==
  ASSUME api \in Apis, stream, frames \in Seq(Frame), NEW i \in DOMAIN frames
  PROVE  Expects(i) <=> Wanted(api, frames, i)
<1>1. frames[i] \in Frame
  OBVIOUS
<1>2. PICK k \in FrameKind : k = frames[i].kind
  BY <1>1, FrameType
<1>3. CASE k = "tool"
  BY <1>2, <1>3 DEF Expects, Wanted, Says, Carries, Apis
<1>4. CASE k = "whole"
  BY <1>2, <1>4 DEF Expects, Wanted, Says, Carries, Apis
<1>5. CASE k = "web"
  BY <1>2, <1>5 DEF Expects, Wanted, Says, Carries, Apis
<1>6. CASE k \in {"blank", "error"}
  BY <1>2, <1>6 DEF Expects, Wanted, Says, Carries, Apis
<1>7. CASE k \in {"text", "think", "sign", "redacted", "end"}
  BY <1>2, <1>7 DEF Expects, Wanted, Says, Carries, Apis
<1> QED
  BY <1>3, <1>4, <1>5, <1>6, <1>7 DEF FrameKind

\* An event without a frame.
LEMMA TidyMore ==
  ASSUME NEW s \in EvState, NEW B, Tidy(s.out, B), NEW e \in EventSet, e.n = 0
  PROVE  Emit(s, e) \in EvState /\ Emit(s, e).out = Append(s.out, e) /\ Tidy(Emit(s, e).out, B)
<1>1. Emit(s, e) \in EvState /\ Emit(s, e).out = Append(s.out, e)
  BY EmitIs
<1>2. Tidy(Append(s.out, e), B \cup ({e.n} \ {0}))
  BY TidyAppend
<1>3. B \cup ({e.n} \ {0}) = B
  OBVIOUS
<1> QED
  BY <1>1, <1>2, <1>3

LEMMA LastEvents ==
  ASSUME NEW p
  PROVE  /\ Event("done", 0, 0) \in EventSet /\ Event("done", 0, 0).n = 0
         /\ Event("done", 0, 0).type = "done"
         /\ Event("finish", 0, 0) \in EventSet /\ Event("finish", 0, 0).n = 0
         /\ Event("finish", 0, 0).type = "finish"
         /\ Event("message_stop", 0, 0) \in EventSet /\ Event("message_stop", 0, 0).n = 0
         /\ Event("message_stop", 0, 0).type = "message_stop"
         /\ StopReason(p) \in EventSet /\ StopReason(p).n = 0
         /\ StopReason(p).type = IF p THEN "tool_use" ELSE "end_turn"
<1>1. /\ "done" \in EventTypes /\ "finish" \in EventTypes /\ "message_stop" \in EventTypes
      /\ "tool_use" \in EventTypes /\ "end_turn" \in EventTypes /\ 0 \in Nat
  BY DEF EventTypes
<1>2. PICK type \in EventTypes : type = IF p THEN "tool_use" ELSE "end_turn"
  BY <1>1
<1>3. StopReason(p) = Event(type, 0, 0)
  BY <1>2 DEF StopReason
<1>4. StopReason(p) \in EventSet /\ StopReason(p).n = 0 /\ StopReason(p).type = type
  BY <1>1, <1>3, EventIs
<1>5. ASSUME NEW t \in EventTypes
      PROVE  Event(t, 0, 0) \in EventSet /\ Event(t, 0, 0).n = 0 /\ Event(t, 0, 0).type = t
  BY <1>1, EventIs
<1> QED
  BY <1>1, <1>2, <1>4, <1>5

\* The events are in order wherever the stream is.
LEMMA OverTidy ==
  ASSUME NEW a \in Apis, NEW s, NEW B, NEW D
  PROVE  /\ Going(a, s, B, D) => s \in EvState /\ Tidy(s.out, B)
         /\ Over(a, s, B, D) => s \in EvState /\ Tidy(s.out, B)
<1>1. ASSUME Going(a, s, B, D) PROVE s \in EvState /\ Tidy(s.out, B)
  <2>1. CASE a = "openai"
    BY <1>1, <2>1 DEF Going, OpenAiState, Begun
  <2>2. CASE a # "openai"
    BY <1>1, <2>2 DEF Going, AnthropicState, Plain, InCall, UnderWay, Message
  <2> QED
    BY <2>1, <2>2
<1>2. ASSUME Over(a, s, B, D), a = "anthropic" PROVE s \in EvState /\ Tidy(s.out, B)
  BY <1>2 DEF Over, AnthropicEnded, Stopped, Message
<1>3. ASSUME Over(a, s, B, D), a = "openai" PROVE s \in EvState /\ Tidy(s.out, B)
  <2>1. OpenAiEnded(s, B)
    BY <1>3 DEF Over
  <2>2. PICK out : Begun(out, B) /\ s.out = Append(out, Event("finish", 0, 0))
    BY <2>1 DEF OpenAiEnded
  <2>3. PICK e : e = Event("finish", 0, 0) /\ e \in EventSet /\ e.n = 0
    BY LastEvents
  <2>4. Tidy(Append(out, e), B \cup ({e.n} \ {0}))
    BY <2>2, <2>3, TidyAppend DEF Begun
  <2>5. B \cup ({e.n} \ {0}) = B
    BY <2>3
  <2> QED
    BY <2>1, <2>2, <2>3, <2>4, <2>5 DEF OpenAiEnded
<1> QED
  BY <1>1, <1>2, <1>3 DEF Apis

LEMMA LastTidy ==
  ASSUME NEW a \in Apis, NEW s \in EvState, NEW B, Tidy(s.out, B), NEW p
  PROVE  Tidy(LastPiece(a, s, p).out, B)
<1>1. PICK done, stop, reason :
        done = Event("done", 0, 0) /\ stop = Event("message_stop", 0, 0) /\ reason = StopReason(p)
  OBVIOUS
<1>2. /\ done \in EventSet /\ done.n = 0 /\ stop \in EventSet /\ stop.n = 0
      /\ reason \in EventSet /\ reason.n = 0
  BY <1>1, LastEvents
<1>3. CASE a = "openai"
  <2>1. Tidy(Emit(s, done).out, B)
    BY <1>2, TidyMore
  <2> QED
    BY <1>1, <1>3, <2>1 DEF LastPiece
<1>4. CASE a = "anthropic"
  <2>1. PICK t : t = Emit(s, reason)
    OBVIOUS
  <2>2. t \in EvState /\ Tidy(t.out, B)
    BY <1>2, <2>1, TidyMore
  <2>3. Tidy(Emit(t, stop).out, B)
    BY <1>2, <2>2, TidyMore
  <2> QED
    BY <1>1, <1>4, <2>1, <2>3 DEF LastPiece
<1> QED
  BY <1>3, <1>4 DEF Apis

LEMMA StreamFaithful == StreamInv => FaithfulResponse
<1> SUFFICES ASSUME StreamInv, stream, \A i \in DOMAIN frames : frames[i].kind # "error"
             PROVE  /\ Delivered \subseteq Expected
                    /\ InOrder(Delivered)
                    /\ \A n \in Delivered, i \in Expected : i < n => i \in Delivered
                    /\ phase = "done" => Delivered = Expected
  BY DEF FaithfulResponse
<1>0. api \in Apis /\ frames \in Seq(Frame)
  BY DEF StreamInv, SentOnce
<1>1. \A s : ~Erred(s)
  BY DEF Erred, HasError
<1>2. Expected = SoFar(frames)
  <2>1. DOMAIN frames = 1..Len(frames)
    BY <1>0
  <2> QED
    BY <1>0, <2>1, ExpectsWanted DEF Expected, SoFar
<1>3. ASSUME NEW B, Tidy(events.out, B) PROVE Delivered = B /\ InOrder(Delivered)
  <2>1. Delivered = B
    BY <1>3 DEF Tidy, Delivered, Numbers
  <2>2. 0 \notin Delivered
    BY DEF Delivered
  <2> QED
    BY <1>3, <2>1, <2>2 DEF InOrder, Tidy
<1>4. Tidy(<<>>, {}) /\ FreshEvents.out = <<>>
  BY DEF Tidy, Numbers, FreshEvents
<1>5. (phase # "done" /\ Tidy(events.out, {})) \/ Tidy(events.out, Expected)
  <2>1. CASE phase = "first"
    BY <1>4, <2>1 DEF StreamInv, InFirst, Keeping
  <2>2. CASE phase = "rest"
    <3>1. CASE Keeping
      BY <1>4, <2>2, <3>1 DEF Keeping
    <3>2. CASE Sending
      BY <1>0, <1>2, <3>2, OverTidy DEF Sending
    <3> QED
      BY <1>1, <2>2, <3>1, <3>2 DEF StreamInv, InRest
  <2>3. CASE phase = "tail"
    <3>1. Closed(events)
      BY <1>1, <2>3 DEF StreamInv
    <3> QED
      BY <1>0, <1>2, <3>1, OverTidy DEF Closed
  <2>4. CASE phase = "done"
    <3>1. PICK s : Closed(s) /\ events = LastPiece(api, s, ctx.processed)
      BY <1>1, <2>4 DEF StreamInv
    <3>2. s \in EvState /\ Tidy(s.out, Expected)
      BY <1>0, <1>2, <3>1, OverTidy DEF Closed
    <3> QED
      BY <1>0, <3>1, <3>2, LastTidy
  <2>5. CASE phase = "failed"
    BY <1>4, <2>5 DEF StreamInv
  <2>6. phase \in {"first", "rest", "tail", "done", "failed"}
    BY DEF StreamInv
  <2> QED
    BY <2>1, <2>2, <2>3, <2>4, <2>5, <2>6
<1>6. CASE phase # "done" /\ Tidy(events.out, {})
  BY <1>3, <1>6
<1>7. CASE Tidy(events.out, Expected)
  BY <1>3, <1>7
<1> QED
  BY <1>5, <1>6, <1>7

\* If an orderly upstream server's stream is cut into chunks by a steady
\* network, a streamed response brings the client the frames it is to carry:
\* those and no others, in order, without a gap, and all of them by its end.
THEOREM StreamCarriesAll == SteadySpec => []FaithfulResponse
<1>1. SteadySpec => []StreamInv
  BY SpecSteps, SteadyStream
<1> QED
  BY <1>1, StreamFaithful, PTL

LEMMA StreamOpenAi == StreamInv => OpenAiShape
<1> SUFFICES ASSUME StreamInv, stream, api = "openai", phase = "done"
             PROVE  /\ Len(events.out) > 2
                    /\ OnlyAt("role", 1)
                    /\ OnlyAt("finish", Len(events.out) - 1)
  BY DEF OpenAiShape
<1>1. PICK s : (Closed(s) \/ Erred(s)) /\ events = LastPiece(api, s, ctx.processed)
  BY DEF StreamInv
<1>2. \E B : OpenAiEnded(s, B)
  BY <1>1 DEF Closed, Erred, Over
<1>3. PICK B : OpenAiEnded(s, B)
  BY <1>2
<1>4. PICK e, f : e = Event("done", 0, 0) /\ f = Event("finish", 0, 0)
  OBVIOUS
<1>5. e \in EventSet /\ e.type = "done" /\ f \in EventSet /\ f.type = "finish"
  BY <1>4, LastEvents
<1>6. PICK out : Begun(out, B) /\ out # <<>> /\ s.out = Append(out, f)
  BY <1>3, <1>4 DEF OpenAiEnded
<1>7. s \in EvState /\ events = Emit(s, e)
  BY <1>1, <1>3, <1>4 DEF OpenAiEnded, LastPiece
<1>8. events.out = Append(s.out, e)
  BY <1>5, <1>7, EmitIs
<1>9. out \in Seq(EventSet) /\ Heads(out, "role") /\ None(out, "finish")
  BY <1>6 DEF Begun, Tidy
<1>10. PICK m \in Nat : m = Len(out) /\ m # 0
  BY <1>6, <1>9
<1>11. PICK q : q = Append(out, f)
  OBVIOUS
<1>12. /\ q \in Seq(EventSet) /\ Len(q) = m + 1 /\ DOMAIN out = 1..m
       /\ \A i \in 1..m : q[i] = out[i]
       /\ q[m + 1] = f
  BY <1>5, <1>9, <1>10, <1>11, Appended
<1>13. PICK z : z = Append(q, e)
  OBVIOUS
<1>14. PICK k \in Nat : k = m + 1
  BY <1>10
<1>15. /\ Len(z) = k + 1 /\ DOMAIN z = 1..(k + 1) /\ z[k + 1] = e
       /\ \A i \in 1..k : z[i] = q[i]
  BY <1>5, <1>12, <1>13, <1>14, Appended
<1>16. events.out = z
  BY <1>6, <1>8, <1>11, <1>13
<1>17. ASSUME NEW i \in 1..(k + 1)
       PROVE  /\ z[i].type = "role" <=> i = 1
              /\ z[i].type = "finish" <=> i = k
  <2>1. CASE i = k + 1
    BY <1>5, <1>10, <1>14, <1>15, <2>1
  <2>2. CASE i = k
    <3>1. z[i] = f
      BY <1>12, <1>14, <1>15, <2>2
    <3> QED
      BY <1>5, <1>10, <1>14, <2>2, <3>1
  <2>3. CASE i \in 1..m
    <3>1. i \in 1..k /\ z[i] = out[i]
      BY <1>12, <1>14, <1>15, <2>3
    <3>2. i # k
      BY <1>10, <1>14, <2>3
    <3> QED
      BY <1>9, <1>12, <2>3, <3>1, <3>2 DEF Heads, None
  <2>4. i = k + 1 \/ i = k \/ i \in 1..m
    BY <1>10, <1>14
  <2> QED
    BY <2>1, <2>2, <2>3, <2>4
<1>18. Len(z) > 2 /\ Len(z) - 1 = k
  BY <1>10, <1>14, <1>15
<1> QED
  BY <1>15, <1>16, <1>17, <1>18 DEF OnlyAt

\* On such a network OpenAI's stream has the role in its first event and in no
\* other, and one finish reason right before [DONE], errors included.
THEOREM OpenAiWellFormed == SteadySpec => []OpenAiShape
<1>1. SteadySpec => []StreamInv
  BY SpecSteps, SteadyStream
<1> QED
  BY <1>1, StreamOpenAi, PTL

LEMMA StreamAnthropic == StreamInv => AnthropicShape
<1> SUFFICES ASSUME StreamInv, stream, api = "anthropic", events.out # <<>>, ~Sent("error")
             PROVE  /\ Walked(events.out).ok
                    /\ OnlyAt("message_start", 1)
                    /\ phase = "done" => (Sent("tool_use") <=> Sent("json"))
  BY DEF AnthropicShape
<1>0. api \in Apis
  BY DEF StreamInv
<1>1. ASSUME NEW B, NEW open, NEW next, Message(events.out, B, open, next)
      PROVE  Walked(events.out).ok /\ OnlyAt("message_start", 1)
  <2>1. PICK w : w = At(open, next)
    OBVIOUS
  <2>2. events.out \in Seq(EventSet) /\ Walks(events.out, w) /\ Heads(events.out, "message_start")
    BY <1>1, <2>1 DEF Message, Tidy
  <2>3. Len(events.out) \in Nat
    BY <2>2
  <2>4. Walked(events.out) = w
    BY <2>2, <2>3, WalkRun
  <2> QED
    BY <2>1, <2>2, <2>4 DEF OnlyAt, Heads, At
<1>2. ~Erred(events)
  BY DEF Erred, None, Sent
<1>3. FreshEvents.out = <<>>
  BY DEF FreshEvents
<1>4. CASE phase # "done"
  <2>1. Sending \/ Closed(events)
    BY <1>2, <1>3, <1>4 DEF StreamInv, InFirst, InRest, Keeping
  <2>2. CASE Sending
    <3>1. AnthropicState(events, SoFar(frames), Called(frames))
      BY <2>2 DEF Sending, Going
    <3>2. \E open, next : Message(events.out, SoFar(frames), open, next)
      BY <3>1 DEF AnthropicState, Plain, InCall
    <3> QED
      BY <1>1, <1>4, <3>2
  <2>3. CASE Closed(events)
    <3>1. AnthropicEnded(events, SoFar(frames), Called(frames))
      BY <2>3 DEF Closed, Over
    <3>2. \E next : Message(events.out, SoFar(frames), "none", next)
      BY <3>1 DEF AnthropicEnded, Stopped
    <3> QED
      BY <1>1, <1>4, <3>2
  <2> QED
    BY <2>1, <2>2, <2>3
<1>5. CASE phase = "done"
  <2>1. PICK s : (Closed(s) \/ Erred(s)) /\ events = LastPiece(api, s, ctx.processed)
    BY <1>5 DEF StreamInv
  <2>2. s \in EvState
    BY <1>0, <2>1, GoingType DEF Closed, Erred
  <2>3. PICK e, f, p : e = StopReason(p) /\ f = Event("message_stop", 0, 0) /\ p = ctx.processed
    OBVIOUS
  <2>4. /\ e \in EventSet /\ e.type = (IF p THEN "tool_use" ELSE "end_turn") /\ e.n = 0
        /\ f \in EventSet /\ f.type = "message_stop" /\ f.n = 0
    BY <2>3, LastEvents
  <2>5. PICK t : t = Emit(s, e)
    OBVIOUS
  <2>6. t \in EvState /\ t.out = Append(s.out, e)
    BY <2>2, <2>4, <2>5, EmitIs
  <2>7. events = Emit(t, f)
    BY <2>1, <2>3, <2>5 DEF LastPiece
  <2>8. events.out = Append(t.out, f)
    BY <2>4, <2>6, <2>7, EmitIs
  <2>9. PICK out, mid : out = s.out /\ mid = t.out /\ out \in Seq(EventSet) /\ mid \in Seq(EventSet)
    BY <2>2, <2>6 DEF EvState
  <2>10. PICK m \in Nat : m = Len(out)
    BY <2>9
  <2>11. /\ DOMAIN out = 1..m /\ DOMAIN mid = 1..(m + 1) /\ Len(mid) = m + 1
         /\ \A i \in 1..m : mid[i] = out[i]
         /\ mid[m + 1] = e
    BY <2>4, <2>6, <2>9, <2>10, Appended
  <2>12. PICK k \in Nat : k = m + 1
    BY <2>10
  <2>13. PICK z : z = events.out
    OBVIOUS
  <2>14. /\ DOMAIN z = 1..(k + 1) /\ z[k + 1] = f /\ \A i \in 1..k : z[i] = mid[i]
    BY <2>4, <2>8, <2>9, <2>11, <2>12, <2>13, Appended
  <2>15. /\ \A i \in 1..m : i \in DOMAIN z /\ z[i] = out[i]
         /\ k \in DOMAIN z /\ z[k] = e
         /\ \A i \in DOMAIN z : i \in 1..m \/ i = k \/ i = k + 1
    BY <2>10, <2>11, <2>12, <2>14
  <2>16. None(out, "error")
    BY <2>11, <2>13, <2>15 DEF None, Sent
  <2>17. Closed(s)
    BY <2>1, <2>9, <2>16 DEF Erred
  <2>18. PICK B, D : B = SoFar(frames) /\ D = Called(frames)
    OBVIOUS
  <2>19. AnthropicEnded(s, B, D) /\ (p <=> D # {})
    BY <2>3, <2>17, <2>18 DEF Closed, Over
  <2>20. PICK next \in Nat : Message(out, B, "none", next) /\ out # <<>>
    BY <2>9, <2>19 DEF AnthropicEnded, Stopped
  <2>21. PICK w : w = At("none", next)
    OBVIOUS
  <2>22. Walks(out, w) /\ Heads(out, "message_start") /\ None(out, "tool_use") /\ (p <=> ~None(out, "json"))
    BY <2>9, <2>19, <2>20, <2>21 DEF Message, AnthropicEnded, NoCall
  <2>23. Walk(w, e) = w
    <3>1. PICK type \in {"tool_use", "end_turn"} : type = IF p THEN "tool_use" ELSE "end_turn"
      OBVIOUS
    <3>2. e = Event(type, 0, 0)
      BY <2>3, <3>1 DEF StopReason
    <3> QED
      BY <2>21, <3>2, WalkOther
  <2>24. Walk(w, f) = w
    BY <2>3, <2>21 DEF Walk, Event, At
  <2>25. Walks(mid, w)
    BY <2>4, <2>6, <2>9, <2>22, <2>23, WalkAppend
  <2>26. Walks(z, w)
    BY <2>4, <2>8, <2>9, <2>13, <2>24, <2>25, WalkAppend
  <2>27. Len(z) \in Nat
    BY <2>4, <2>8, <2>9, <2>13
  <2>28. Walked(z) = w
    BY <2>26, <2>27, WalkRun
  <2>29. Heads(mid, "message_start") /\ mid # <<>>
    BY <2>4, <2>6, <2>9, <2>20, <2>22, TypesAppend
  <2>30. Heads(z, "message_start")
    BY <2>4, <2>8, <2>9, <2>13, <2>29, TypesAppend
  <2>31. Sent("tool_use") <=> p
    <3>1. ASSUME NEW i \in 1..m PROVE out[i].type # "tool_use"
      BY <2>11, <2>22 DEF None
    <3> QED
      BY <2>4, <2>13, <2>14, <2>15, <3>1 DEF Sent
  <2>32. Sent("json") <=> p
    <3>1. (\E i \in 1..m : out[i].type = "json") <=> p
      BY <2>11, <2>22 DEF None
    <3>2. e.type # "json" /\ f.type # "json"
      BY <2>4
    <3>3. (\E i \in DOMAIN z : z[i].type = "json") <=> (\E i \in 1..m : out[i].type = "json")
      BY <2>14, <2>15, <3>2
    <3> QED
      BY <2>13, <3>1, <3>3 DEF Sent
  <2> QED
    BY <2>13, <2>21, <2>28, <2>30, <2>31, <2>32 DEF OnlyAt, Heads, At
<1> QED
  BY <1>4, <1>5

\* On such a network Anthropic's stream is one message, announced once, with
\* its blocks nested and numbered as they should be at every moment, and
\* tool_use as the reason to stop if and only if it has a call; unless an error
\* of the upstream server is passed on.
THEOREM AnthropicWellFormed == SteadySpec => []AnthropicShape
<1>1. SteadySpec => []StreamInv
  BY SpecSteps, SteadyStream
<1> QED
  BY <1>1, StreamAnthropic, PTL

-----------------------------------------------------------------------------
(* Parts of sequences, and relations between their elements *)

\* Any two elements, in their order, are in R.
PairsIn(out, R) == \A i, j \in DOMAIN out : i < j => <<out[i], out[j]>> \in R

\* sel has the elements of out that are in S, in their order.
Sub(sel, out, S) == \E h : Picks(h, sel, out, S, Len(out))

LEMMA SubIs ==
  ASSUME NEW T, NEW out \in Seq(T), NEW sel \in Seq(T), NEW S, Sub(sel, out, S)
  PROVE  /\ \A k \in DOMAIN sel : \E i \in DOMAIN out : sel[k] = out[i] /\ out[i] \in S
         /\ \A i \in DOMAIN out : out[i] \in S => \E k \in DOMAIN sel : sel[k] = out[i]
         /\ \A R : PairsIn(out, R) => PairsIn(sel, R)
<1>1. PICK h : Picks(h, sel, out, S, Len(out))
  BY DEF Sub
<1>2. PICK l \in Nat, m \in Nat : /\ l = Len(out) /\ DOMAIN out = 1..l
                                  /\ m = Len(sel) /\ DOMAIN sel = 1..m
  OBVIOUS
<1>3. /\ \A k \in 1..m : h[k] \in 1..l /\ sel[k] = out[h[k]] /\ sel[k] \in S
      /\ \A k, j \in 1..m : k < j => h[k] < h[j]
      /\ \A i \in 1..l : out[i] \in S => \E k \in 1..m : h[k] = i
  BY <1>1, <1>2 DEF Picks
<1>4. ASSUME NEW k \in 1..m PROVE \E i \in 1..l : sel[k] = out[i] /\ out[i] \in S
  BY <1>3
<1>5. ASSUME NEW i \in 1..l, out[i] \in S PROVE \E k \in 1..m : sel[k] = out[i]
  BY <1>3, <1>5
<1>6. ASSUME NEW R, PairsIn(out, R) PROVE PairsIn(sel, R)
  BY <1>2, <1>3, <1>6 DEF PairsIn
<1> QED
  BY <1>2, <1>4, <1>5, <1>6

\* A sequence is a part of itself.
LEMMA SubAll ==
  ASSUME NEW T, NEW out \in Seq(T)
  PROVE  Sub(out, out, T)
<1> DEFINE h == [k \in 1..Len(out) |-> k]
<1>1. Picks(h, out, out, T, Len(out))
  BY DEF Picks
<1> QED
  BY <1>1 DEF Sub

LEMMA SubOnly ==
  ASSUME NEW T, NEW out \in Seq(T), NEW S
  PROVE  Only(out, S) \in Seq(T) /\ Sub(Only(out, S), out, S)
BY OnlyIs DEF Sub

LEMMA PairsAppend ==
  ASSUME NEW T, NEW out \in Seq(T), NEW e \in T, NEW R, PairsIn(out, R),
         \A i \in DOMAIN out : <<out[i], e>> \in R
  PROVE  PairsIn(Append(out, e), R)
<1>1. PICK l \in Nat : l = Len(out) /\ DOMAIN out = 1..l
  OBVIOUS
<1>2. PICK new : new = Append(out, e)
  OBVIOUS
<1>3. DOMAIN new = 1..(l + 1) /\ new[l + 1] = e /\ \A i \in 1..l : new[i] = out[i]
  BY <1>1, <1>2, Appended
<1>4. ASSUME NEW i \in 1..(l + 1), NEW j \in 1..(l + 1), i < j PROVE <<new[i], new[j]>> \in R
  <2>1. i \in 1..l
    BY <1>4
  <2>2. CASE j = l + 1
    BY <1>1, <1>3, <2>1, <2>2
  <2>3. CASE j # l + 1
    <3>1. j \in 1..l
      BY <2>3
    <3> QED
      BY <1>1, <1>3, <1>4, <2>1, <3>1 DEF PairsIn
  <2> QED
    BY <2>2, <2>3
<1> QED
  BY <1>2, <1>3, <1>4 DEF PairsIn

LEMMA PairsJoin ==
  ASSUME NEW T, NEW a \in Seq(T), NEW b \in Seq(T), NEW R, PairsIn(a, R), PairsIn(b, R),
         \A i \in DOMAIN a, j \in DOMAIN b : <<a[i], b[j]>> \in R
  PROVE  PairsIn(a \o b, R)
<1>1. PICK l \in Nat, m \in Nat : l = Len(a) /\ DOMAIN a = 1..l /\ m = Len(b) /\ DOMAIN b = 1..m
  OBVIOUS
<1>2. PICK new : new = a \o b
  OBVIOUS
<1>3. /\ DOMAIN new = 1..(l + m) /\ \A i \in 1..l : new[i] = a[i]
      /\ \A i \in 1..m : new[l + i] = b[i]
  BY <1>1, <1>2, Joined
<1>4. ASSUME NEW i \in 1..(l + m), i \notin 1..l PROVE \E k \in 1..m : k = i - l /\ i = l + k /\ new[i] = b[k]
  <2>1. i - l \in 1..m /\ i = l + (i - l)
    BY <1>4
  <2> QED
    BY <1>3, <2>1
<1>5. ASSUME NEW i \in 1..(l + m), NEW j \in 1..(l + m), i < j PROVE <<new[i], new[j]>> \in R
  <2>1. CASE j \in 1..l
    <3>1. i \in 1..l
      BY <1>5, <2>1
    <3> QED
      BY <1>1, <1>3, <1>5, <2>1, <3>1 DEF PairsIn
  <2>2. CASE j \notin 1..l
    <3>1. PICK k \in 1..m : k = j - l /\ new[j] = b[k]
      BY <1>4, <2>2
    <3>2. CASE i \in 1..l
      BY <1>1, <1>3, <3>1, <3>2
    <3>3. CASE i \notin 1..l
      <4>1. PICK o \in 1..m : o = i - l /\ new[i] = b[o]
        BY <1>4, <3>3
      <4>2. o < k
        BY <1>5, <3>1, <4>1
      <4> QED
        BY <1>1, <3>1, <4>1, <4>2 DEF PairsIn
    <3> QED
      BY <3>2, <3>3
  <2> QED
    BY <2>1, <2>2
<1> QED
  BY <1>2, <1>3, <1>5 DEF PairsIn

\* Appending is joining one element.
LEMMA JoinOne ==
  ASSUME NEW T, NEW out \in Seq(T), NEW e \in T
  PROVE  out \o <<e>> = Append(out, e)
OBVIOUS

-----------------------------------------------------------------------------
(* A response that is not streamed: the frames of its content *)

\* A frame after which a signature may still belong to the block before it.
Quiet(f) == f.kind \in {"think", "sign", "blank"} \/ (f.kind = "web" /\ ~convert_web_ref)
QuietFrom(fs, i, j) == \A k \in i..j : Quiet(fs[k])

\* The signature in frame i has been replaced by one up to frame h.
Replaced(fs, i, h) ==
  \E j \in 1..h : i < j /\ fs[i].kind = "sign" /\ fs[j].kind = "sign" /\ QuietFrom(fs, i, j)

Speaks(fs, K, n) == \E kind \in Says(fs, n) : kind \in K
KeptOf(fs, K, h) == {n \in 1..h : Speaks(fs, K, n) /\ ~Replaced(fs, n, h)}

\* The kinds that a body has a place for, tool calls apart.
KindsOf(a) == IF a = "openai" THEN {"text", "think"} ELSE {"text", "think", "sign", "redacted"}

\* The content of a body: the frames up to h that have something of a kind in
\* K, and the frames T of a tool call.
Content(out, fs, K, h, T) ==
  /\ \A i, j \in DOMAIN out : i < j => out[i].n < out[j].n
  /\ \A i \in DOMAIN out : IF out[i].n \in T THEN out[i].type = "json" ELSE out[i].type \in Says(fs, out[i].n)
  /\ {out[i].n : i \in DOMAIN out} = KeptOf(fs, K, h) \cup T

Ordered(d, e) ==
  /\ d.index <= e.index
  /\ d.index = e.index => BlockType(d) = BlockType(e) /\ e.type # "redacted"
  /\ e.index = d.index + 1 => BlockType(d) # BlockType(e) \/ e.type = "redacted"

TypeOf(last) ==
  CASE last = "Thinking" -> "think" [] last = "Text" -> "text" [] last = "Redacted" -> "redacted"
    [] OTHER -> "json"

Blocks(out, x, last) ==
  /\ last = "None" => out = <<>> /\ x = 0
  /\ last # "None" => \A y \in 0..x : \E i \in DOMAIN out : out[i].index = y
  /\ \A i \in DOMAIN out : out[i].index <= x /\ (out[i].index = x => BlockType(out[i]) = TypeOf(last))
  /\ \A i, j \in DOMAIN out : i < j => Ordered(out[i], out[j])

\* Which signatures can be replaced, as long as there may come another.
Open(fs, h) == \A k \in 1..h : ~IsTool(fs[k]) /\ fs[k].kind # "end"
Signed(out, fs, h, x, last) ==
  Open(fs, h) =>
    \A i \in DOMAIN out : out[i].type = "sign" =>
      (out[i].index = x /\ last = "Thinking" <=> QuietFrom(fs, out[i].n, h))

Collected(a, s, fs, h, T) ==
  /\ s \in EvState
  /\ Content(s.out, fs, KindsOf(a), h, T)
  /\ a # "openai" => Blocks(s.out, s.index, s.last) /\ Signed(s.out, fs, h, s.index, s.last)

LEMMA ReplacedSame ==
  ASSUME NEW fs, NEW h \in Nat, NEW b \in Nat, h <= b, \A k \in (h + 1)..b : fs[k].kind # "sign",
         NEW n \in Nat
  PROVE  Replaced(fs, n, b) <=> Replaced(fs, n, h)
<1>1. \A j \in 1..h : j \in 1..b
  OBVIOUS
<1>2. ASSUME NEW j \in 1..b, fs[j].kind = "sign" PROVE j \in 1..h
  <2>1. j \notin (h + 1)..b
    BY <1>2
  <2> QED
    BY <2>1
<1> QED
  BY <1>1, <1>2 DEF Replaced

LEMMA SaysSign ==
  ASSUME NEW fs, NEW n, fs[n].kind = "sign"
  PROVE  Says(fs, n) = {"sign"}
BY DEF Says

\* Frames that say nothing to the body.
LEMMA KeptSame ==
  ASSUME NEW fs, NEW K, NEW h \in Nat, NEW b \in Nat, h <= b,
         \A k \in (h + 1)..b : ~Speaks(fs, K, k)
  PROVE  KeptOf(fs, K, b) = KeptOf(fs, K, h)
<1>1. ASSUME NEW n \in 1..b, Speaks(fs, K, n) PROVE n \in 1..h
  <2>1. n \notin (h + 1)..b
    BY <1>1
  <2> QED
    BY <2>1
<1>2. \A n \in 1..h : n \in 1..b /\ n \in Nat
  OBVIOUS
<1>3. ASSUME NEW n \in 1..h, Speaks(fs, K, n) PROVE Replaced(fs, n, b) <=> Replaced(fs, n, h)
  <2>1. CASE "sign" \in K
    <3>1. \A k \in (h + 1)..b : fs[k].kind # "sign"
      BY <2>1, SaysSign DEF Speaks
    <3> QED
      BY <1>2, <3>1, ReplacedSame
  <2>2. CASE "sign" \notin K
    <3>1. fs[n].kind # "sign"
      BY <1>3, <2>2, SaysSign DEF Speaks
    <3> QED
      BY <3>1 DEF Replaced
  <2> QED
    BY <2>1, <2>2
<1> QED
  BY <1>1, <1>2, <1>3 DEF KeptOf

LEMMA NotReplaced ==
  ASSUME NEW fs, NEW n \in Nat
  PROVE  ~Replaced(fs, n, n)
BY DEF Replaced

LEMMA KeptPlain ==
  ASSUME NEW fs, NEW K, NEW h \in Nat, NEW n \in Nat, n = h + 1, Speaks(fs, K, n),
         fs[n].kind # "sign"
  PROVE  KeptOf(fs, K, n) = KeptOf(fs, K, h) \cup {n}
<1>1. h <= n /\ \A k \in (h + 1)..n : k = n
  OBVIOUS
<1>2. \A m \in 1..h : Replaced(fs, m, n) <=> Replaced(fs, m, h)
  <2>1. \A k \in (h + 1)..n : fs[k].kind # "sign"
    BY <1>1
  <2>2. \A m \in 1..h : m \in Nat
    OBVIOUS
  <2> QED
    BY <1>1, <2>1, <2>2, ReplacedSame
<1>3. \A m : m \in 1..n <=> m \in 1..h \/ m = n
  OBVIOUS
<1> QED
  BY <1>2, <1>3, NotReplaced DEF KeptOf

\* The signatures up to frame h that the next one replaces.
OpenSigns(fs, h) == {m \in 1..h : fs[m].kind = "sign" /\ QuietFrom(fs, m, h)}

LEMMA KeptSign ==
  ASSUME NEW fs, NEW K, NEW h \in Nat, NEW n \in Nat, n = h + 1, Speaks(fs, K, n),
         fs[n].kind = "sign"
  PROVE  KeptOf(fs, K, n) = (KeptOf(fs, K, h) \ OpenSigns(fs, h)) \cup {n}
<1>1. Quiet(fs[n])
  BY DEF Quiet
<1>2. ASSUME NEW m \in 1..h
      PROVE  Replaced(fs, m, n) <=> Replaced(fs, m, h) \/ m \in OpenSigns(fs, h)
  <2>1. ASSUME Replaced(fs, m, n) PROVE Replaced(fs, m, h) \/ m \in OpenSigns(fs, h)
    <3>1. PICK j \in 1..n : m < j /\ fs[m].kind = "sign" /\ fs[j].kind = "sign" /\ QuietFrom(fs, m, j)
      BY <2>1 DEF Replaced
    <3>2. CASE j = n
      <4>1. \A k \in m..h : k \in m..j
        BY <3>2
      <4> QED
        BY <3>1, <4>1 DEF OpenSigns, QuietFrom
    <3>3. CASE j # n
      <4>1. j \in 1..h
        BY <3>3
      <4> QED
        BY <3>1, <4>1 DEF Replaced
    <3> QED
      BY <3>2, <3>3
  <2>2. ASSUME Replaced(fs, m, h) PROVE Replaced(fs, m, n)
    <3>1. \A j \in 1..h : j \in 1..n
      OBVIOUS
    <3> QED
      BY <2>2, <3>1 DEF Replaced
  <2>3. ASSUME m \in OpenSigns(fs, h) PROVE Replaced(fs, m, n)
    <3>1. fs[m].kind = "sign" /\ QuietFrom(fs, m, h)
      BY <2>3 DEF OpenSigns
    <3>2. \A k \in m..n : k \in m..h \/ k = n
      OBVIOUS
    <3>3. QuietFrom(fs, m, n)
      BY <1>1, <3>1, <3>2 DEF QuietFrom
    <3>4. n \in 1..n /\ m < n
      OBVIOUS
    <3> QED
      BY <3>1, <3>3, <3>4 DEF Replaced
  <2> QED
    BY <2>1, <2>2, <2>3
<1>3. \A m : m \in 1..n <=> m \in 1..h \/ m = n
  OBVIOUS
<1>4. OpenSigns(fs, h) \subseteq 1..h /\ n \notin 1..h
  BY DEF OpenSigns
<1> QED
  BY <1>2, <1>3, <1>4, NotReplaced DEF KeptOf

\* The next frame adds its event to a part of what there is.
LEMMA ContentAppend ==
  ASSUME NEW out \in Seq(EventSet), NEW sel \in Seq(EventSet), NEW S, Sub(sel, out, S),
         NEW fs, NEW K, NEW h \in Nat, NEW n \in Nat, n = h + 1, Content(out, fs, K, h, {}),
         NEW e \in EventSet, e.n = n, e.type \in Says(fs, n),
         \A m : m \in KeptOf(fs, K, n) <=> m = n \/ \E i \in DOMAIN out : out[i].n = m /\ out[i] \in S
  PROVE  Content(Append(sel, e), fs, K, n, {})
<1> DEFINE R == {p \in EventSet \X EventSet : p[1].n < p[2].n}
<1>r. \A d, g \in EventSet : <<d, g>> \in R <=> d.n < g.n
  OBVIOUS
<1> HIDE DEF R
<1>1. /\ \A i, j \in DOMAIN out : i < j => out[i].n < out[j].n
      /\ \A i \in DOMAIN out : out[i].type \in Says(fs, out[i].n)
      /\ {out[i].n : i \in DOMAIN out} = KeptOf(fs, K, h)
  BY DEF Content
<1>2. /\ \A k \in DOMAIN sel : \E i \in DOMAIN out : sel[k] = out[i] /\ out[i] \in S
      /\ \A i \in DOMAIN out : out[i] \in S => \E k \in DOMAIN sel : sel[k] = out[i]
      /\ \A Q : PairsIn(out, Q) => PairsIn(sel, Q)
  BY SubIs
<1>t. (\A i \in DOMAIN out : out[i] \in EventSet) /\ (\A i \in DOMAIN sel : sel[i] \in EventSet)
  OBVIOUS
<1>3. PairsIn(sel, R)
  <2>1. PairsIn(out, R)
    BY <1>1, <1>r, <1>t DEF PairsIn
  <2> QED
    BY <1>2, <2>1
<1>4. ASSUME NEW i \in DOMAIN out PROVE out[i].n < n
  <2>1. out[i].n \in 1..h
    BY <1>1 DEF KeptOf
  <2> QED
    BY <2>1
<1>5. PairsIn(Append(sel, e), R)
  <2>1. \A k \in DOMAIN sel : <<sel[k], e>> \in R
    BY <1>2, <1>4, <1>r, <1>t
  <2> QED
    BY <1>3, <2>1, PairsAppend
<1>6. PICK l \in Nat : l = Len(sel) /\ DOMAIN sel = 1..l
  OBVIOUS
<1>7. PICK new : new = Append(sel, e)
  OBVIOUS
<1>8. /\ DOMAIN new = 1..(l + 1) /\ new[l + 1] = e /\ \A k \in 1..l : new[k] = sel[k]
      /\ new \in Seq(EventSet)
  BY <1>6, <1>7, Appended
<1>9. \A k \in 1..(l + 1) : k \in 1..l \/ k = l + 1
  OBVIOUS
<1>a. \A k \in 1..l : k \in 1..(l + 1)
  OBVIOUS
<1>b. l + 1 \in 1..(l + 1)
  OBVIOUS
<1>10. \A i, j \in DOMAIN new : i < j => new[i].n < new[j].n
  <2>1. \A i \in DOMAIN new : new[i] \in EventSet
    BY <1>8
  <2> QED
    BY <1>5, <1>7, <1>r, <2>1 DEF PairsIn
<1>11. \A k \in DOMAIN new : new[k].type \in Says(fs, new[k].n)
  BY <1>1, <1>2, <1>6, <1>8, <1>9
<1>12. \A m : (\E k \in DOMAIN new : new[k].n = m) <=> m = n \/ \E k \in DOMAIN sel : sel[k].n = m
  BY <1>6, <1>8, <1>9, <1>a, <1>b
<1>13. \A m : (\E k \in DOMAIN sel : sel[k].n = m) <=> \E i \in DOMAIN out : out[i].n = m /\ out[i] \in S
  BY <1>2
<1>14. {new[i].n : i \in DOMAIN new} = KeptOf(fs, K, n) \cup {}
  <2>1. \A m : (\E i \in DOMAIN new : new[i].n = m) <=> m \in KeptOf(fs, K, n)
    BY <1>12, <1>13
  <2> QED
    BY <2>1
<1> QED
  BY <1>7, <1>10, <1>11, <1>14 DEF Content

-----------------------------------------------------------------------------
(* The blocks of a response that is not streamed *)

LEMMA TypeOfIs ==
  /\ TypeOf("Thinking") = "think" /\ TypeOf("Text") = "text"
  /\ TypeOf("Redacted") = "redacted" /\ TypeOf("ToolUse") = "json"
BY DEF TypeOf

\* A block is extended, while some of its events may go.
LEMMA BlocksExtend ==
  ASSUME NEW out \in Seq(EventSet), NEW sel \in Seq(EventSet), NEW S, Sub(sel, out, S),
         NEW x \in Nat, NEW last, Blocks(out, x, last), last # "None",
         \A d \in EventSet : d.index # x => d \in S,
         NEW e \in EventSet, e.index = x, BlockType(e) = TypeOf(last), e.type # "redacted"
  PROVE  Blocks(Append(sel, e), x, last)
<1> DEFINE R == {p \in EventSet \X EventSet : Ordered(p[1], p[2])}
<1>r. \A d, g \in EventSet : <<d, g>> \in R <=> Ordered(d, g)
  OBVIOUS
<1> HIDE DEF R
<1>1. /\ \A y \in 0..x : \E i \in DOMAIN out : out[i].index = y
      /\ \A i \in DOMAIN out : out[i].index <= x /\ (out[i].index = x => BlockType(out[i]) = TypeOf(last))
      /\ \A i, j \in DOMAIN out : i < j => Ordered(out[i], out[j])
  BY DEF Blocks
<1>2. /\ \A k \in DOMAIN sel : \E i \in DOMAIN out : sel[k] = out[i] /\ out[i] \in S
      /\ \A i \in DOMAIN out : out[i] \in S => \E k \in DOMAIN sel : sel[k] = out[i]
      /\ \A Q : PairsIn(out, Q) => PairsIn(sel, Q)
  BY SubIs
<1>n. \A d \in EventSet : d.index \in Nat
  BY DEF EventSet
<1>t. (\A i \in DOMAIN out : out[i] \in EventSet /\ out[i].index \in Nat) /\ (\A i \in DOMAIN sel : sel[i] \in EventSet)
  BY <1>n
<1>3. PairsIn(sel, R)
  <2>1. PairsIn(out, R)
    BY <1>1, <1>r, <1>t DEF PairsIn
  <2> QED
    BY <1>2, <2>1
<1>4. PICK o \in DOMAIN out : out[o].index = x
  BY <1>1
<1>5. ASSUME NEW i \in DOMAIN out PROVE Ordered(out[i], e)
  <2>1. out[i].index <= x /\ (out[i].index = x => BlockType(out[i]) = BlockType(e))
    BY <1>1
  <2>2. ASSUME x = out[i].index + 1 PROVE BlockType(out[i]) # BlockType(e)
    <3>1. i < o
      <4>1. i \in Nat /\ o \in Nat /\ i # o
        BY <1>4, <1>t, <2>2
      <4>2. ~(o < i)
        BY <1>1, <1>4, <1>t, <2>2 DEF Ordered
      <4> QED
        BY <4>1, <4>2
    <3>2. BlockType(out[i]) # BlockType(out[o]) \/ out[o].type = "redacted"
      BY <1>1, <1>4, <2>2, <3>1 DEF Ordered
    <3>3. BlockType(out[o]) = BlockType(e)
      BY <1>1, <1>4
    <3>4. out[o].type # "redacted"
      BY <3>3 DEF BlockType
    <3> QED
      BY <3>2, <3>3, <3>4
  <2> QED
    BY <2>1, <2>2 DEF Ordered
<1>6. PairsIn(Append(sel, e), R)
  <2>1. \A k \in DOMAIN sel : <<sel[k], e>> \in R
    BY <1>2, <1>5, <1>r, <1>t
  <2> QED
    BY <1>3, <2>1, PairsAppend
<1>7. PICK l \in Nat : l = Len(sel) /\ DOMAIN sel = 1..l
  OBVIOUS
<1>8. PICK new : new = Append(sel, e)
  OBVIOUS
<1>9. /\ DOMAIN new = 1..(l + 1) /\ new[l + 1] = e /\ \A k \in 1..l : new[k] = sel[k]
      /\ new \in Seq(EventSet)
  BY <1>7, <1>8, Appended
<1>a. (\A k \in 1..(l + 1) : k \in 1..l \/ k = l + 1) /\ (\A k \in 1..l : k \in 1..(l + 1)) /\ l + 1 \in 1..(l + 1)
  OBVIOUS
<1>10. \A i, j \in DOMAIN new : i < j => Ordered(new[i], new[j])
  <2>1. \A i \in DOMAIN new : new[i] \in EventSet
    BY <1>9
  <2> QED
    BY <1>6, <1>8, <1>r, <2>1 DEF PairsIn
<1>11. ASSUME NEW i \in DOMAIN new
       PROVE  new[i].index <= x /\ (new[i].index = x => BlockType(new[i]) = TypeOf(last))
  <2>1. CASE i = l + 1
    BY <1>9, <2>1
  <2>2. CASE i # l + 1
    <3>1. i \in DOMAIN sel /\ new[i] = sel[i]
      BY <1>7, <1>9, <1>a, <2>2
    <3> QED
      BY <1>1, <1>2, <3>1
  <2> QED
    BY <2>1, <2>2
<1>12. ASSUME NEW y \in 0..x PROVE \E i \in DOMAIN new : new[i].index = y
  <2>1. CASE y = x
    BY <1>9, <1>a, <2>1
  <2>2. CASE y # x
    <3>1. PICK i \in DOMAIN out : out[i].index = y
      BY <1>1
    <3>2. out[i] \in S
      BY <1>t, <2>2, <3>1
    <3>3. PICK k \in DOMAIN sel : sel[k] = out[i]
      BY <1>2, <3>2
    <3> QED
      BY <1>7, <1>9, <1>a, <3>1, <3>3
  <2> QED
    BY <2>1, <2>2
<1>13. Blocks(new, x, last)
  BY <1>10, <1>11, <1>12 DEF Blocks
<1> QED
  BY <1>8, <1>13

\* The events of a new block.
OneBlock(es, y, type) ==
  /\ es \in Seq(EventSet) /\ es # <<>>
  /\ \A i \in DOMAIN es : es[i].index = y /\ BlockType(es[i]) = TypeOf(type)

LEMMA BlocksNew ==
  ASSUME NEW out \in Seq(EventSet), NEW x \in Nat, NEW last, Blocks(out, x, last),
         NEW y, y = IF last = "None" THEN x ELSE x + 1,
         NEW type, type # "None", NEW es, OneBlock(es, y, type),
         last # "None" => TypeOf(type) # TypeOf(last) \/ TypeOf(type) = "redacted",
         TypeOf(type) = "redacted" => Len(es) = 1
  PROVE  Blocks(out \o es, y, type)
<1> DEFINE R == {p \in EventSet \X EventSet : Ordered(p[1], p[2])}
<1>r. \A d, g \in EventSet : <<d, g>> \in R <=> Ordered(d, g)
  OBVIOUS
<1> HIDE DEF R
<1>1. /\ last = "None" => out = <<>> /\ x = 0
      /\ last # "None" => \A z \in 0..x : \E i \in DOMAIN out : out[i].index = z
      /\ \A i \in DOMAIN out : out[i].index <= x /\ (out[i].index = x => BlockType(out[i]) = TypeOf(last))
      /\ \A i, j \in DOMAIN out : i < j => Ordered(out[i], out[j])
  BY DEF Blocks
<1>2. /\ es \in Seq(EventSet) /\ es # <<>>
      /\ \A i \in DOMAIN es : es[i].index = y /\ BlockType(es[i]) = TypeOf(type)
  BY DEF OneBlock
<1>n. \A d \in EventSet : d.index \in Nat
  BY DEF EventSet
<1>t. (\A i \in DOMAIN out : out[i] \in EventSet /\ out[i].index \in Nat) /\ (\A i \in DOMAIN es : es[i] \in EventSet)
  BY <1>2, <1>n
<1>y. y \in Nat
  OBVIOUS
<1>3. PairsIn(out, R)
  BY <1>1, <1>r, <1>t DEF PairsIn
<1>4. PairsIn(es, R)
  <2>1. ASSUME NEW i \in DOMAIN es, NEW j \in DOMAIN es, i < j PROVE Ordered(es[i], es[j])
    <3>1. Len(es) # 1
      BY <1>2, <2>1
    <3>2. TypeOf(type) # "redacted"
      BY <3>1
    <3>3. es[j].type # "redacted"
      BY <1>2, <3>2 DEF BlockType
    <3>4. y # y + 1 /\ y <= y
      BY <1>y
    <3> QED
      BY <1>2, <3>3, <3>4 DEF Ordered
  <2> QED
    BY <1>r, <1>t, <2>1 DEF PairsIn
<1>5. ASSUME NEW i \in DOMAIN out, NEW j \in DOMAIN es PROVE Ordered(out[i], es[j])
  <2>1. last # "None"
    BY <1>1
  <2>2. out[i].index <= x /\ es[j].index = x + 1 /\ out[i].index \in Nat
    BY <1>1, <1>2, <1>t, <2>1
  <2>3. ASSUME es[j].index = out[i].index + 1
        PROVE  BlockType(out[i]) # BlockType(es[j]) \/ es[j].type = "redacted"
    <3>1. BlockType(out[i]) = TypeOf(last)
      BY <1>1, <2>2, <2>3
    <3>2. BlockType(es[j]) = "redacted" => es[j].type = "redacted"
      BY DEF BlockType
    <3> QED
      BY <1>2, <2>1, <3>1, <3>2
  <2> QED
    BY <2>2, <2>3 DEF Ordered
<1>6. PairsIn(out \o es, R)
  <2>1. \A i \in DOMAIN out, j \in DOMAIN es : <<out[i], es[j]>> \in R
    BY <1>5, <1>r, <1>t
  <2> QED
    BY <1>2, <1>3, <1>4, <2>1, PairsJoin
<1>7. PICK l \in Nat, m \in Nat : l = Len(out) /\ DOMAIN out = 1..l /\ m = Len(es) /\ DOMAIN es = 1..m
  BY <1>2
<1>8. PICK new : new = out \o es
  OBVIOUS
<1>9. /\ DOMAIN new = 1..(l + m) /\ \A i \in 1..l : new[i] = out[i]
      /\ \A i \in 1..m : new[l + i] = es[i]
      /\ new \in Seq(EventSet)
  BY <1>2, <1>7, <1>8, Joined
<1>10. ASSUME NEW i \in DOMAIN new
       PROVE  (\E k \in DOMAIN out : new[i] = out[k]) \/ (\E k \in DOMAIN es : new[i] = es[k])
  <2>1. CASE i \in 1..l
    BY <1>7, <1>9, <2>1
  <2>2. CASE i \notin 1..l
    <3>1. PICK k \in 1..m : i = l + k
      <4>1. i - l \in 1..m /\ i = l + (i - l)
        BY <1>9, <2>2
      <4> QED
        BY <4>1
    <3>2. new[i] = es[k]
      BY <1>9, <3>1
    <3> QED
      BY <1>7, <3>2
  <2> QED
    BY <2>1, <2>2
<1>11. (\A i \in 1..l : i \in DOMAIN new) /\ (\A i \in 1..m : l + i \in DOMAIN new)
  BY <1>9
<1>12. \A i, j \in DOMAIN new : i < j => Ordered(new[i], new[j])
  <2>1. \A i \in DOMAIN new : new[i] \in EventSet
    BY <1>9
  <2> QED
    BY <1>6, <1>8, <1>r, <2>1 DEF PairsIn
<1>13. ASSUME NEW i \in DOMAIN new
       PROVE  new[i].index <= y /\ (new[i].index = y => BlockType(new[i]) = TypeOf(type))
  <2>1. CASE \E k \in DOMAIN es : new[i] = es[k]
    BY <1>2, <1>y, <2>1
  <2>2. CASE \E k \in DOMAIN out : new[i] = out[k]
    <3>1. PICK k \in DOMAIN out : new[i] = out[k]
      BY <2>2
    <3>2. last # "None"
      BY <1>1
    <3>3. out[k].index <= x /\ out[k].index \in Nat /\ y = x + 1
      BY <1>1, <1>t, <3>2
    <3> QED
      BY <3>1, <3>3
  <2> QED
    BY <1>10, <2>1, <2>2
<1>14. ASSUME NEW z \in 0..y PROVE \E i \in DOMAIN new : new[i].index = z
  <2>1. CASE z = y
    <3>1. 1 \in 1..m
      <4>1. m # 0
        BY <1>2, <1>7, EmptySeq
      <4> QED
        BY <4>1
    <3>2. new[l + 1] = es[1] /\ l + 1 \in DOMAIN new /\ es[1].index = y
      BY <1>2, <1>7, <1>9, <1>11, <3>1
    <3> QED
      BY <2>1, <3>2
  <2>2. CASE z # y
    <3>1. last # "None" /\ z \in 0..x
      BY <1>1, <2>2
    <3>2. PICK i \in DOMAIN out : out[i].index = z
      BY <1>1, <3>1
    <3> QED
      BY <1>7, <1>9, <1>11, <3>2
  <2> QED
    BY <2>1, <2>2
<1>15. Blocks(new, y, type)
  BY <1>12, <1>13, <1>14 DEF Blocks
<1> QED
  BY <1>8, <1>15

-----------------------------------------------------------------------------
(* One message of a response that is not streamed *)

LEMMA SaysPlain ==
  ASSUME NEW fs, NEW n, NEW kind \in Says(fs, n)
  PROVE  /\ kind \in {"think", "sign"} => fs[n].kind = kind /\ Quiet(fs[n])
         /\ kind \in {"text", "redacted"} => ~Quiet(fs[n]) /\ fs[n].kind # "sign"
         /\ kind \in {"text", "think", "sign", "redacted"} => ~IsTool(fs[n]) /\ fs[n].kind # "end"
         /\ fs[n].kind = "sign" <=> kind = "sign"
<1>1. CASE fs[n].kind \in {"blank", "error"}
  BY <1>1 DEF Says
<1>2. CASE fs[n].kind = "web"
  BY <1>2 DEF Says, Quiet, IsTool
<1>3. CASE fs[n].kind = "whole"
  BY <1>3 DEF Says
<1>4. CASE fs[n].kind = "tool"
  <2>1. kind \in {"tool", "end"}
    BY <1>4 DEF Says
  <2> QED
    BY <1>4, <2>1
<1>5. CASE fs[n].kind \notin {"blank", "error", "web", "whole", "tool"}
  <2>1. kind = fs[n].kind
    BY <1>5 DEF Says
  <2> QED
    BY <1>5, <2>1 DEF Quiet, IsTool
<1> QED
  BY <1>1, <1>2, <1>3, <1>4, <1>5

\* Up to a frame that is none of a call's the stream is open.
LEMMA OpenBefore ==
  ASSUME NEW fs \in Seq(Frame), OrderlyFrames(fs), NEW h \in Nat, NEW n \in Nat, n = h + 1,
         n <= Len(fs), ~IsTool(fs[n])
  PROVE  Open(fs, h)
<1>1. PICK l \in Nat : l = Len(fs) /\ DOMAIN fs = 1..l
  OBVIOUS
<1>2. ASSUME NEW k \in 1..h PROVE ~IsTool(fs[k]) /\ fs[k].kind # "end"
  <2>1. k \in 1..(l - 1) /\ k \in DOMAIN fs /\ n \in DOMAIN fs /\ k < n
    BY <1>1
  <2>2. ~Final(fs[k])
    BY <1>1, <2>1 DEF OrderlyFrames
  <2>3. IsTool(fs[k]) => fs[n].kind = "tool"
    BY <2>1, ToolsLast
  <2> QED
    BY <2>2, <2>3 DEF Final, IsTool
<1> QED
  BY <1>2 DEF Open

\* The signatures in new are those of frame n, which belongs to the last block,
\* and some of out, which still do if they did and frame n is quiet.
Resigned(new, out, fs, n, x, y, last, type) ==
  \A i \in DOMAIN new : new[i].type = "sign" =>
    \/ new[i].n = n /\ new[i].index = y /\ type = "Thinking" /\ Quiet(fs[n])
    \/ /\ \E j \in DOMAIN out : new[i] = out[j]
       /\ (new[i].index = y /\ type = "Thinking")
            <=> (new[i].index = x /\ last = "Thinking" /\ Quiet(fs[n]))

LEMMA SignedAfter ==
  ASSUME NEW out, NEW new, NEW fs, NEW h \in Nat, NEW n \in Nat, n = h + 1,
         NEW x, NEW y, NEW last, NEW type, Signed(out, fs, h, x, last),
         \A j \in DOMAIN out : out[j].n \in 1..h,
         Resigned(new, out, fs, n, x, y, last, type)
  PROVE  Signed(new, fs, n, y, type)
<1>1. ASSUME Open(fs, n), NEW i \in DOMAIN new, new[i].type = "sign"
      PROVE  new[i].index = y /\ type = "Thinking" <=> QuietFrom(fs, new[i].n, n)
  <2>0. Open(fs, h)
    <3>1. \A k \in 1..h : k \in 1..n
      OBVIOUS
    <3> QED
      BY <1>1, <3>1 DEF Open
  <2>1. CASE new[i].n = n /\ new[i].index = y /\ type = "Thinking" /\ Quiet(fs[n])
    <3>1. \A k \in n..n : k = n
      OBVIOUS
    <3>2. QuietFrom(fs, n, n)
      BY <2>1, <3>1 DEF QuietFrom
    <3> QED
      BY <2>1, <3>2
  <2>2. CASE /\ \E j \in DOMAIN out : new[i] = out[j]
             /\ (new[i].index = y /\ type = "Thinking")
                  <=> (new[i].index = x /\ last = "Thinking" /\ Quiet(fs[n]))
    <3>1. PICK j \in DOMAIN out : new[i] = out[j]
      BY <2>2
    <3>2. PICK m \in 1..h : m = new[i].n
      BY <3>1
    <3>3. new[i].index = x /\ last = "Thinking" <=> QuietFrom(fs, m, h)
      BY <1>1, <2>0, <3>1, <3>2 DEF Signed
    <3>4. \A k : k \in m..n <=> k \in m..h \/ k = n
      OBVIOUS
    <3>5. QuietFrom(fs, m, n) <=> QuietFrom(fs, m, h) /\ Quiet(fs[n])
      BY <3>4 DEF QuietFrom
    <3> QED
      BY <2>2, <3>2, <3>3, <3>5
  <2> QED
    BY <1>1, <2>1, <2>2 DEF Resigned
<1> QED
  BY <1>1 DEF Signed

\* The frames in the content are among those up to h.
LEMMA ContentUpTo ==
  ASSUME NEW out, NEW fs, NEW K, NEW h \in Nat, Content(out, fs, K, h, {}), NEW i \in DOMAIN out
  PROVE  /\ out[i].n \in 1..h /\ out[i].n \in KeptOf(fs, K, h)
         /\ out[i].type \in Says(fs, out[i].n)
<1>1. out[i].n \in KeptOf(fs, K, h) /\ out[i].type \in Says(fs, out[i].n)
  BY DEF Content
<1> QED
  BY <1>1 DEF KeptOf

\* What a frame that is no signature adds.
LEMMA ContentPlain ==
  ASSUME NEW out \in Seq(EventSet), NEW fs, NEW K, NEW h \in Nat, NEW n \in Nat, n = h + 1,
         Content(out, fs, K, h, {}), NEW e \in EventSet, e.n = n, e.type \in Says(fs, n),
         e.type \in K, e.type # "sign"
  PROVE  Content(Append(out, e), fs, K, n, {})
<1>1. Sub(out, out, EventSet)
  BY SubAll
<1>2. fs[n].kind # "sign" /\ Speaks(fs, K, n)
  BY SaysPlain DEF Speaks
<1>3. KeptOf(fs, K, n) = KeptOf(fs, K, h) \cup {n}
  BY <1>2, KeptPlain
<1>4. \A m : m \in KeptOf(fs, K, h) <=> \E i \in DOMAIN out : out[i].n = m /\ out[i] \in EventSet
  BY DEF Content
<1> QED
  BY <1>1, <1>3, <1>4, ContentAppend

\* What a signature adds, when the part of the events that stays is the one
\* without the signatures that can be replaced.
LEMMA ContentSign ==
  ASSUME NEW out \in Seq(EventSet), NEW sel \in Seq(EventSet), NEW S, Sub(sel, out, S),
         NEW fs, NEW K, NEW h \in Nat, NEW n \in Nat, n = h + 1,
         Content(out, fs, K, h, {}), NEW e \in EventSet, e.n = n, "sign" \in Says(fs, n),
         "sign" \in K, e.type = "sign",
         \A i \in DOMAIN out : out[i] \in S <=> ~(out[i].type = "sign" /\ QuietFrom(fs, out[i].n, h))
  PROVE  Content(Append(sel, e), fs, K, n, {})
<1>1. fs[n].kind = "sign" /\ Speaks(fs, K, n)
  BY SaysPlain DEF Speaks
<1>2. KeptOf(fs, K, n) = (KeptOf(fs, K, h) \ OpenSigns(fs, h)) \cup {n}
  BY <1>1, KeptSign
<1>3. \A m : m \in KeptOf(fs, K, h) <=> \E i \in DOMAIN out : out[i].n = m
  BY DEF Content
<1>4. ASSUME NEW i \in DOMAIN out PROVE out[i].n \notin OpenSigns(fs, h) <=> out[i] \in S
  <2>1. out[i].n \in 1..h /\ out[i].type \in Says(fs, out[i].n)
    BY ContentUpTo
  <2>2. fs[out[i].n].kind = "sign" <=> out[i].type = "sign"
    BY <2>1, SaysPlain
  <2> QED
    BY <2>1, <2>2 DEF OpenSigns
<1> QED
  BY <1>2, <1>3, <1>4, ContentAppend

\* The types of block and the kinds of message that go together.
Suits(type, kind) ==
  \/ type = "Text" /\ kind = "text"
  \/ type = "Thinking" /\ kind \in {"think", "sign"}
  \/ type = "Redacted" /\ kind = "redacted"

LEMMA SuitsIs ==
  ASSUME NEW type, NEW kind, Suits(type, kind), NEW x \in Nat, NEW n \in Nat, NEW e, e = Event(kind, x, n)
  PROVE  /\ e \in EventSet /\ e.type = kind /\ e.index = x /\ e.n = n
         /\ BlockType(e) = TypeOf(type) /\ kind \in KindsOf("anthropic")
         /\ type \in BlockKind /\ type # "None"
<1>1. kind \in EventTypes
  BY DEF Suits, EventTypes
<1>2. e \in EventSet /\ e.type = kind /\ e.index = x /\ e.n = n
  BY <1>1 DEF Event, EventSet
<1>3. BlockType(e) = TypeOf(type)
  BY <1>2 DEF BlockType, TypeOf, Suits
<1>4. kind \in KindsOf("anthropic") /\ type \in BlockKind /\ type # "None"
  BY DEF KindsOf, Suits, BlockKind
<1> QED
  BY <1>2, <1>3, <1>4

\* The blocks that the events of the frames up to h make.
Blocked(s, fs, h) ==
  /\ s \in EvState /\ Content(s.out, fs, KindsOf("anthropic"), h, {})
  /\ Blocks(s.out, s.index, s.last) /\ Signed(s.out, fs, h, s.index, s.last)

\* The message that comes from frame n, the one after h.
Comes(fs, h, n, kind) ==
  /\ fs \in Seq(Frame) /\ OrderlyFrames(fs) /\ n <= Len(fs) /\ n = h + 1 /\ kind \in Says(fs, n)

LEMMA DeltaBlocked ==
  ASSUME NEW s, NEW fs, NEW h \in Nat, NEW n \in Nat, NEW kind, Blocked(s, fs, h), Comes(fs, h, n, kind),
         Suits(s.last, kind), kind \in {"text", "think"}, NEW r, r = Delta(s, kind, n)
  PROVE  Blocked(r, fs, n)
<1>1. PICK out, x, last : out = s.out /\ x = s.index /\ last = s.last
  OBVIOUS
<1>2. /\ s \in EvState /\ out \in Seq(EventSet) /\ x \in Nat
      /\ Content(out, fs, KindsOf("anthropic"), h, {}) /\ Blocks(out, x, last) /\ Signed(out, fs, h, x, last)
  BY <1>1 DEF Blocked, EvState
<1>3. PICK e : e = Event(kind, x, n)
  OBVIOUS
<1>4. /\ e \in EventSet /\ e.type = kind /\ e.index = x /\ e.n = n
      /\ BlockType(e) = TypeOf(last) /\ kind \in KindsOf("anthropic") /\ last # "None"
  BY <1>1, <1>2, <1>3, SuitsIs
<1>5. /\ r \in EvState /\ r.out = Append(out, e) /\ r.index = x /\ r.last = last
  BY <1>1, <1>2, <1>3, <1>4, EmitIs DEF Delta
<1>6. n = h + 1 /\ kind \in Says(fs, n)
  BY DEF Comes
<1>7. Content(Append(out, e), fs, KindsOf("anthropic"), n, {})
  <2>1. e.type \in Says(fs, n) /\ e.type \in KindsOf("anthropic") /\ e.type # "sign"
    BY <1>4, <1>6
  <2> QED
    BY <1>2, <1>4, <1>6, <2>1, ContentPlain
<1>8. Blocks(Append(out, e), x, last)
  <2>1. Sub(out, out, EventSet)
    BY <1>2, SubAll
  <2>2. e.type # "redacted"
    BY <1>4
  <2> QED
    BY <1>2, <1>4, <2>1, <2>2, BlocksExtend
<1>9. Signed(Append(out, e), fs, n, x, last)
  <2>1. PICK new : new = Append(out, e)
    OBVIOUS
  <2>2. PICK l \in Nat : l = Len(out) /\ DOMAIN out = 1..l
    BY <1>2
  <2>3. DOMAIN new = 1..(l + 1) /\ new[l + 1] = e /\ \A k \in 1..l : new[k] = out[k]
    BY <1>2, <1>4, <2>1, <2>2, Appended
  <2>4. \A k \in 1..(l + 1) : k \in 1..l \/ k = l + 1
    OBVIOUS
  <2>5. ASSUME NEW i \in DOMAIN new, new[i].type = "sign" PROVE \E j \in DOMAIN out : new[i] = out[j]
    BY <1>4, <2>2, <2>3, <2>4, <2>5
  <2>6. last = "Thinking" => Quiet(fs[n])
    <3>1. last = "Thinking" => kind = "think"
      BY <1>1 DEF Suits
    <3> QED
      BY <1>6, <3>1, SaysPlain
  <2>7. \A j \in DOMAIN out : out[j].n \in 1..h
    BY <1>2, ContentUpTo
  <2>8. Resigned(new, out, fs, n, x, x, last, last)
    BY <2>5, <2>6 DEF Resigned
  <2>9. Signed(new, fs, n, x, last)
    BY <1>2, <1>6, <2>7, <2>8, SignedAfter
  <2> QED
    BY <2>1, <2>9
<1> QED
  BY <1>5, <1>7, <1>8, <1>9 DEF Blocked

Made(r, s, type, es) ==
  /\ r \in EvState /\ r.out = s.out \o es /\ r.last = type /\ r.index = NextIndex(s)
  /\ NextIndex(s) \in Nat

LEMMA NewBlockIs ==
  ASSUME NEW s, NEW type, NEW es, s \in EvState, type \in BlockKind, es \in Seq(EventSet)
  PROVE  Made(NewBlock(s, type, es), s, type, es)
<1>r. PICK r : r = NewBlock(s, type, es)
  OBVIOUS
<1>1. s.out \in Seq(EventSet) /\ NextIndex(s) \in Nat
  BY DEF EvState, NextIndex
<1>2. PICK out : out = s.out \o es
  OBVIOUS
<1>o. out \in Seq(EventSet)
  BY <1>1, <1>2, Joined
<1>3. r = [s EXCEPT !.out = out, !.last = type, !.index = NextIndex(s)]
  BY <1>2, <1>r DEF NewBlock
<1>4. r \in EvState /\ r.out = out /\ r.last = type /\ r.index = NextIndex(s)
  BY <1>1, <1>o, <1>3 DEF EvState
<1> QED
  BY <1>1, <1>2, <1>4, <1>r DEF Made

\* Signatures that no later one replaces, when the last block has no thoughts.
LEMMA NoOpenSigns ==
  ASSUME NEW out, NEW fs, NEW h \in Nat, NEW x, NEW last, Signed(out, fs, h, x, last), Open(fs, h),
         last # "Thinking", NEW i \in DOMAIN out
  PROVE  ~(out[i].type = "sign" /\ QuietFrom(fs, out[i].n, h))
BY DEF Signed

LEMMA NewBlocked ==
  ASSUME NEW s, NEW fs, NEW h \in Nat, NEW n \in Nat, NEW kind, Blocked(s, fs, h), Comes(fs, h, n, kind),
         NEW type, Suits(type, kind), s.last # type \/ type = "Redacted",
         NEW r, r = NewBlock(s, type, <<Event(kind, NextIndex(s), n)>>)
  PROVE  Blocked(r, fs, n)
<1>1. PICK out, x, last, y : out = s.out /\ x = s.index /\ last = s.last /\ y = NextIndex(s)
  OBVIOUS
<1>2. /\ s \in EvState /\ out \in Seq(EventSet) /\ x \in Nat
      /\ Content(out, fs, KindsOf("anthropic"), h, {}) /\ Blocks(out, x, last) /\ Signed(out, fs, h, x, last)
  BY <1>1 DEF Blocked, EvState
<1>y. y \in Nat /\ y = IF last = "None" THEN x ELSE x + 1
  BY <1>1, <1>2 DEF NextIndex
<1>3. PICK e : e = Event(kind, y, n)
  OBVIOUS
<1>4. /\ e \in EventSet /\ e.type = kind /\ e.index = y /\ e.n = n
      /\ BlockType(e) = TypeOf(type) /\ kind \in KindsOf("anthropic")
      /\ type \in BlockKind /\ type # "None"
  BY <1>y, <1>3, SuitsIs
<1>e. PICK es : es = <<e>>
  OBVIOUS
<1>f. es \in Seq(EventSet) /\ es # <<>> /\ DOMAIN es = 1..1 /\ es[1] = e /\ Len(es) = 1
  BY <1>4, <1>e
<1>5. r \in EvState /\ r.out = out \o es /\ r.index = y /\ r.last = type
  <2>1. r = NewBlock(s, type, es)
    BY <1>1, <1>3, <1>e
  <2>2. s \in EvState /\ type \in BlockKind /\ es \in Seq(EventSet)
    BY <1>2, <1>4, <1>f
  <2>3. Made(r, s, type, es)
    BY <2>1, <2>2, NewBlockIs
  <2> QED
    BY <1>1, <2>3 DEF Made
<1>6. n = h + 1 /\ kind \in Says(fs, n)
  BY DEF Comes
<1>7. out \o es = Append(out, e)
  BY <1>2, <1>4, <1>e, JoinOne
<1>o. kind = "sign" => last # "Thinking" /\ Open(fs, h)
  <2>1. ASSUME kind = "sign" PROVE last # "Thinking" /\ ~IsTool(fs[n])
    <3>1. type = "Thinking"
      BY <2>1 DEF Suits
    <3> QED
      BY <1>1, <1>6, <2>1, <3>1, SaysPlain
  <2> QED
    BY <2>1, OpenBefore DEF Comes
<1>8. Content(Append(out, e), fs, KindsOf("anthropic"), n, {})
  <2>1. CASE kind = "sign"
    <3>1. Sub(out, out, EventSet)
      BY <1>2, SubAll
    <3>2. \A i \in DOMAIN out : out[i] \in EventSet <=> ~(out[i].type = "sign" /\ QuietFrom(fs, out[i].n, h))
      BY <1>2, <1>o, <2>1, NoOpenSigns
    <3> QED
      BY <1>2, <1>4, <1>6, <2>1, <3>1, <3>2, ContentSign
  <2>2. CASE kind # "sign"
    <3>1. e.type \in Says(fs, n) /\ e.type \in KindsOf("anthropic") /\ e.type # "sign"
      BY <1>4, <1>6, <2>2
    <3> QED
      BY <1>2, <1>4, <1>6, <3>1, ContentPlain
  <2> QED
    BY <2>1, <2>2
<1>9. Blocks(out \o es, y, type)
  <2>1. OneBlock(es, y, type)
    BY <1>4, <1>f DEF OneBlock
  <2>2. last # "None" => TypeOf(type) # TypeOf(last) \/ TypeOf(type) = "redacted"
    <3>1. type = "Redacted" => TypeOf(type) = "redacted"
      BY TypeOfIs
    <3>2. ASSUME type \in {"Text", "Thinking"}, last # type PROVE TypeOf(type) # TypeOf(last)
      BY <3>2 DEF TypeOf
    <3> QED
      BY <1>1, <3>1, <3>2 DEF Suits
  <2> QED
    BY <1>2, <1>y, <1>4, <1>f, <2>1, <2>2, BlocksNew
<1>10. Signed(Append(out, e), fs, n, y, type)
  <2>1. PICK new : new = Append(out, e)
    OBVIOUS
  <2>2. PICK l \in Nat : l = Len(out) /\ DOMAIN out = 1..l
    BY <1>2
  <2>3. DOMAIN new = 1..(l + 1) /\ new[l + 1] = e /\ \A k \in 1..l : new[k] = out[k]
    BY <1>2, <1>4, <2>1, <2>2, Appended
  <2>4. \A k \in 1..(l + 1) : k \in 1..l \/ k = l + 1
    OBVIOUS
  <2>5. ASSUME NEW j \in DOMAIN out
        PROVE  (out[j].index = y /\ type = "Thinking") <=> (out[j].index = x /\ last = "Thinking" /\ Quiet(fs[n]))
    <3>1. last # "None"
      BY <1>2 DEF Blocks
    <3>2. out[j].index <= x /\ out[j].index \in Nat
      <4>1. out[j] \in EventSet
        BY <1>2
      <4> QED
        BY <1>2, <4>1 DEF Blocks, EventSet
    <3>3. out[j].index # y
      BY <1>2, <1>y, <3>1, <3>2
    <3>4. last = "Thinking" => ~Quiet(fs[n])
      <4>1. last = "Thinking" => kind \in {"text", "redacted"}
        BY <1>1 DEF Suits
      <4> QED
        BY <1>6, <4>1, SaysPlain
    <3> QED
      BY <3>3, <3>4
  <2>6. e.type = "sign" => e.n = n /\ e.index = y /\ type = "Thinking" /\ Quiet(fs[n])
    <3>1. e.type = "sign" => kind = "sign" /\ type = "Thinking"
      BY <1>4 DEF Suits
    <3> QED
      BY <1>4, <1>6, <3>1, SaysPlain
  <2>7. \A j \in DOMAIN out : out[j].n \in 1..h
    BY <1>2, ContentUpTo
  <2>8. ASSUME NEW i \in DOMAIN new, new[i].type = "sign"
        PROVE  \/ new[i].n = n /\ new[i].index = y /\ type = "Thinking" /\ Quiet(fs[n])
               \/ /\ \E j \in DOMAIN out : new[i] = out[j]
                  /\ (new[i].index = y /\ type = "Thinking")
                       <=> (new[i].index = x /\ last = "Thinking" /\ Quiet(fs[n]))
    <3>1. CASE i = l + 1
      BY <2>3, <2>6, <2>8, <3>1
    <3>2. CASE i # l + 1
      <4>1. i \in DOMAIN out /\ new[i] = out[i]
        BY <2>2, <2>3, <2>4, <3>2
      <4> QED
        BY <2>5, <4>1
    <3> QED
      BY <3>1, <3>2
  <2>9. Resigned(new, out, fs, n, x, y, last, type)
    BY <2>8 DEF Resigned
  <2>10. Signed(new, fs, n, y, type)
    BY <1>2, <1>6, <2>7, <2>9, SignedAfter
  <2> QED
    BY <2>1, <2>10
<1> QED
  BY <1>5, <1>7, <1>8, <1>9, <1>10 DEF Blocked

\* A signature takes the place of the one that its block has.
LEMMA SignBlocked ==
  ASSUME NEW s, NEW fs, NEW h \in Nat, NEW n \in Nat, Blocked(s, fs, h), Comes(fs, h, n, "sign"),
         s.last = "Thinking", NEW r, r = SignBlock(s, n)
  PROVE  Blocked(r, fs, n)
<1>1. PICK out, x : out = s.out /\ x = s.index
  OBVIOUS
<1>2. /\ s \in EvState /\ out \in Seq(EventSet) /\ x \in Nat
      /\ Content(out, fs, KindsOf("anthropic"), h, {}) /\ Blocks(out, x, "Thinking")
      /\ Signed(out, fs, h, x, "Thinking")
  BY <1>1 DEF Blocked, EvState
<1> DEFINE S == EventSet \ [type : {"sign"}, index : {x}, n : Nat]
<1>3. PICK sel : sel = Only(out, S)
  OBVIOUS
<1>4. PICK u : u = [s EXCEPT !.out = sel]
  OBVIOUS
<1>5. r = Delta(u, "sign", n)
  BY <1>1, <1>3, <1>4 DEF SignBlock
<1>6. \A d \in EventSet : d \in S <=> ~(d.type = "sign" /\ d.index = x)
  <2>1. \A d \in EventSet : d \in [type : {"sign"}, index : {x}, n : Nat] <=> d.type = "sign" /\ d.index = x
    BY DEF EventSet
  <2> QED
    BY <2>1
<1> HIDE DEF S
<1>7. sel \in Seq(EventSet) /\ Sub(sel, out, S)
  BY <1>2, <1>3, SubOnly
<1>8. u \in EvState /\ u.out = sel /\ u.index = x /\ u.last = "Thinking"
  BY <1>1, <1>2, <1>4, <1>7 DEF EvState
<1>9. PICK e : e = Event("sign", x, n)
  OBVIOUS
<1>10. /\ e \in EventSet /\ e.type = "sign" /\ e.index = x /\ e.n = n
       /\ BlockType(e) = TypeOf("Thinking") /\ "sign" \in KindsOf("anthropic")
  <2>1. Suits("Thinking", "sign")
    BY DEF Suits
  <2> QED
    BY <1>2, <1>9, <2>1, SuitsIs
<1>11. r \in EvState /\ r.out = Append(sel, e) /\ r.index = x /\ r.last = "Thinking"
  BY <1>5, <1>8, <1>9, <1>10, EmitIs DEF Delta
<1>12. n = h + 1 /\ "sign" \in Says(fs, n) /\ Quiet(fs[n]) /\ Open(fs, h)
  <2>1. n = h + 1 /\ "sign" \in Says(fs, n) /\ fs \in Seq(Frame) /\ OrderlyFrames(fs) /\ n <= Len(fs)
    BY DEF Comes
  <2>2. Quiet(fs[n]) /\ ~IsTool(fs[n])
    BY <2>1, SaysPlain
  <2> QED
    BY <2>1, <2>2, OpenBefore
<1>13. ASSUME NEW i \in DOMAIN out
       PROVE  /\ out[i] \in S <=> ~(out[i].type = "sign" /\ out[i].index = x)
              /\ out[i] \in S <=> ~(out[i].type = "sign" /\ QuietFrom(fs, out[i].n, h))
  <2>1. out[i] \in EventSet
    BY <1>2
  <2>2. out[i].type = "sign" => (out[i].index = x <=> QuietFrom(fs, out[i].n, h))
    BY <1>2, <1>12 DEF Signed
  <2> QED
    BY <1>6, <2>1, <2>2
<1>14. Content(Append(sel, e), fs, KindsOf("anthropic"), n, {})
  BY <1>2, <1>7, <1>10, <1>12, <1>13, ContentSign
<1>15. Blocks(Append(sel, e), x, "Thinking")
  <2>1. \A d \in EventSet : d.index # x => d \in S
    BY <1>6
  <2>2. e.type # "redacted" /\ "Thinking" # "None"
    BY <1>10
  <2> QED
    BY <1>2, <1>7, <1>10, <2>1, <2>2, BlocksExtend
<1>16. Signed(Append(sel, e), fs, n, x, "Thinking")
  <2>1. PICK new : new = Append(sel, e)
    OBVIOUS
  <2>2. PICK l \in Nat : l = Len(sel) /\ DOMAIN sel = 1..l
    BY <1>7
  <2>3. DOMAIN new = 1..(l + 1) /\ new[l + 1] = e /\ \A k \in 1..l : new[k] = sel[k]
    BY <1>7, <1>10, <2>1, <2>2, Appended
  <2>4. \A k \in 1..(l + 1) : k \in 1..l \/ k = l + 1
    OBVIOUS
  <2>5. \A k \in DOMAIN sel : \E j \in DOMAIN out : sel[k] = out[j] /\ out[j] \in S
    BY <1>2, <1>7, SubIs
  <2>6. Resigned(new, out, fs, n, x, x, "Thinking", "Thinking")
    <3>1. ASSUME NEW i \in DOMAIN new, new[i].type = "sign"
          PROVE  \/ new[i].n = n /\ new[i].index = x /\ Quiet(fs[n])
                 \/ /\ \E j \in DOMAIN out : new[i] = out[j]
                    /\ new[i].index = x <=> new[i].index = x /\ Quiet(fs[n])
      <4>1. CASE i = l + 1
        BY <1>10, <1>12, <2>3, <4>1
      <4>2. CASE i # l + 1
        <5>1. i \in DOMAIN sel /\ new[i] = sel[i]
          BY <2>2, <2>3, <2>4, <4>2
        <5> QED
          BY <1>12, <2>5, <5>1
      <4> QED
        BY <4>1, <4>2
    <3> QED
      BY <3>1 DEF Resigned
  <2>7. \A j \in DOMAIN out : out[j].n \in 1..h
    BY <1>2, ContentUpTo
  <2>8. Signed(new, fs, n, x, "Thinking")
    BY <1>2, <1>12, <2>6, <2>7, SignedAfter
  <2> QED
    BY <2>1, <2>8
<1> QED
  BY <1>11, <1>14, <1>15, <1>16 DEF Blocked

LEMMA CollectedIs ==
  ASSUME NEW s, NEW fs, NEW h
  PROVE  /\ Collected("anthropic", s, fs, h, {}) <=> Blocked(s, fs, h)
         /\ Collected("openai", s, fs, h, {}) <=> s \in EvState /\ Content(s.out, fs, KindsOf("openai"), h, {})
BY DEF Collected, Blocked

\* A message of the next frame, where that has something for the body.
LEMMA PlainCollected ==
  ASSUME NEW a \in Apis, NEW s, NEW fs, NEW h \in Nat, NEW n \in Nat, Collected(a, s, fs, h, {}),
         NEW m \in MsgSet, m.n = n, Comes(fs, h, n, m.kind), m.kind \in KindsOf(a), NEW ps, NEW c,
         NEW r, r = CollectStep(a, s, m, ps, c)
  PROVE  Collected(a, r, fs, n, {})
<1>1. PICK kind : kind = m.kind
  OBVIOUS
<1>2. CASE a = "openai"
  <2>1. kind \in {"text", "think"}
    BY <1>1, <1>2 DEF KindsOf
  <2>2. PICK e : e = Event(kind, 0, n)
    OBVIOUS
  <2>3. r = Emit(s, e)
    BY <1>1, <1>2, <2>1, <2>2 DEF CollectStep, CollectOpenAi
  <2>4. e \in EventSet /\ e.type = kind /\ e.n = n
    <3>1. kind \in EventTypes
      BY <2>1 DEF EventTypes
    <3> QED
      BY <2>2, <3>1 DEF Event, EventSet
  <2>5. s \in EvState /\ s.out \in Seq(EventSet) /\ Content(s.out, fs, KindsOf("openai"), h, {})
    BY <1>2, CollectedIs DEF EvState
  <2>6. r \in EvState /\ r.out = Append(s.out, e)
    <3>1. e \in EventSet /\ s \in EvState
      BY <2>4, <2>5
    <3>2. Emit(s, e) \in EvState /\ Emit(s, e).out = Append(s.out, e)
      BY <3>1, EmitIs
    <3> QED
      BY <2>3, <3>2
  <2>7. n = h + 1 /\ e.type \in Says(fs, n) /\ e.type \in KindsOf("openai") /\ e.type # "sign"
    BY <1>1, <1>2, <2>1, <2>4 DEF Comes
  <2>8. Content(r.out, fs, KindsOf("openai"), n, {})
    BY <2>4, <2>5, <2>6, <2>7, ContentPlain
  <2> QED
    BY <1>2, <2>6, <2>8, CollectedIs
<1>3. CASE a = "anthropic"
  <2>1. kind \in {"text", "think", "sign", "redacted"}
    BY <1>1, <1>3 DEF KindsOf
  <2>2. Blocked(s, fs, h) /\ Comes(fs, h, n, kind)
    BY <1>1, <1>3, CollectedIs
  <2>3. r = CollectAnthropic(s, m, ps, c)
    BY <1>3 DEF CollectStep
  <2> SUFFICES Blocked(r, fs, n)
    BY <1>3, CollectedIs
  <2>4. ASSUME NEW type \in {"Text", "Thinking"}, kind \in {"text", "think"}, Suits(type, kind),
               r = ExtendBlock(s, type, kind, n)
        PROVE  Blocked(r, fs, n)
    <3>1. CASE s.last = type
      <4>1. r = Delta(s, kind, n)
        BY <2>4, <3>1 DEF ExtendBlock
      <4> QED
        BY <2>2, <2>4, <3>1, <4>1, DeltaBlocked
    <3>2. CASE s.last # type
      <4>1. r = NewBlock(s, type, <<Event(kind, NextIndex(s), n)>>)
        BY <2>4, <3>2 DEF ExtendBlock
      <4> QED
        BY <2>2, <2>4, <3>2, <4>1, NewBlocked
    <3> QED
      BY <3>1, <3>2
  <2>5. CASE kind = "text"
    <3>1. r = ExtendBlock(s, "Text", kind, n) /\ Suits("Text", kind)
      BY <1>1, <2>3, <2>5 DEF CollectAnthropic, Suits
    <3> QED
      BY <2>4, <2>5, <3>1
  <2>6. CASE kind = "think"
    <3>1. r = ExtendBlock(s, "Thinking", kind, n) /\ Suits("Thinking", kind)
      BY <1>1, <2>3, <2>6 DEF CollectAnthropic, Suits
    <3> QED
      BY <2>4, <2>6, <3>1
  <2>7. CASE kind = "sign"
    <3>1. r = SignBlock(s, n)
      BY <1>1, <2>3, <2>7 DEF CollectAnthropic
    <3>2. CASE s.last = "Thinking"
      BY <2>2, <2>7, <3>1, <3>2, SignBlocked
    <3>3. CASE s.last # "Thinking"
      <4>1. r = NewBlock(s, "Thinking", <<Event(kind, NextIndex(s), n)>>) /\ Suits("Thinking", kind)
        BY <2>7, <3>1, <3>3 DEF SignBlock, ExtendBlock, Suits
      <4> QED
        BY <2>2, <3>3, <4>1, NewBlocked
    <3> QED
      BY <3>2, <3>3
  <2>8. CASE kind = "redacted"
    <3>1. r = NewBlock(s, "Redacted", <<Event(kind, NextIndex(s), n)>>) /\ Suits("Redacted", kind)
      BY <1>1, <2>3, <2>8 DEF CollectAnthropic, Suits
    <3> QED
      BY <2>2, <3>1, NewBlocked
  <2> QED
    BY <2>1, <2>5, <2>6, <2>7, <2>8
<1> QED
  BY <1>2, <1>3 DEF Apis

\* Frames with nothing for the body.
LEMMA SkipCollected ==
  ASSUME NEW a \in Apis, NEW s, NEW fs \in Seq(Frame), NEW h \in Nat, NEW b \in Nat, NEW T,
         h <= b, b <= Len(fs), Collected(a, s, fs, h, T), ~HasError(fs),
         \A k \in (h + 1)..b : ~Speaks(fs, KindsOf(a), k)
  PROVE  Collected(a, s, fs, b, T)
<1>1. s \in EvState /\ Content(s.out, fs, KindsOf(a), h, T)
  BY DEF Collected
<1>2. KeptOf(fs, KindsOf(a), b) = KeptOf(fs, KindsOf(a), h)
  BY KeptSame
<1>3. Content(s.out, fs, KindsOf(a), b, T)
  BY <1>1, <1>2 DEF Content
<1>4. ASSUME a # "openai" PROVE Blocks(s.out, s.index, s.last) /\ Signed(s.out, fs, b, s.index, s.last)
  <2>1. Blocks(s.out, s.index, s.last) /\ Signed(s.out, fs, h, s.index, s.last)
    BY <1>4 DEF Collected
  <2>2. ASSUME Open(fs, b), NEW k \in (h + 1)..b PROVE Quiet(fs[k])
    <3>1. k \in 1..b /\ k \in DOMAIN fs
      OBVIOUS
    <3>2. ~IsTool(fs[k]) /\ fs[k].kind # "end" /\ fs[k].kind # "error" /\ fs[k] \in Frame
      BY <2>2, <3>1 DEF Open, HasError
    <3>3. \A kind \in Says(fs, k) : kind \notin {"text", "think", "sign", "redacted"}
      BY <1>4 DEF Speaks, KindsOf
    <3>4. fs[k].kind \in FrameKind
      BY <3>2, FrameType
    <3>5. CASE fs[k].kind \in {"text", "think", "sign", "redacted"}
      <4>1. fs[k].kind \in Says(fs, k)
        BY <3>5 DEF Says
      <4> QED
        BY <3>3, <3>5, <4>1
    <3>6. CASE fs[k].kind = "web"
      <4>1. ~convert_web_ref
        BY <3>3, <3>6 DEF Says
      <4> QED
        BY <3>6, <4>1 DEF Quiet
    <3>7. CASE fs[k].kind = "blank"
      BY <3>7 DEF Quiet
    <3> QED
      BY <3>2, <3>4, <3>5, <3>6, <3>7 DEF FrameKind, IsTool
  <2>3. ASSUME Open(fs, b), NEW i \in DOMAIN s.out, s.out[i].type = "sign"
        PROVE  s.out[i].index = s.index /\ s.last = "Thinking" <=> QuietFrom(fs, s.out[i].n, b)
    <3>1. Open(fs, h)
      <4>1. \A k \in 1..h : k \in 1..b
        OBVIOUS
      <4> QED
        BY <2>3, <4>1 DEF Open
    <3>2. s.out[i].index = s.index /\ s.last = "Thinking" <=> QuietFrom(fs, s.out[i].n, h)
      BY <2>1, <2>3, <3>1 DEF Signed
    <3>3. PICK m \in Nat : m = s.out[i].n
      <4>1. s.out \in Seq(EventSet)
        BY <1>1 DEF EvState
      <4>2. s.out[i] \in EventSet
        BY <4>1
      <4> QED
        BY <4>2 DEF EventSet
    <3>4. \A k \in m..h : k \in m..b
      OBVIOUS
    <3>5. \A k \in m..b : k \in m..h \/ k \in (h + 1)..b
      OBVIOUS
    <3>6. QuietFrom(fs, m, b) <=> QuietFrom(fs, m, h)
      BY <2>2, <2>3, <3>4, <3>5 DEF QuietFrom
    <3> QED
      BY <3>2, <3>3, <3>6
  <2>4. Signed(s.out, fs, b, s.index, s.last)
    BY <2>3 DEF Signed
  <2> QED
    BY <2>1, <2>4
<1> QED
  BY <1>1, <1>3, <1>4 DEF Collected

-----------------------------------------------------------------------------
(* The messages of a chunk of a response that is not streamed *)

\* The block of a tool call.
CallBlock(es, y, T) ==
  /\ es \in Seq(EventSet) /\ es # <<>> /\ Numbers(es) = T
  /\ \A i \in DOMAIN es : es[i].index = y /\ es[i].type = "json"
  /\ \A i, j \in DOMAIN es : i < j => es[i].n < es[j].n

LEMMA JsonNever ==
  ASSUME NEW fs \in Seq(Frame), NEW n \in DOMAIN fs
  PROVE  "json" \notin Says(fs, n)
<1>1. fs[n] \in Frame
  OBVIOUS
<1>2. fs[n].kind \in FrameKind
  BY <1>1, FrameType
<1>3. fs[n].kind # "json"
  BY <1>2 DEF FrameKind
<1> QED
  BY <1>3 DEF Says

LEMMA ToolCollected ==
  ASSUME NEW s, NEW fs \in Seq(Frame), NEW h \in Nat, h <= Len(fs), Blocked(s, fs, h), ~Open(fs, h),
         NEW T, NEW es, CallBlock(es, NextIndex(s), T),
         \A i \in DOMAIN s.out, j \in DOMAIN es : s.out[i].n < es[j].n
  PROVE  Collected("anthropic", NewBlock(s, "ToolUse", es), fs, h, T)
<1>1. PICK out, x, last, y : out = s.out /\ x = s.index /\ last = s.last /\ y = NextIndex(s)
  OBVIOUS
<1>2. /\ s \in EvState /\ out \in Seq(EventSet) /\ x \in Nat
      /\ Content(out, fs, KindsOf("anthropic"), h, {}) /\ Blocks(out, x, last)
  BY <1>1 DEF Blocked, EvState
<1>y. y \in Nat /\ y = IF last = "None" THEN x ELSE x + 1
  BY <1>1, <1>2 DEF NextIndex
<1>3. /\ es \in Seq(EventSet) /\ es # <<>> /\ Numbers(es) = T
      /\ \A i \in DOMAIN es : es[i].index = y /\ es[i].type = "json"
      /\ \A i, j \in DOMAIN es : i < j => es[i].n < es[j].n
  BY <1>1 DEF CallBlock
<1>4. PICK r : r = NewBlock(s, "ToolUse", es)
  OBVIOUS
<1>5. r \in EvState /\ r.out = out \o es /\ r.index = y /\ r.last = "ToolUse"
  <2>1. "ToolUse" \in BlockKind
    BY DEF BlockKind
  <2>2. Made(r, s, "ToolUse", es)
    BY <1>2, <1>3, <1>4, <2>1, NewBlockIs
  <2> QED
    BY <1>1, <2>2 DEF Made
<1>6. Blocks(out \o es, y, "ToolUse")
  <2>1. OneBlock(es, y, "ToolUse")
    BY <1>3, TypeOfIs DEF OneBlock, BlockType
  <2>2. last # "None" => TypeOf("ToolUse") # TypeOf(last)
    <3>1. ASSUME last # "None" PROVE TypeOf(last) # "json"
      <4>1. PICK i \in DOMAIN out : out[i].index = x /\ BlockType(out[i]) = TypeOf(last)
        BY <1>2, <3>1 DEF Blocks
      <4>2. out[i].n \in 1..h /\ out[i].type \in Says(fs, out[i].n)
        BY <1>2, ContentUpTo
      <4>3. out[i].n \in DOMAIN fs
        BY <4>2
      <4>4. out[i].type # "json"
        BY <4>2, <4>3, JsonNever
      <4> QED
        BY <4>1, <4>4 DEF BlockType
    <3> QED
      BY <3>1, TypeOfIs
  <2>3. TypeOf("ToolUse") # "redacted" /\ "ToolUse" # "None"
    BY TypeOfIs
  <2>4. PICK type : type = "ToolUse"
    OBVIOUS
  <2>5. Blocks(out \o es, y, type)
    BY <1>2, <1>y, <2>1, <2>2, <2>3, <2>4, BlocksNew
  <2> QED
    BY <2>4, <2>5
<1>7. PICK l \in Nat, k \in Nat : l = Len(out) /\ DOMAIN out = 1..l /\ k = Len(es) /\ DOMAIN es = 1..k
  BY <1>2, <1>3
<1>8. PICK new : new = out \o es
  OBVIOUS
<1>9. /\ DOMAIN new = 1..(l + k) /\ \A i \in 1..l : new[i] = out[i]
      /\ \A i \in 1..k : new[l + i] = es[i]
      /\ new \in Seq(EventSet)
  BY <1>2, <1>3, <1>7, <1>8, Joined
<1>10. ASSUME NEW i \in DOMAIN new
       PROVE  (\E j \in DOMAIN out : new[i] = out[j]) \/ (\E j \in DOMAIN es : new[i] = es[j])
  <2>1. CASE i \in 1..l
    BY <1>7, <1>9, <2>1
  <2>2. CASE i \notin 1..l
    <3>1. i - l \in 1..k /\ i = l + (i - l)
      BY <1>9, <2>2
    <3> QED
      BY <1>7, <1>9, <3>1
  <2> QED
    BY <2>1, <2>2
<1>11. (\A i \in 1..l : i \in DOMAIN new) /\ (\A i \in 1..k : l + i \in DOMAIN new)
  BY <1>9
<1>12. ASSUME NEW i \in DOMAIN out PROVE out[i].n \notin T
  <2>1. ASSUME NEW j \in DOMAIN es, es[j].n = out[i].n PROVE FALSE
    <3>1. out[i].n < es[j].n /\ out[i] \in EventSet
      BY <1>1, <1>2
    <3> QED
      BY <2>1, <3>1 DEF EventSet
  <2> QED
    BY <1>3, <2>1 DEF Numbers
<1>13. \A i \in DOMAIN new : IF new[i].n \in T THEN new[i].type = "json" ELSE new[i].type \in Says(fs, new[i].n)
  <2>1. \A i \in DOMAIN out : out[i].type \in Says(fs, out[i].n)
    BY <1>2, ContentUpTo
  <2>2. \A i \in DOMAIN es : es[i].n \in T
    BY <1>3 DEF Numbers
  <2> QED
    BY <1>3, <1>10, <1>12, <2>1, <2>2
<1>14. \A m : (\E i \in DOMAIN new : new[i].n = m) <=> m \in KeptOf(fs, KindsOf("anthropic"), h) \/ m \in T
  <2>1. \A m : m \in KeptOf(fs, KindsOf("anthropic"), h) <=> \E i \in DOMAIN out : out[i].n = m
    BY <1>2 DEF Content
  <2>2. \A m : m \in T <=> \E i \in DOMAIN es : es[i].n = m
    BY <1>3 DEF Numbers
  <2>3. \A m : (\E i \in DOMAIN out : out[i].n = m) => \E i \in DOMAIN new : new[i].n = m
    BY <1>7, <1>9, <1>11
  <2>4. \A m : (\E i \in DOMAIN es : es[i].n = m) => \E i \in DOMAIN new : new[i].n = m
    BY <1>7, <1>9, <1>11
  <2> QED
    BY <1>10, <2>1, <2>2, <2>3, <2>4
<1>15. \A i, j \in DOMAIN new : i < j => new[i].n < new[j].n
  <2> DEFINE R == {p \in EventSet \X EventSet : p[1].n < p[2].n}
  <2>r. \A d, g \in EventSet : <<d, g>> \in R <=> d.n < g.n
    OBVIOUS
  <2> HIDE DEF R
  <2>t. /\ \A i \in DOMAIN out : out[i] \in EventSet
        /\ \A i \in DOMAIN es : es[i] \in EventSet
        /\ \A i \in DOMAIN new : new[i] \in EventSet
    BY <1>2, <1>3, <1>9
  <2>1. PairsIn(out, R)
    BY <1>2, <2>r, <2>t DEF PairsIn, Content
  <2>2. PairsIn(es, R)
    BY <1>3, <2>r, <2>t DEF PairsIn
  <2>3. \A i \in DOMAIN out, j \in DOMAIN es : <<out[i], es[j]>> \in R
    BY <1>1, <2>r, <2>t
  <2>4. PairsIn(new, R)
    BY <1>2, <1>3, <1>8, <2>1, <2>2, <2>3, PairsJoin
  <2> QED
    BY <2>4, <2>r, <2>t DEF PairsIn
<1>16. Content(new, fs, KindsOf("anthropic"), h, T)
  <2>1. {new[i].n : i \in DOMAIN new} = KeptOf(fs, KindsOf("anthropic"), h) \cup T
    BY <1>14
  <2> QED
    BY <1>13, <1>15, <2>1 DEF Content
<1>17. Signed(r.out, fs, h, r.index, r.last)
  BY DEF Signed
<1>18. Collected("anthropic", r, fs, h, T)
  BY <1>5, <1>6, <1>8, <1>16, <1>17 DEF Collected
<1> QED
  BY <1>4, <1>18

\* The arguments that a chunk brings make a block.
LEMMA PiecesBlock ==
  ASSUME NEW ms, NEW lo \in Nat, NEW hi \in Nat, Fine(ms, lo, hi), NEW y \in Nat, NEW es,
         es = [i \in DOMAIN Pieces(ms) |-> Event("json", y, Pieces(ms)[i].n)],
         ToolNumbers(ms) # {}
  PROVE  CallBlock(es, y, ToolNumbers(ms))
<1>1. ms \in Seq(MsgSet) /\ Len(ms) \in Nat /\ DOMAIN ms = 1..Len(ms)
  BY DEF Fine
<1>2. PICK ps : ps = Pieces(ms)
  OBVIOUS
<1>3. ps \in Seq(MsgSet) /\ \E h : Picks(h, ps, ms, [kind : {"tool"}, n : Nat], Len(ms))
  BY <1>1, <1>2, PiecesAre
<1>4. PICK h : Picks(h, ps, ms, [kind : {"tool"}, n : Nat], Len(ms))
  BY <1>3
<1>5. PICK l \in Nat : l = Len(ps) /\ DOMAIN ps = 1..l
  BY <1>3
<1>6. es = [i \in 1..l |-> Event("json", y, ps[i].n)]
  BY <1>2, <1>5
<1>7. ASSUME NEW i \in 1..l
      PROVE  /\ ps[i].n \in Nat /\ h[i] \in 1..Len(ms) /\ ps[i] = ms[h[i]]
             /\ ps[i].kind = "tool"
             /\ es[i] \in EventSet /\ es[i].n = ps[i].n /\ es[i].index = y /\ es[i].type = "json"
  <2>a. ps[i] \in MsgSet
    BY <1>3, <1>5
  <2>b. h[i] \in 1..Len(ms)
    BY <1>4, <1>5 DEF Picks
  <2>c. ps[i] = ms[h[i]] /\ ps[i] \in [kind : {"tool"}, n : Nat]
    BY <1>4, <1>5 DEF Picks
  <2>1. ps[i] \in MsgSet /\ h[i] \in 1..Len(ms) /\ ps[i] = ms[h[i]] /\ ps[i] \in [kind : {"tool"}, n : Nat]
    BY <2>a, <2>b, <2>c
  <2>2. ps[i].n \in Nat /\ ps[i].kind = "tool"
    BY <2>1
  <2>3. "json" \in EventTypes
    BY DEF EventTypes
  <2>4. PICK e : e = Event("json", y, ps[i].n)
    OBVIOUS
  <2>5. e \in EventSet /\ e.n = ps[i].n /\ e.index = y /\ e.type = "json"
    BY <2>2, <2>3, <2>4 DEF Event, EventSet
  <2> QED
    BY <1>6, <2>1, <2>2, <2>4, <2>5
<1>8. es \in Seq(EventSet) /\ DOMAIN es = 1..l
  BY <1>5, <1>6, <1>7
<1>9. ASSUME NEW i \in 1..l, NEW j \in 1..l, i < j PROVE es[i].n < es[j].n
  <2>1. h[i] < h[j]
    BY <1>4, <1>5, <1>9 DEF Picks
  <2>2. h[i] \in DOMAIN ms /\ h[j] \in DOMAIN ms /\ ms[h[j]].kind # "end"
    BY <1>1, <1>7
  <2>3. ms[h[i]].n < ms[h[j]].n
    BY <2>1, <2>2 DEF Fine
  <2> QED
    BY <1>7, <2>3
<1>p. ASSUME NEW i \in 1..l PROVE h[i] \in DOMAIN ms /\ ms[h[i]].kind = "tool" /\ es[i].n = ms[h[i]].n
  <2>1. h[i] \in 1..Len(ms) /\ ps[i] = ms[h[i]] /\ ps[i].kind = "tool" /\ es[i].n = ps[i].n
    BY <1>7
  <2> QED
    BY <1>1, <2>1
<1>10. ASSUME NEW k \in DOMAIN ms, ms[k].kind = "tool" PROVE \E i \in 1..l : es[i].n = ms[k].n
  <2>1. ms[k] \in MsgSet
    BY <1>1
  <2>2. ms[k] \in [kind : {"tool"}, n : Nat]
    BY <1>10, <2>1 DEF MsgSet
  <2>3. PICK i \in 1..l : h[i] = k
    BY <1>1, <1>4, <1>5, <2>2 DEF Picks
  <2>4. es[i].n = ms[k].n
    BY <1>p, <2>3
  <2> QED
    BY <2>4
<1>11. Numbers(es) = ToolNumbers(ms)
  <2>1. ASSUME NEW z \in Numbers(es) PROVE z \in ToolNumbers(ms)
    <3>1. PICK i \in 1..l : z = es[i].n
      BY <1>8 DEF Numbers
    <3>2. h[i] \in DOMAIN ms /\ ms[h[i]].kind = "tool" /\ z = ms[h[i]].n
      BY <1>p, <3>1
    <3> QED
      BY <3>2 DEF ToolNumbers
  <2>2. ASSUME NEW z \in ToolNumbers(ms) PROVE z \in Numbers(es)
    <3>1. PICK k \in DOMAIN ms : ms[k].kind = "tool" /\ z = ms[k].n
      BY DEF ToolNumbers
    <3> QED
      BY <1>8, <1>10, <3>1 DEF Numbers
  <2> QED
    BY <2>1, <2>2
<1>12. es # <<>>
  <2>1. PICK k \in DOMAIN ms : ms[k].kind = "tool"
    BY DEF ToolNumbers
  <2>2. PICK i \in 1..l : es[i].n = ms[k].n
    BY <1>10, <2>1
  <2> QED
    BY <1>8, <2>2
<1> QED
  BY <1>7, <1>8, <1>9, <1>11, <1>12 DEF CallBlock

\* The last piece is one of the messages.
LEMMA LastPieceIs ==
  ASSUME NEW ms \in Seq(MsgSet), ToolNumbers(ms) # {}
  PROVE  \E k \in DOMAIN ms : ms[k].kind = "tool" /\ ms[k] = Last(Pieces(ms))
<1>1. Len(ms) \in Nat /\ DOMAIN ms = 1..Len(ms)
  OBVIOUS
<1>2. PICK ps : ps = Pieces(ms)
  OBVIOUS
<1>3. ps \in Seq(MsgSet) /\ \E h : Picks(h, ps, ms, [kind : {"tool"}, n : Nat], Len(ms))
  BY <1>2, PiecesAre
<1>4. PICK h : Picks(h, ps, ms, [kind : {"tool"}, n : Nat], Len(ms))
  BY <1>3
<1>5. PICK l \in Nat : l = Len(ps) /\ DOMAIN ps = 1..l
  BY <1>3
<1>6. PICK k \in DOMAIN ms : ms[k].kind = "tool"
  BY DEF ToolNumbers
<1>7. ms[k] \in [kind : {"tool"}, n : Nat]
  <2>1. ms[k] \in MsgSet
    OBVIOUS
  <2> QED
    BY <1>6, <2>1 DEF MsgSet
<1>8. PICK i \in 1..l : h[i] = k
  BY <1>1, <1>4, <1>5, <1>7 DEF Picks
<1>9. l \in 1..l
  OBVIOUS
<1>10. h[l] \in 1..Len(ms) /\ ps[l] = ms[h[l]] /\ ps[l] \in [kind : {"tool"}, n : Nat]
  BY <1>4, <1>5, <1>9 DEF Picks
<1>11. Last(ps) = ps[l]
  BY <1>5 DEF Last
<1> QED
  BY <1>1, <1>2, <1>10, <1>11

\* The frame of the message before the i-th, or the one before them all.
FrameBefore(ms, lo, i) == IF i = 1 THEN lo ELSE ms[i - 1].n

\* Nothing is said between frame p and frame n, that of message m.
Gap(fs, lo, hi, p, n, m) ==
  /\ p \in Nat /\ n \in Nat /\ lo <= p /\ p <= n /\ n <= hi /\ lo < n
  /\ p = n => m.kind = "end"
  /\ \A k \in (p + 1)..(n - 1) : Says(fs, k) = {}

\* Frames between those of two messages say nothing, and after the last.
LEMMA Between ==
  ASSUME NEW ms, NEW fs, NEW lo \in Nat, NEW hi \in Nat, lo <= hi, Exact(ms, fs, lo, hi),
         NEW i \in Nat, i \in 1..Len(ms), NEW p, p = FrameBefore(ms, lo, i), NEW n, n = ms[i].n
  PROVE  Gap(fs, lo, hi, p, n, ms[i])
<1>1. PICK l \in Nat : l = Len(ms) /\ DOMAIN ms = 1..l /\ ms \in Seq(MsgSet)
  BY DEF Exact, Fine
<1>2. ASSUME NEW j \in 1..l PROVE ms[j].n \in Nat /\ lo < ms[j].n /\ ms[j].n <= hi
  <2>1. ms[j] \in MsgSet
    BY <1>1
  <2> QED
    BY <1>1, <2>1 DEF Exact, Fine, MsgSet
<1>3. ASSUME NEW j \in 1..l, NEW k \in 1..l, j < k
      PROVE  ms[j].n <= ms[k].n /\ (ms[j].n = ms[k].n => ms[k].kind = "end")
  <2>1. \/ ms[j].n < ms[k].n
        \/ ms[j].n = ms[k].n /\ ms[j].kind = "tool" /\ ms[k].kind = "end"
    BY <1>1, <1>3 DEF Exact, Fine
  <2> QED
    BY <1>2, <2>1
<1>4. i \in 1..l
  BY <1>1
<1>5. n \in Nat /\ n <= hi /\ lo < n
  BY <1>2, <1>4
<1>6. /\ p \in Nat /\ lo <= p /\ p <= n
      /\ p = n => ms[i].kind = "end"
  <2>1. CASE i = 1
    BY <1>5, <2>1 DEF FrameBefore
  <2>2. CASE i # 1
    <3>1. i - 1 \in 1..l /\ i - 1 < i /\ p = ms[i - 1].n
      BY <1>4, <2>2 DEF FrameBefore
    <3> QED
      BY <1>2, <1>3, <1>4, <3>1
  <2> QED
    BY <2>1, <2>2
<1>7. ASSUME NEW k \in (p + 1)..(n - 1), NEW kind \in Says(fs, k) PROVE FALSE
  <2>1. k \in (lo + 1)..hi /\ p < k /\ k < n
    BY <1>5, <1>6
  <2>2. PICK j \in 1..l : ms[j].n = k
    BY <1>1, <2>1 DEF Exact
  <2>3. ~(i <= j)
    <3>1. i = j \/ i < j => n <= ms[j].n
      BY <1>3, <1>4, <1>5
    <3> QED
      BY <1>4, <1>5, <2>1, <2>2, <3>1
  <2>4. i # 1 /\ i - 1 \in 1..l /\ j <= i - 1
    BY <1>4, <2>3
  <2>5. p = ms[i - 1].n
    BY <2>4 DEF FrameBefore
  <2>6. j = i - 1 \/ j < i - 1 => ms[j].n <= p
    BY <1>3, <1>6, <2>4, <2>5
  <2> QED
    BY <1>6, <2>1, <2>2, <2>4, <2>6
<1> QED
  BY <1>5, <1>6, <1>7 DEF Gap

LEMMA AfterLast ==
  ASSUME NEW ms, NEW fs, NEW lo \in Nat, NEW hi \in Nat, lo <= hi, Exact(ms, fs, lo, hi),
         NEW p, p = FrameBefore(ms, lo, Len(ms) + 1)
  PROVE  p \in Nat /\ lo <= p /\ p <= hi /\ \A k \in (p + 1)..hi : Says(fs, k) = {}
<1>1. PICK l \in Nat : l = Len(ms) /\ DOMAIN ms = 1..l /\ ms \in Seq(MsgSet)
  BY DEF Exact, Fine
<1>2. ASSUME NEW j \in 1..l PROVE ms[j].n \in Nat /\ lo < ms[j].n /\ ms[j].n <= hi
  <2>1. ms[j] \in MsgSet
    BY <1>1
  <2> QED
    BY <1>1, <2>1 DEF Exact, Fine, MsgSet
<1>3. ASSUME NEW j \in 1..l, NEW k \in 1..l, j < k PROVE ms[j].n <= ms[k].n
  <2>1. ms[j].n < ms[k].n \/ ms[j].n = ms[k].n
    BY <1>1, <1>3 DEF Exact, Fine
  <2> QED
    BY <1>2, <2>1
<1>4. p = IF l = 0 THEN lo ELSE ms[l].n
  BY <1>1 DEF FrameBefore
<1>5. l # 0 => l \in 1..l
  OBVIOUS
<1>6. p \in Nat /\ lo <= p /\ p <= hi
  BY <1>2, <1>4, <1>5
<1>7. ASSUME NEW k \in (p + 1)..hi, NEW kind \in Says(fs, k) PROVE FALSE
  <2>1. k \in (lo + 1)..hi /\ p < k
    BY <1>6
  <2>2. PICK j \in 1..l : ms[j].n = k
    BY <1>1, <2>1 DEF Exact
  <2>3. l # 0 /\ (j = l \/ j < l)
    BY <2>2
  <2>4. ms[j].n <= p
    BY <1>2, <1>3, <1>4, <1>5, <1>6, <2>3
  <2> QED
    BY <1>6, <2>1, <2>2, <2>4
<1> QED
  BY <1>6, <1>7

\* A frame has either something for the body or nothing.
LEMMA SaysOne ==
  ASSUME NEW fs, NEW n, NEW a, NEW kind \in Says(fs, n), kind \notin KindsOf(a)
  PROVE  ~Speaks(fs, KindsOf(a), n)
<1> SUFFICES ASSUME NEW other \in Says(fs, n), other \in KindsOf(a) PROVE FALSE
  BY DEF Speaks
<1>1. other \in {"text", "think", "sign", "redacted"}
  BY DEF KindsOf
<1>2. Says(fs, n) = {other}
  <2>1. ~IsTool(fs[n]) /\ fs[n].kind \notin {"blank", "error"}
    BY <1>1, SaysPlain DEF Says
  <2> QED
    BY <2>1 DEF Says, IsTool
<1> QED
  BY <1>2

LEMMA MuteFrames ==
  ASSUME NEW fs, NEW K, NEW k, Says(fs, k) = {}
  PROVE  ~Speaks(fs, K, k)
BY DEF Speaks

\* The frames of the content and those of the call.
LEMMA CallAfter ==
  ASSUME NEW fs \in Seq(Frame), OrderlyFrames(fs), NEW h \in Nat, h <= Len(fs), NEW out,
         out \in Seq(EventSet), Content(out, fs, KindsOf("anthropic"), h, {}), NEW i \in DOMAIN out,
         NEW t \in DOMAIN fs, IsTool(fs[t])
  PROVE  out[i].n < t
<1>1. PICK m \in 1..h : m = out[i].n /\ m \in KeptOf(fs, KindsOf("anthropic"), h)
  BY ContentUpTo
<1>2. PICK kind \in Says(fs, m) : kind \in KindsOf("anthropic")
  BY <1>1 DEF KeptOf, Speaks
<1>3. ~IsTool(fs[m])
  <2>1. kind \in {"text", "think", "sign", "redacted"}
    BY <1>2 DEF KindsOf
  <2> QED
    BY <2>1, SaysPlain
<1>4. m \in DOMAIN fs
  BY <1>1
<1>5. ~(t < m)
  BY <1>3, <1>4, ToolsLast DEF IsTool
<1>6. t \in Nat
  OBVIOUS
<1> QED
  BY <1>1, <1>3, <1>5, <1>6

\* The call is made with the last of its pieces.
CallMade(ms, i) == \E k \in 1..i : ms[k].kind = "tool" /\ ms[k] = Last(Pieces(ms))
CallsUpTo(a, ms, i) == IF a # "openai" /\ CallMade(ms, i) THEN ToolNumbers(ms) ELSE {}

\* The messages of the frames after lo, which have all of a call, if any of it.
Batch(a, ms, fs, lo, hi, c) ==
  /\ a \in Apis /\ fs \in Seq(Frame) /\ OrderlyFrames(fs) /\ ~HasError(fs)
  /\ lo \in Nat /\ hi \in Nat /\ lo <= hi /\ hi = Len(fs) /\ Exact(ms, fs, lo, hi)
  /\ a # "openai" /\ ToolNumbers(ms) # {} => c

LEMMA MessageCollected ==
  ASSUME NEW a, NEW ms, NEW fs, NEW lo, NEW hi, NEW c, Batch(a, ms, fs, lo, hi, c),
         NEW i \in Nat, i \in 1..Len(ms), NEW s,
         Collected(a, s, fs, FrameBefore(ms, lo, i), CallsUpTo(a, ms, i - 1)),
         NEW r, r = CollectStep(a, s, ms[i], Pieces(ms), c)
  PROVE  Collected(a, r, fs, ms[i].n, CallsUpTo(a, ms, i))
<1>0. /\ a \in Apis /\ fs \in Seq(Frame) /\ OrderlyFrames(fs) /\ ~HasError(fs)
      /\ lo \in Nat /\ hi \in Nat /\ lo <= hi /\ hi = Len(fs) /\ Exact(ms, fs, lo, hi)
      /\ a # "openai" /\ ToolNumbers(ms) # {} => c
  BY DEF Batch
<1>1. PICK l \in Nat : l = Len(ms) /\ DOMAIN ms = 1..l /\ ms \in Seq(MsgSet) /\ Fine(ms, lo, hi)
  BY <1>0 DEF Exact, Fine
<1>2. PICK p, n, m : p = FrameBefore(ms, lo, i) /\ n = ms[i].n /\ m = ms[i]
  OBVIOUS
<1>3. /\ p \in Nat /\ n \in Nat /\ lo <= p /\ p <= n /\ n <= hi /\ lo < n
      /\ p = n => m.kind = "end"
      /\ \A k \in (p + 1)..(n - 1) : Says(fs, k) = {}
  <2>1. Gap(fs, lo, hi, p, n, m)
    BY <1>0, <1>2, Between
  <2> QED
    BY <2>1 DEF Gap
<1>4. i \in DOMAIN ms /\ m \in MsgSet /\ m.n = n /\ m.kind \in Says(fs, n)
  BY <1>0, <1>1, <1>2 DEF Exact
<1>5. DOMAIN fs = 1..hi /\ n \in DOMAIN fs
  BY <1>0, <1>3
<1>6. ASSUME NEW k \in 1..(i - 1) PROVE k \in 1..i /\ k \in DOMAIN ms /\ k < i
  BY <1>1
<1>7. ASSUME NEW k \in DOMAIN ms, ms[k].kind = "tool"
      PROVE  ms[k].n \in DOMAIN fs /\ IsTool(fs[ms[k].n])
  <2>1. ms[k] \in MsgSet /\ lo < ms[k].n /\ ms[k].n <= hi /\ "tool" \in Says(fs, ms[k].n)
    BY <1>0, <1>1, <1>7 DEF Exact, Fine
  <2>2. ms[k].n \in Nat
    BY <2>1 DEF MsgSet
  <2> QED
    BY <1>0, <1>5, <2>1, <2>2, SaysWhat
<1>8. PICK T : T = CallsUpTo(a, ms, i - 1)
  OBVIOUS
<1>9. Collected(a, s, fs, p, T)
  BY <1>2, <1>8
<1>10. CASE m.kind \in KindsOf(a)
  <2>1. m.kind \in {"text", "think", "sign", "redacted"}
    BY <1>10 DEF KindsOf
  <2>2. PICK h \in Nat : h = n - 1 /\ n = h + 1 /\ p <= h /\ h <= Len(fs)
    BY <1>0, <1>3, <2>1
  <2>3. ~CallMade(ms, i - 1)
    <3>1. ASSUME NEW k \in 1..(i - 1), ms[k].kind = "tool" PROVE FALSE
      <4>1. k \in DOMAIN ms /\ k < i
        BY <1>6
      <4>2. ms[k].n < n
        BY <1>1, <1>2, <1>4, <2>1, <4>1 DEF Fine
      <4>3. ms[k].n \in DOMAIN fs /\ IsTool(fs[ms[k].n])
        BY <1>7, <3>1, <4>1
      <4>4. fs[n].kind = "tool"
        BY <1>0, <1>5, <4>2, <4>3, ToolsLast
      <4>5. ~IsTool(fs[n])
        BY <1>4, <2>1, SaysPlain
      <4> QED
        BY <4>4, <4>5 DEF IsTool
    <3> QED
      BY <3>1 DEF CallMade
  <2>4. T = {} /\ CallsUpTo(a, ms, i) = {}
    <3>1. ~CallMade(ms, i)
      <4>1. \A k \in 1..i : k \in 1..(i - 1) \/ k = i
        OBVIOUS
      <4> QED
        BY <1>2, <2>1, <2>3, <4>1 DEF CallMade
    <3> QED
      BY <1>8, <2>3, <3>1 DEF CallsUpTo
  <2>5. Collected(a, s, fs, h, {})
    <3>1. \A k \in (p + 1)..h : ~Speaks(fs, KindsOf(a), k)
      BY <1>3, <2>2, MuteFrames
    <3> QED
      BY <1>0, <1>3, <1>9, <2>2, <2>4, <3>1, SkipCollected
  <2>6. Comes(fs, h, n, m.kind)
    BY <1>0, <1>3, <1>4, <2>2 DEF Comes
  <2>7. PICK ps : ps = Pieces(ms)
    OBVIOUS
  <2>8. r = CollectStep(a, s, m, ps, c)
    BY <1>2, <2>7
  <2>9. Collected(a, r, fs, n, {})
    BY <1>0, <1>3, <1>4, <1>10, <2>5, <2>6, <2>8, PlainCollected
  <2> QED
    BY <1>2, <2>4, <2>9
<1>11. CASE m.kind \notin KindsOf(a)
  <2>1. Collected(a, s, fs, n, T)
    <3>1. \A k \in (p + 1)..n : ~Speaks(fs, KindsOf(a), k)
      <4>1. \A k \in (p + 1)..n : k \in (p + 1)..(n - 1) \/ k = n
        BY <1>3
      <4> QED
        BY <1>3, <1>4, <1>11, <4>1, MuteFrames, SaysOne
    <3> QED
      BY <1>0, <1>3, <1>9, <3>1, SkipCollected
  <2>2. CASE a # "openai" /\ m.kind = "tool" /\ m = Last(Pieces(ms))
    <3>1. ToolNumbers(ms) # {} /\ c
      <4>1. n \in ToolNumbers(ms)
        BY <1>2, <1>4, <2>2 DEF ToolNumbers
      <4> QED
        BY <1>0, <2>2, <4>1
    <3>2. CallsUpTo(a, ms, i) = ToolNumbers(ms)
      <4>1. i \in 1..i
        BY <1>1
      <4> QED
        BY <1>2, <2>2, <4>1 DEF CallsUpTo, CallMade
    <3>3. T = {}
      <4>1. ASSUME NEW k \in 1..(i - 1), ms[k] = m PROVE FALSE
        <5>1. k \in DOMAIN ms /\ k < i
          BY <1>6
        <5>2. ms[k].n < n
          BY <1>1, <1>2, <1>4, <2>2, <5>1 DEF Fine
        <5> QED
          BY <1>3, <1>4, <4>1, <5>2
      <4> QED
        BY <1>8, <2>2, <4>1 DEF CallsUpTo, CallMade
    <3>4. a = "anthropic" /\ Blocked(s, fs, n)
      <4>1. a = "anthropic"
        BY <1>0, <2>2 DEF Apis
      <4> QED
        BY <2>1, <3>3, <4>1, CollectedIs
    <3>5. PICK es : es = [j \in DOMAIN Pieces(ms) |-> Event("json", NextIndex(s), Pieces(ms)[j].n)]
      OBVIOUS
    <3>6. r = NewBlock(s, "ToolUse", es)
      BY <1>2, <2>2, <3>1, <3>4, <3>5 DEF CollectStep, CollectAnthropic, CollectTool
    <3>7. PICK y \in Nat : y = NextIndex(s)
      BY <3>4 DEF Blocked, EvState, NextIndex
    <3>8. CallBlock(es, NextIndex(s), ToolNumbers(ms))
      <4>1. es = [j \in DOMAIN Pieces(ms) |-> Event("json", y, Pieces(ms)[j].n)]
        BY <3>5, <3>7
      <4>2. CallBlock(es, y, ToolNumbers(ms))
        BY <1>0, <1>1, <3>1, <4>1, PiecesBlock
      <4> QED
        BY <3>7, <4>2
    <3>9. ~Open(fs, n)
      <4>1. IsTool(fs[n])
        BY <1>2, <1>4, <1>7, <2>2
      <4>2. n \in 1..n
        <5>1. n \in Nat /\ lo \in Nat /\ lo < n
          BY <1>0, <1>3
        <5> QED
          BY <5>1
      <4> QED
        BY <4>1, <4>2 DEF Open
    <3>10. ASSUME NEW j \in DOMAIN s.out, NEW k \in DOMAIN es PROVE s.out[j].n < es[k].n
      <4>1. es[k].n \in ToolNumbers(ms)
        BY <3>8 DEF CallBlock, Numbers
      <4>2. PICK o \in DOMAIN ms : ms[o].kind = "tool" /\ es[k].n = ms[o].n
        BY <4>1 DEF ToolNumbers
      <4>3. es[k].n \in DOMAIN fs /\ IsTool(fs[es[k].n])
        BY <1>7, <4>2
      <4>4. s.out \in Seq(EventSet) /\ Content(s.out, fs, KindsOf("anthropic"), n, {})
        BY <3>4 DEF Blocked, EvState
      <4> QED
        BY <1>0, <1>3, <4>3, <4>4, CallAfter
    <3>11. Collected("anthropic", NewBlock(s, "ToolUse", es), fs, n, ToolNumbers(ms))
      BY <1>0, <1>3, <3>4, <3>8, <3>9, <3>10, ToolCollected
    <3> QED
      BY <1>2, <3>2, <3>4, <3>6, <3>11
  <2>3. CASE ~(a # "openai" /\ m.kind = "tool" /\ m = Last(Pieces(ms)))
    <3>1. r = s
      <4>1. CASE a = "openai"
        BY <1>2, <1>11, <4>1 DEF CollectStep, CollectOpenAi, KindsOf
      <4>2. CASE a # "openai"
        <5>1. m.kind \notin {"text", "think", "sign", "redacted"}
          BY <1>11, <4>2 DEF KindsOf
        <5> QED
          BY <1>2, <2>3, <4>2, <5>1 DEF CollectStep, CollectAnthropic, CollectTool
      <4> QED
        BY <4>1, <4>2
    <3>2. CallsUpTo(a, ms, i) = T
      <4>1. \A k : k \in 1..i <=> k \in 1..(i - 1) \/ k = i
        BY <1>1
      <4>2. a # "openai" => (CallMade(ms, i) <=> CallMade(ms, i - 1))
        BY <1>2, <2>3, <4>1 DEF CallMade
      <4> QED
        BY <1>8, <4>2 DEF CallsUpTo
    <3> QED
      BY <1>2, <2>1, <3>1, <3>2
  <2> QED
    BY <2>2, <2>3
<1> QED
  BY <1>10, <1>11

LEMMA BatchCollected ==
  ASSUME NEW a, NEW ms, NEW fs, NEW lo, NEW hi, NEW c, Batch(a, ms, fs, lo, hi, c), NEW s,
         Collected(a, s, fs, lo, {})
  PROVE  Collected(a, collect(a, s, ms, c), fs, hi, IF a # "openai" THEN ToolNumbers(ms) ELSE {})
<1>0. /\ a \in Apis /\ fs \in Seq(Frame) /\ ~HasError(fs)
      /\ lo \in Nat /\ hi \in Nat /\ lo <= hi /\ hi = Len(fs) /\ Exact(ms, fs, lo, hi)
  BY DEF Batch
<1>1. PICK l \in Nat : l = Len(ms) /\ DOMAIN ms = 1..l /\ ms \in Seq(MsgSet)
  BY <1>0 DEF Exact, Fine
<1>2. PICK f : /\ f[0] = s
               /\ \A i \in 0..Len(ms) :
                    i # 0 => f[i] = CollectStep(a, f[i - 1], ms[i], Pieces(ms), c)
               /\ collect(a, s, ms, c) = f[Len(ms)]
  <2>1. Len(ms) \in Nat
    BY <1>1
  <2>2. \E f : CollectTurns(f, a, s, ms, c)
    BY <2>1, CollectRun
  <2> QED
    BY <2>2 DEF CollectTurns
<1> DEFINE P == {i \in Nat : Collected(a, f[i], fs, FrameBefore(ms, lo, i + 1), CallsUpTo(a, ms, i))}
<1>3. 0 \in P
  <2>1. FrameBefore(ms, lo, 0 + 1) = lo
    BY DEF FrameBefore
  <2>2. CallsUpTo(a, ms, 0) = {}
    BY DEF CallsUpTo, CallMade
  <2> QED
    BY <1>2, <2>1, <2>2
<1>4. ASSUME NEW i \in 0..l, i # 0, i - 1 \in P PROVE i \in P
  <2>1. i \in Nat /\ i \in 1..Len(ms) /\ (i - 1) + 1 = i
    BY <1>1, <1>4
  <2>2. PICK t : t = f[i - 1]
    OBVIOUS
  <2>3. Collected(a, t, fs, FrameBefore(ms, lo, i), CallsUpTo(a, ms, i - 1))
    BY <1>4, <2>1, <2>2
  <2>4. f[i] = CollectStep(a, t, ms[i], Pieces(ms), c)
    BY <1>1, <1>2, <1>4, <2>2
  <2>5. Collected(a, f[i], fs, ms[i].n, CallsUpTo(a, ms, i))
    BY <2>1, <2>3, <2>4, MessageCollected
  <2>6. FrameBefore(ms, lo, i + 1) = ms[i].n
    <3>1. i + 1 # 1 /\ (i + 1) - 1 = i
      BY <2>1
    <3> QED
      BY <3>1 DEF FrameBefore
  <2> QED
    BY <2>1, <2>5, <2>6
<1> HIDE DEF P
<1>5. \A i \in 0..l : i \in P
  BY <1>1, <1>3, <1>4, Upwards
<1> USE DEF P
<1>6. PICK p : p = FrameBefore(ms, lo, Len(ms) + 1)
  OBVIOUS
<1>7. p \in Nat /\ p <= hi /\ \A k \in (p + 1)..hi : Says(fs, k) = {}
  BY <1>0, <1>6, AfterLast
<1>8. Collected(a, f[l], fs, p, CallsUpTo(a, ms, l))
  <2>1. l \in 0..l
    OBVIOUS
  <2> QED
    BY <1>1, <1>5, <1>6, <2>1
<1>9. Collected(a, f[l], fs, hi, CallsUpTo(a, ms, l))
  <2>1. \A k \in (p + 1)..hi : ~Speaks(fs, KindsOf(a), k)
    BY <1>7, MuteFrames
  <2>2. hi <= Len(fs)
    BY <1>0
  <2> QED
    BY <1>0, <1>7, <1>8, <2>1, <2>2, SkipCollected
<1>10. CallsUpTo(a, ms, l) = IF a # "openai" THEN ToolNumbers(ms) ELSE {}
  <2>1. ToolNumbers(ms) # {} => CallMade(ms, l)
    BY <1>1, LastPieceIs DEF CallMade
  <2> QED
    BY <2>1 DEF CallsUpTo
<1> QED
  BY <1>1, <1>2, <1>9, <1>10

-----------------------------------------------------------------------------
(* A response that is not streamed, step by step *)

HasTool(fs) == \E i \in DOMAIN fs : IsTool(fs[i])
CallsIn(a, fs) == IF a # "openai" THEN Called(fs) ELSE {}

\* Everything that has arrived is collected, a call in one piece.
InCollect ==
  /\ from = Len(frames) + 1 /\ ~HasError(frames) /\ ArgsOf(ctx.args, frames, Len(frames))
  /\ ctx.processed <=> HasTool(frames)
  /\ HasTool(frames) => Finished(frames)
  /\ Collected(api, events, frames, Len(frames), CallsIn(api, frames))

\* The body has been made of what was collected.
MadeOf(s) ==
  /\ ctx.processed <=> HasTool(frames)
  /\ Collected(api, s, frames, Len(frames), CallsIn(api, frames))
  /\ events.out = IF api = "openai" THEN OpenAiBody(s) ELSE AnthropicBody(s, ctx.processed)

CollectInv ==
  /\ SentOnce /\ api \in Apis /\ stream \in BOOLEAN
  /\ ~stream =>
       /\ OrderlyFrames(frames) /\ phase \in {"collect", "done", "failed"}
       /\ phase = "collect" => InCollect
       /\ phase = "done" => \E s : MadeOf(s)

\* What has been collected does not depend on the frames that follow.
LEMMA CollectedPrefix ==
  ASSUME NEW a, NEW s, NEW fs, NEW all, NEW l \in Nat, Collected(a, s, fs, l, {}),
         \A i \in 1..l : all[i] = fs[i] /\ Says(all, i) = Says(fs, i)
  PROVE  Collected(a, s, all, l, {})
<1>1. PICK K, out : K = KindsOf(a) /\ out = s.out
  OBVIOUS
<1>2. s \in EvState /\ Content(out, fs, K, l, {})
  BY <1>1 DEF Collected
<1>3. ASSUME NEW i \in 1..l, NEW j \in 1..l PROVE QuietFrom(all, i, j) <=> QuietFrom(fs, i, j)
  <2>1. \A k \in i..j : k \in 1..l
    OBVIOUS
  <2> QED
    BY <2>1 DEF QuietFrom
<1>4. ASSUME NEW i \in 1..l PROVE Replaced(all, i, l) <=> Replaced(fs, i, l)
  BY <1>3 DEF Replaced
<1>5. KeptOf(all, K, l) = KeptOf(fs, K, l)
  BY <1>4 DEF KeptOf, Speaks
<1>6. ASSUME NEW i \in DOMAIN out PROVE out[i].n \in 1..l /\ out[i].type \in Says(fs, out[i].n)
  BY <1>2, ContentUpTo
<1>7. Content(out, all, K, l, {})
  BY <1>2, <1>5, <1>6 DEF Content
<1>8. ASSUME a # "openai" PROVE Signed(out, all, l, s.index, s.last)
  <2>1. Signed(out, fs, l, s.index, s.last)
    BY <1>1, <1>8 DEF Collected
  <2>2. Open(all, l) <=> Open(fs, l)
    BY DEF Open
  <2>3. \A i \in DOMAIN out : QuietFrom(all, out[i].n, l) <=> QuietFrom(fs, out[i].n, l)
    <3>1. ASSUME NEW i \in DOMAIN out PROVE out[i].n \in 1..l /\ l \in 1..l
      BY <1>6
    <3> QED
      BY <1>3, <3>1
  <2> QED
    BY <2>1, <2>2, <2>3 DEF Signed
<1> QED
  BY <1>1, <1>2, <1>7, <1>8 DEF Collected

\* A call is over with the last frame of a stream that has ended.
LEMMA CallEnds ==
  ASSUME NEW fs \in Seq(Frame), OrderlyFrames(fs), HasTool(fs), Finished(fs), NEW h \in Nat, h = Len(fs)
  PROVE  /\ h \in DOMAIN fs /\ LastTool(fs[h])
         /\ \A i \in DOMAIN fs : i # h => ~Final(fs[i])
<1>1. DOMAIN fs = 1..h
  OBVIOUS
<1>2. ASSUME NEW i \in DOMAIN fs, i # h PROVE ~Final(fs[i])
  <2>1. i \in 1..(Len(fs) - 1)
    BY <1>1, <1>2
  <2> QED
    BY <2>1 DEF OrderlyFrames
<1>3. PICK i \in DOMAIN fs : Final(fs[i])
  BY DEF Finished
<1>4. h \in DOMAIN fs /\ Final(fs[h])
  BY <1>2, <1>3
<1>5. PICK t \in DOMAIN fs : IsTool(fs[t])
  BY DEF HasTool
<1>6. CASE t = h
  BY <1>2, <1>4, <1>5, <1>6 DEF IsTool, Final, LastTool
<1>7. CASE t # h
  <2>1. t < h
    BY <1>1, <1>7
  <2>2. fs[h].kind = "tool"
    BY <1>4, <1>5, <2>1, ToolsLast
  <2> QED
    BY <1>2, <1>4, <2>2 DEF Final, LastTool
<1> QED
  BY <1>6, <1>7

LEMMA PiecesHave ==
  ASSUME NEW ms, NEW lo \in Nat, NEW hi \in Nat, Fine(ms, lo, hi), NEW ps, ps = Pieces(ms)
  PROVE  /\ ps \in Seq(MsgSet)
         /\ \A i \in DOMAIN ps : \E k \in DOMAIN ms : ps[i] = ms[k] /\ ms[k].kind = "tool"
         /\ \A k \in DOMAIN ms : ms[k].kind = "tool" => \E i \in DOMAIN ps : ps[i] = ms[k]
         /\ \A i, j \in DOMAIN ps : i < j => ps[i].n < ps[j].n
<1>1. ms \in Seq(MsgSet) /\ Len(ms) \in Nat /\ DOMAIN ms = 1..Len(ms)
  BY DEF Fine
<1>2. PICK S : S = [kind : {"tool"}, n : Nat]
  OBVIOUS
<1>3. ps \in Seq(MsgSet) /\ \E h : Picks(h, ps, ms, S, Len(ms))
  BY <1>1, <1>2, PiecesAre
<1>4. PICK h : Picks(h, ps, ms, S, Len(ms))
  BY <1>3
<1>5. PICK l \in Nat : l = Len(ps) /\ DOMAIN ps = 1..l
  BY <1>3
<1>6. ASSUME NEW i \in 1..l PROVE h[i] \in DOMAIN ms /\ ps[i] = ms[h[i]] /\ ms[h[i]].kind = "tool"
  <2>1. h[i] \in DOMAIN ms /\ ps[i] = ms[h[i]] /\ ps[i] \in S
    BY <1>1, <1>4, <1>5 DEF Picks
  <2> QED
    BY <1>2, <2>1
<1>7. ASSUME NEW k \in DOMAIN ms, ms[k].kind = "tool" PROVE \E i \in 1..l : ps[i] = ms[k]
  <2>1. ms[k] \in MsgSet
    BY <1>1
  <2>2. ms[k] \in S
    BY <1>2, <1>7, <2>1 DEF MsgSet
  <2>3. PICK i \in 1..l : h[i] = k
    BY <1>1, <1>4, <1>5, <2>2 DEF Picks
  <2> QED
    BY <1>6, <2>3
<1>8. ASSUME NEW i \in 1..l, NEW j \in 1..l, i < j PROVE ps[i].n < ps[j].n
  <2>1. h[i] < h[j]
    BY <1>4, <1>5, <1>8 DEF Picks
  <2>2. h[i] \in DOMAIN ms /\ h[j] \in DOMAIN ms /\ ms[h[j]].kind # "end"
    BY <1>6
  <2>3. ms[h[i]].n < ms[h[j]].n
    BY <2>1, <2>2 DEF Fine
  <2> QED
    BY <1>6, <2>3
<1> QED
  BY <1>3, <1>5, <1>6, <1>7, <1>8

\* A call whose pieces have come in one chunk can be parsed.
LEMMA CallComplete ==
  ASSUME UpToDate, ~HasTool(frames), NEW fs, NEW l \in Nat, NEW h \in Nat, l = Len(frames), h = Len(fs),
         Extended(fs, l, h), OrderlyFrames(fs), HasTool(fs) => Finished(fs),
         NEW d, ChunkDone(d, fs, l, h), ~d.err, ToolNumbers(d.msgs) # {}
  PROVE  Complete(d)
<1>1. PICK ms : ms = d.msgs
  OBVIOUS
<1>2. /\ Exact(ms, fs, l, h) /\ Fine(ms, l, h) /\ d.frames = fs
      /\ d.processed <=> \E k \in (l + 1)..h : LastTool(fs[k])
  BY <1>1 DEF ChunkDone, Decodes, Exact
<1>3. /\ fs \in Seq(Frame) /\ l <= h /\ DOMAIN fs = 1..h /\ DOMAIN frames = 1..l
      /\ \A i \in 1..l : fs[i] = frames[i]
  BY DEF Extended
<1>4. ASSUME NEW k \in DOMAIN ms, ms[k].kind = "tool" PROVE ms[k].n \in 1..h /\ IsTool(fs[ms[k].n])
  <2>1. ms[k].n \in (l + 1)..h
    <3>1. ms[k] \in MsgSet /\ l < ms[k].n /\ ms[k].n <= h
      BY <1>2 DEF Fine
    <3>2. ms[k].n \in Nat
      BY <3>1 DEF MsgSet
    <3> QED
      BY <3>1, <3>2
  <2>2. "tool" \in Says(fs, ms[k].n)
    BY <1>2, <1>4 DEF Exact
  <2> QED
    BY <2>1, <2>2, SaysWhat
<1>5. PICK k \in DOMAIN ms : ms[k].kind = "tool"
  BY <1>1 DEF ToolNumbers
<1>6. HasTool(fs)
  BY <1>3, <1>4, <1>5 DEF HasTool
<1>7. h \in DOMAIN fs /\ LastTool(fs[h]) /\ \A i \in DOMAIN fs : i # h => ~Final(fs[i])
  BY <1>3, <1>6, CallEnds
<1>8. h \in (l + 1)..h
  <2>1. IsTool(fs[h])
    BY <1>7 DEF IsTool, LastTool
  <2>2. h \notin 1..l
    BY <1>3, <2>1 DEF HasTool
  <2> QED
    BY <1>3, <1>7, <2>2
<1>9. d.processed
  BY <1>2, <1>7, <1>8
<1>10. PICK ps : ps = Pieces(ms)
  OBVIOUS
<1>11. /\ ps \in Seq(MsgSet)
       /\ \A i \in DOMAIN ps : \E m \in DOMAIN ms : ps[i] = ms[m] /\ ms[m].kind = "tool"
       /\ \A m \in DOMAIN ms : ms[m].kind = "tool" => \E i \in DOMAIN ps : ps[i] = ms[m]
       /\ \A i, j \in DOMAIN ps : i < j => ps[i].n < ps[j].n
  BY <1>2, <1>10, PiecesHave
<1>12. ASSUME NEW i \in DOMAIN ps PROVE ps[i].n \in 1..h /\ IsTool(fs[ps[i].n])
  BY <1>4, <1>11
<1>13. PICK F : F = {d.frames[m.n] : m \in ToSet(Pieces(d.msgs))}
  OBVIOUS
<1>14. F = {fs[ps[i].n] : i \in DOMAIN ps}
  BY <1>1, <1>2, <1>10, <1>13 DEF ToSet
<1>15. CASE fs[h].kind = "whole"
  <2>1. ASSUME NEW i \in DOMAIN ps PROVE ps[i].n = h
    <3>1. ~(ps[i].n < h)
      BY <1>3, <1>7, <1>12, <1>15, ToolsLast
    <3> QED
      BY <1>12, <3>1
  <2>2. PICK i \in DOMAIN ps : TRUE
    BY <1>5, <1>11
  <2>3. \E f \in F : f.kind = "whole"
    BY <1>14, <1>15, <2>1, <2>2
  <2>4. PICK n \in Nat : n = Len(ps) /\ DOMAIN ps = 1..n
    BY <1>11
  <2>5. ~(n > 1)
    <3>1. ASSUME n > 1 PROVE FALSE
      <4>1. 1 \in DOMAIN ps /\ 2 \in DOMAIN ps
        BY <2>4, <3>1
      <4>2. ps[1].n = h /\ ps[2].n = h /\ ps[1].n < ps[2].n
        BY <1>11, <2>1, <4>1
      <4> QED
        BY <4>2
    <3> QED
      BY <3>1
  <2>6. Len(ps) = 1
    BY <2>2, <2>4, <2>5
  <2> QED
    BY <1>1, <1>9, <1>10, <1>13, <2>3, <2>6 DEF Complete
<1>16. CASE fs[h].kind # "whole"
  <2>1. fs[h].kind = "tool" /\ fs[h].last
    BY <1>7, <1>16 DEF LastTool
  <2>2. ASSUME NEW f \in F PROVE f.kind # "whole"
    <3>1. PICK i \in DOMAIN ps : f = fs[ps[i].n]
      BY <1>14
    <3>2. ps[i].n \in DOMAIN fs
      BY <1>3, <1>12
    <3> QED
      BY <1>7, <1>16, <3>1, <3>2 DEF Final
  <2>3. ctx.args = 0
    <3>1. ArgsOf(ctx.args, frames, l)
      BY DEF UpToDate
    <3>2. \A j \in 1..l : frames[j].kind # "tool"
      BY <1>3 DEF HasTool, IsTool
    <3> QED
      BY <3>1, <3>2 DEF ArgsOf
  <2>4. "tool" \in Says(fs, h)
    <3>1. Adds(fs, h)
      BY <1>7, <2>1 DEF OrderlyFrames
    <3> QED
      BY <2>1, <3>1 DEF Says
  <2>5. PICK m \in DOMAIN ms : ms[m].kind = "tool" /\ ms[m].n = h
    BY <1>2, <1>8, <2>4 DEF Exact
  <2>6. PICK i \in DOMAIN ps : ps[i] = ms[m]
    BY <1>11, <2>5
  <2>7. \E f \in F : f.last
    BY <1>14, <2>1, <2>5, <2>6
  <2> QED
    BY <1>9, <1>13, <2>2, <2>3, <2>7 DEF Complete
<1> QED
  BY <1>15, <1>16

\* The chunk that a handler collects, when everything before it is collected.
LEMMA ChunkCollected ==
  ASSUME SentOnce, api \in Apis, InCollect, ~Finished(frames), NEW c \in Chunk,
         OrderlyFrames(frames \o c.new), NEW fs, fs = frames \o c.new,
         HasTool(fs) => Finished(fs), NEW d, d = Decoded(fs)
  PROVE  /\ d.err <=> HasError(fs)
         /\ ~d.err => /\ Len(d.frames) = Len(fs) /\ ArgsOf(d.args, fs, Len(fs))
                      /\ d.processed <=> HasTool(fs)
                      /\ Collected(api, collect(api, events, d.msgs, Complete(d)), fs, Len(fs),
                                   CallsIn(api, fs))
<1>0. frames \in Seq(Frame) /\ c.new \in Seq(Frame)
  BY ChunkType DEF SentOnce
<1>1. ~HasTool(frames) /\ Collected(api, events, frames, Len(frames), CallsIn(api, frames))
  BY DEF InCollect
<1>2. UpToDate
  BY <1>1 DEF InCollect, UpToDate
<1>3. PICK l \in Nat : l = Len(frames)
  BY <1>0
<1>4. PICK h \in Nat : h = Len(fs)
  BY <1>0
<1>5. Extended(fs, l, h)
  BY <1>0, <1>3, <1>4, SoFarMore
<1>6. ChunkDone(d, fs, l, h)
  BY <1>2, <1>3, <1>4, ChunkDecoded
<1>7. /\ fs \in Seq(Frame) /\ l <= h /\ DOMAIN fs = 1..h /\ DOMAIN frames = 1..l
      /\ \A i \in 1..l : fs[i] = frames[i] /\ Says(fs, i) = Says(frames, i)
      /\ Called(fs) = Called(frames) \cup {n \in (l + 1)..h : "tool" \in Says(fs, n)}
  BY <1>5 DEF Extended
<1>8. /\ d.err <=> HasError(fs)
      /\ d.frames = fs /\ ArgsOf(d.args, fs, h)
      /\ d.processed <=> \E k \in (l + 1)..h : LastTool(fs[k])
      /\ ~d.err => Exact(d.msgs, fs, l, h)
  BY <1>6 DEF ChunkDone, Decodes
<1>9. d.processed <=> HasTool(fs)
  <2>1. ASSUME NEW k \in (l + 1)..h, LastTool(fs[k]) PROVE HasTool(fs)
    <3>1. k \in DOMAIN fs
      BY <1>7
    <3> QED
      BY <2>1, <3>1 DEF HasTool, LastTool, IsTool
  <2>2. ASSUME HasTool(fs) PROVE \E k \in (l + 1)..h : LastTool(fs[k])
    <3>1. h \in DOMAIN fs /\ LastTool(fs[h])
      BY <1>4, <1>7, <2>2, CallEnds
    <3>2. h \notin 1..l
      BY <1>1, <1>7, <3>1 DEF HasTool, LastTool, IsTool
    <3>3. h \in (l + 1)..h
      BY <1>7, <3>1, <3>2
    <3> QED
      BY <3>1, <3>3
  <2> QED
    BY <1>8, <2>1, <2>2
<1>10. Called(frames) = {}
  BY <1>1, <1>3, <1>7, SaysWhat DEF Called, HasTool
<1>11. Collected(api, events, frames, l, {})
  BY <1>1, <1>3, <1>10 DEF CallsIn
<1>12. Collected(api, events, fs, l, {})
  BY <1>7, <1>11, CollectedPrefix
<1>13. ASSUME ~d.err
       PROVE  Collected(api, collect(api, events, d.msgs, Complete(d)), fs, h, CallsIn(api, fs))
  <2>1. PICK ms : ms = d.msgs
    OBVIOUS
  <2>2. Exact(ms, fs, l, h)
    BY <1>8, <1>13, <2>1
  <2>3. Calls(ms, Len(ms)) = Called(fs)
    <3>1. Shows(api, ms, fs, l, h)
      BY <2>2, ExactShown
    <3>2. Calls(ms, Len(ms)) = {n \in (l + 1)..h : "tool" \in Says(fs, n)}
      BY <3>1 DEF Shows
    <3> QED
      BY <1>7, <1>10, <3>2
  <2>4. DOMAIN ms = 1..Len(ms)
    BY <2>2 DEF Exact, Fine
  <2>5. ToolNumbers(ms) = Called(fs)
    BY <2>3, <2>4 DEF ToolNumbers, Calls
  <2>6. ToolNumbers(ms) # {} => Complete(d)
    BY <1>1, <1>2, <1>3, <1>4, <1>5, <1>6, <1>13, <2>1, CallComplete
  <2>7. Batch(api, ms, fs, l, h, Complete(d))
    BY <1>4, <1>7, <1>8, <1>13, <2>2, <2>6 DEF Batch
  <2>8. Collected(api, collect(api, events, ms, Complete(d)), fs, h,
                  IF api # "openai" THEN ToolNumbers(ms) ELSE {})
    BY <1>12, <2>7, BatchCollected
  <2> QED
    BY <2>1, <2>5, <2>8 DEF CallsIn
<1> QED
  BY <1>4, <1>8, <1>9, <1>13

LEMMA AllCollect ==
  ASSUME CollectInv, ~stream, SentOnce', NEW c \in Chunk, OrderlyChunk(c), SteadyChunk(c),
         ReceiveAll(c)
  PROVE  CollectInv'
<1>0. /\ api \in Apis /\ frames \in Seq(Frame) /\ phase = "collect" /\ InCollect /\ SentOnce
      /\ stream' = stream /\ api' = api /\ stream \in BOOLEAN /\ OrderlyFrames(frames)
  BY DEF CollectInv, SentOnce, ReceiveAll
<1>1. PICK fs : fs = frames \o c.new
  OBVIOUS
<1>2. /\ frames' = fs /\ OrderlyFrames(fs) /\ c.new \in Seq(Frame)
      /\ HasTool(fs) => Finished(fs)
  BY <1>0, <1>1, ChunkType DEF ReceiveAll, Buffered, OrderlyChunk, SteadyChunk, HasTool
<1>3. CASE TooShort(c)
  <2>1. c.new = <<>>
    BY <1>3 DEF TooShort, Chunk
  <2>2. frames' = frames
    BY <1>0, <1>1, <1>2, <2>1
  <2>3. from' = from /\ ctx' = ctx /\ phase' = phase /\ events' = events
    BY <1>3 DEF ReceiveAll
  <2>4. InCollect'
    BY <1>0, <2>2, <2>3 DEF InCollect
  <2> QED
    BY <1>0, <2>2, <2>3, <2>4 DEF CollectInv
<1>4. CASE ~TooShort(c)
  <2>1. ~Finished(frames)
    <3>1. ASSUME Finished(frames) PROVE FALSE
      <4>1. c.new = <<>>
        BY <1>0, <1>1, <1>2, <3>1, OrderlyEnds
      <4>2. fs = frames
        BY <1>0, <1>1, <4>1
      <4>3. c.part = "none"
        BY <1>1, <3>1, <4>2 DEF OrderlyChunk
      <4>4. from = Len(frames) + 1
        BY <1>0 DEF InCollect
      <4> QED
        BY <1>4, <4>1, <4>3, <4>4 DEF TooShort
    <3> QED
      BY <3>1
  <2>2. PICK d : d = Decoded(fs)
    OBVIOUS
  <2>3. PICK r : r = collect(api, events, d.msgs, Complete(d))
    OBVIOUS
  <2>4. /\ d.err <=> HasError(fs)
        /\ ~d.err => /\ Len(d.frames) = Len(fs) /\ ArgsOf(d.args, fs, Len(fs))
                     /\ d.processed <=> HasTool(fs)
                     /\ Collected(api, r, fs, Len(fs), CallsIn(api, fs))
    BY <1>0, <1>1, <1>2, <2>1, <2>2, <2>3, ChunkCollected
  <2>5. /\ ctx' = CtxOf(d)
        /\ from' = IF d.err THEN from ELSE Len(d.frames) + 1
        /\ events' = IF d.err THEN events ELSE r
        /\ phase' = IF d.err THEN "failed" ELSE "collect"
    BY <1>1, <1>4, <2>2, <2>3 DEF ReceiveAll
  <2>6. CASE d.err
    BY <1>0, <1>2, <2>5, <2>6 DEF CollectInv
  <2>7. CASE ~d.err
    <3>1. /\ from' = Len(fs) + 1 /\ events' = r /\ phase' = "collect"
          /\ ctx'.args = d.args /\ ctx'.processed = d.processed
      BY <2>4, <2>5, <2>7 DEF CtxOf
    <3>2. ~HasError(frames') /\ ArgsOf(ctx'.args, frames', Len(frames'))
      BY <1>2, <2>4, <2>7, <3>1
    <3>3. (ctx'.processed <=> HasTool(frames')) /\ (HasTool(frames') => Finished(frames'))
      BY <1>2, <2>4, <2>7, <3>1
    <3>4. Collected(api', events', frames', Len(frames'), CallsIn(api', frames'))
      BY <1>0, <1>2, <2>4, <2>7, <3>1
    <3>5. InCollect'
      BY <1>2, <3>1, <3>2, <3>3, <3>4 DEF InCollect
    <3> QED
      BY <1>0, <1>2, <3>1, <3>5 DEF CollectInv
  <2> QED
    BY <2>6, <2>7
<1> QED
  BY <1>3, <1>4

LEMMA InitCollect == Init => CollectInv
<1> SUFFICES ASSUME Init PROVE CollectInv
  OBVIOUS
<1>1. SentOnce
  BY InitSentOnce
<1>2. api \in Apis /\ stream \in BOOLEAN
  BY DEF Init, Apis
<1>3. ASSUME ~stream PROVE OrderlyFrames(frames) /\ phase = "collect" /\ InCollect
  <2>1. frames = <<>> /\ Len(frames) = 0 /\ DOMAIN frames = {} /\ from = 0 + 1
    BY DEF Init
  <2>2. OrderlyFrames(frames) /\ ~HasTool(frames) /\ ~HasError(frames)
    BY <2>1 DEF OrderlyFrames, HasTool, HasError
  <2>3. ~ctx.processed /\ ctx.args = 0
    BY DEF Init
  <2>4. ArgsOf(ctx.args, frames, Len(frames))
    BY <2>1, <2>3 DEF ArgsOf
  <2>5. CallsIn(api, frames) = {}
    BY <2>1 DEF CallsIn, Called
  <2>6. events.out = <<>> /\ events.last = "None" /\ events.index = 0 /\ events \in EvState
    BY <1>1 DEF Init, FreshEvents, SentOnce, Clean
  <2>7. PICK K : K = KindsOf(api)
    OBVIOUS
  <2>8. Content(<<>>, frames, K, 0, {})
    <3>1. KeptOf(frames, K, 0) = {}
      BY DEF KeptOf
    <3> QED
      BY <3>1 DEF Content
  <2>9. Blocks(<<>>, 0, "None")
    BY DEF Blocks
  <2>10. Signed(<<>>, frames, 0, 0, "None")
    BY DEF Signed
  <2>11. Collected(api, events, frames, 0, {})
    BY <2>6, <2>7, <2>8, <2>9, <2>10 DEF Collected
  <2> QED
    BY <1>3, <2>1, <2>2, <2>3, <2>4, <2>5, <2>11 DEF InCollect, Init
<1> QED
  BY <1>1, <1>2, <1>3 DEF CollectInv

LEMMA NextCollect == CollectInv /\ [SteadyNext]_vars => CollectInv'
<1> SUFFICES ASSUME CollectInv, [SteadyNext]_vars PROVE CollectInv'
  OBVIOUS
<1>0. SentOnce /\ api \in Apis /\ stream \in BOOLEAN
  BY DEF CollectInv
<1>1. SentOnce'
  BY <1>0, SteadyIsNext, NextSentOnce
<1>2. api' = api /\ stream' = stream
  BY DEF SteadyNext, Receives, Closes, ReceiveFirst, ReceiveRest, ReceiveAll, EndsFirst, EndsRest,
         LastPieceSent, SendCollected, ReadFails, vars
<1>3. CASE stream
  BY <1>0, <1>1, <1>2, <1>3 DEF CollectInv
<1>4. CASE ~stream
  <2>0. phase \in {"collect", "done", "failed"} /\ OrderlyFrames(frames)
    BY <1>4 DEF CollectInv
  <2>1. ASSUME NEW c \in Chunk, OrderlyChunk(c), SteadyChunk(c), Receives(c) PROVE CollectInv'
    <3>1. CASE ReceiveFirst(c) \/ ReceiveRest(c)
      BY <2>0, <3>1 DEF ReceiveFirst, ReceiveRest
    <3>2. CASE ReceiveAll(c)
      BY <1>1, <1>4, <2>1, <3>2, AllCollect
    <3> QED
      BY <2>1, <3>1, <3>2 DEF Receives
  <2>2. CASE EndsFirst \/ EndsRest \/ LastPieceSent
    BY <2>0, <2>2 DEF EndsFirst, EndsRest, LastPieceSent
  <2>3. CASE ReadFails
    <3>1. phase' = "failed" /\ frames' = frames
      BY <2>3 DEF ReadFails, decoderVars
    <3> QED
      BY <1>0, <1>1, <1>2, <2>0, <3>1 DEF CollectInv
  <2>4. CASE SendCollected
    <3>1. phase = "collect" /\ frames' = frames /\ ctx' = ctx
      BY <2>4 DEF SendCollected, decoderVars
    <3>2. CASE api = "openai" /\ events.out = <<>>
      <4>1. phase' = "failed"
        BY <2>4, <3>2 DEF SendCollected
      <4> QED
        BY <1>0, <1>1, <1>2, <2>0, <3>1, <4>1 DEF CollectInv
    <3>3. CASE ~(api = "openai" /\ events.out = <<>>)
      <4>1. PICK b : b = IF api = "openai" THEN OpenAiBody(events) ELSE AnthropicBody(events, ctx.processed)
        OBVIOUS
      <4>2. phase' = "done" /\ events' = [events EXCEPT !.out = b]
        BY <2>4, <3>3, <4>1 DEF SendCollected
      <4>3. events'.out = b
        <5>1. events \in EvState
          BY <1>0 DEF SentOnce, Clean
        <5> QED
          BY <4>2, <5>1 DEF EvState
      <4>4. PICK s : s = events
        OBVIOUS
      <4>5. InCollect
        BY <1>4, <3>1 DEF CollectInv
      <4>6. /\ ctx'.processed <=> HasTool(frames')
            /\ Collected(api', s, frames', Len(frames'), CallsIn(api', frames'))
        BY <1>2, <3>1, <4>4, <4>5 DEF InCollect
      <4>7. events'.out = IF api' = "openai" THEN OpenAiBody(s) ELSE AnthropicBody(s, ctx'.processed)
        BY <1>2, <3>1, <4>1, <4>3, <4>4
      <4>8. (\E t : MadeOf(t))'
        BY <4>6, <4>7 DEF MadeOf
      <4> QED
        BY <1>0, <1>1, <1>2, <2>0, <3>1, <4>2, <4>8 DEF CollectInv
    <3> QED
      BY <3>2, <3>3
  <2>5. CASE UNCHANGED vars
    <3>1. /\ frames' = frames /\ ctx' = ctx /\ api' = api /\ phase' = phase /\ events' = events
          /\ from' = from
      BY <2>5 DEF vars
    <3> QED
      BY <1>1, <1>2, <3>1 DEF CollectInv, InCollect, MadeOf
  <2> QED
    BY <2>1, <2>2, <2>3, <2>4, <2>5 DEF SteadyNext, Closes
<1> QED
  BY <1>0, <1>3, <1>4

LEMMA SteadyCollect == SteadySteps => []CollectInv
BY InitCollect, NextCollect, PTL DEF SteadySteps

-----------------------------------------------------------------------------
(* What an orderly stream gets that is not streamed to the client *)

\* The frames that a body is to carry.
LEMMA ExpectsSpeaks ==
  ASSUME api \in Apis, ~stream, frames \in Seq(Frame), NEW i \in DOMAIN frames
  PROVE  Expects(i) <=> \/ Speaks(frames, KindsOf(api), i)
                        \/ api # "openai" /\ "tool" \in Says(frames, i)
<1>1. frames[i] \in Frame
  OBVIOUS
<1>2. PICK k \in FrameKind : k = frames[i].kind
  BY <1>1, FrameType
<1>3. CASE k = "tool"
  BY <1>2, <1>3 DEF Expects, Speaks, Says, KindsOf, Apis
<1>4. CASE k = "whole"
  BY <1>2, <1>4 DEF Expects, Speaks, Says, KindsOf, Apis
<1>5. CASE k = "web"
  BY <1>2, <1>5 DEF Expects, Speaks, Says, KindsOf, Apis
<1>6. CASE k \in {"blank", "error"}
  BY <1>2, <1>6 DEF Expects, Speaks, Says, KindsOf, Apis
<1>7. CASE k \in {"text", "think", "sign", "redacted", "end"}
  BY <1>2, <1>7 DEF Expects, Speaks, Says, KindsOf, Apis
<1> QED
  BY <1>3, <1>4, <1>5, <1>6, <1>7 DEF FrameKind

LEMMA OverwrittenIs ==
  ASSUME NEW h \in Nat, h = Len(frames), DOMAIN frames = 1..h, NEW i
  PROVE  Overwritten(i) <=> Replaced(frames, i, h)
BY DEF Overwritten, Replaced, QuietFrom, Quiet

\* The frames of a body are those that are expected of it, without the
\* signatures that were replaced.
LEMMA BodyNumbers ==
  ASSUME api \in Apis, ~stream, frames \in Seq(Frame), NEW h \in Nat, h = Len(frames)
  PROVE  KeptOf(frames, KindsOf(api), h) \cup CallsIn(api, frames) = {i \in Expected : ~Overwritten(i)}
<1>1. DOMAIN frames = 1..h
  OBVIOUS
<1>2. ASSUME NEW i \in 1..h PROVE Overwritten(i) <=> Replaced(frames, i, h)
  BY <1>1, OverwrittenIs
<1>3. ASSUME NEW i \in 1..h
      PROVE  Expects(i) <=> \/ Speaks(frames, KindsOf(api), i)
                            \/ api # "openai" /\ "tool" \in Says(frames, i)
  BY <1>1, ExpectsSpeaks
<1>4. ASSUME NEW i \in 1..h, "tool" \in Says(frames, i) PROVE ~Replaced(frames, i, h)
  <2>1. IsTool(frames[i])
    BY <1>4, SaysWhat
  <2> QED
    BY <2>1 DEF IsTool, Replaced
<1>5. \A i : i \in CallsIn(api, frames) <=> i \in 1..h /\ api # "openai" /\ "tool" \in Says(frames, i)
  BY DEF CallsIn, Called
<1>6. \A i : i \in Expected <=> i \in 1..h /\ Expects(i)
  BY <1>1 DEF Expected
<1>7. \A i : i \in KeptOf(frames, KindsOf(api), h) <=>
               i \in 1..h /\ Speaks(frames, KindsOf(api), i) /\ ~Replaced(frames, i, h)
  BY DEF KeptOf
<1> QED
  BY <1>2, <1>3, <1>4, <1>5, <1>6, <1>7

\* The blocks of a body follow one another.
LEMMA BlocksChain ==
  ASSUME NEW out \in Seq(EventSet), NEW x \in Nat, NEW last, Blocks(out, x, last), NEW i \in DOMAIN out
  PROVE  out[i].index =
           IF i = 1 THEN 0
           ELSE IF BlockType(out[i]) = BlockType(out[i - 1]) /\ out[i].type # "redacted"
           THEN out[i - 1].index ELSE out[i - 1].index + 1
<1>1. PICK l \in Nat : l = Len(out) /\ DOMAIN out = 1..l
  OBVIOUS
<1>2. \A j \in 1..l : out[j].index \in Nat
  <2>1. \A j \in 1..l : out[j] \in EventSet
    BY <1>1
  <2> QED
    BY <2>1 DEF EventSet
<1>3. last # "None"
  <2>1. out # <<>>
    BY <1>1
  <2> QED
    BY <2>1 DEF Blocks
<1>4. \A y \in 0..x : \E j \in 1..l : out[j].index = y
  BY <1>1, <1>3 DEF Blocks
<1>5. \A j, k \in 1..l : j < k => out[j].index <= out[k].index
  BY <1>1 DEF Blocks, Ordered
<1>6. CASE i = 1
  <2>1. PICK j \in 1..l : out[j].index = 0
    BY <1>4
  <2>2. out[1].index <= 0
    <3>1. CASE j = 1
      BY <1>1, <1>2, <2>1, <3>1
    <3>2. CASE j # 1
      BY <1>1, <1>5, <1>6, <2>1, <3>2
    <3> QED
      BY <3>1, <3>2
  <2> QED
    BY <1>1, <1>2, <1>6, <2>2
<1>7. CASE i # 1
  <2>1. PICK k \in 1..l : k = i - 1 /\ k < i
    BY <1>1, <1>7
  <2>2. Ordered(out[k], out[i])
    BY <1>1, <2>1 DEF Blocks
  <2>3. out[i].index <= x
    BY <1>1 DEF Blocks
  <2>4. PICK d \in Nat, e \in Nat : d = out[k].index /\ e = out[i].index
    BY <1>1, <1>2
  <2>5. e <= d + 1
    <3>1. ASSUME e > d + 1 PROVE FALSE
      <4>1. d + 1 \in 0..x
        BY <2>3, <2>4, <3>1
      <4>2. PICK j \in 1..l : out[j].index = d + 1
        BY <1>4, <4>1
      <4>3. CASE j < k
        <5>1. d + 1 <= d
          BY <1>5, <2>4, <4>2, <4>3
        <5> QED
          BY <5>1
      <4>4. CASE j = k
        <5>1. d + 1 = d
          BY <2>4, <4>2, <4>4
        <5> QED
          BY <5>1
      <4>5. CASE j = i
        <5>1. e = d + 1
          BY <2>4, <4>2, <4>5
        <5> QED
          BY <3>1, <5>1
      <4>6. CASE i < j
        <5>1. e <= d + 1
          BY <1>1, <1>5, <2>4, <4>2, <4>6
        <5> QED
          BY <3>1, <5>1
      <4> QED
        BY <1>1, <2>1, <4>3, <4>4, <4>5, <4>6
    <3> QED
      BY <2>4, <3>1
  <2>6. d <= e
    BY <2>2, <2>4 DEF Ordered
  <2>7. CASE e = d
    BY <1>7, <2>1, <2>2, <2>4, <2>7 DEF Ordered
  <2>8. CASE e = d + 1
    BY <1>7, <2>1, <2>2, <2>4, <2>8 DEF Ordered
  <2> QED
    BY <2>4, <2>5, <2>6, <2>7, <2>8
<1> QED
  BY <1>6, <1>7

\* OpenAI's body: thoughts before texts, each in the order of their frames.
Arranged(d, e) ==
  \/ d.n = 0 \/ e.n = 0
  \/ d.type = "think" /\ e.type = "text"
  \/ d.type = e.type /\ d.n < e.n
ArrangedPairs == {p \in EventSet \X EventSet : Arranged(p[1], p[2])}

\* A part of a body with the events of out whose types are in S.
Section(b, out, S) ==
  /\ b \in Seq(EventSet) /\ PairsIn(b, ArrangedPairs)
  /\ \A i \in DOMAIN b : b[i].n = 0 \/ \E k \in DOMAIN out : b[i] = out[k] /\ out[k].type \in S
  /\ \A k \in DOMAIN out : out[k].type \in S => \E i \in DOMAIN b : b[i] = out[k]

LEMMA SectionMark ==
  ASSUME NEW out, NEW type \in {"open", "close", "finish"}
  PROVE  Section(<<Event(type, 0, 0)>>, out, {})
<1>1. type \in EventTypes /\ 0 \in Nat
  BY DEF EventTypes
<1>2. PICK e : e = Event(type, 0, 0)
  OBVIOUS
<1>3. e \in EventSet /\ e.n = 0
  BY <1>1, <1>2, EventIs
<1>4. <<e>> \in Seq(EventSet) /\ DOMAIN <<e>> = {1} /\ <<e>>[1] = e
  BY <1>3
<1>5. PairsIn(<<e>>, ArrangedPairs)
  BY <1>4 DEF PairsIn
<1> QED
  BY <1>2, <1>3, <1>4, <1>5 DEF Section

LEMMA SectionJoin ==
  ASSUME NEW out \in Seq(EventSet), NEW a, NEW b, NEW S, NEW U, Section(a, out, S), Section(b, out, U),
         \A i, j \in DOMAIN out : out[i].type \in S /\ out[j].type \in U => Arranged(out[i], out[j])
  PROVE  Section(a \o b, out, S \cup U)
<1>1. a \in Seq(EventSet) /\ b \in Seq(EventSet)
  BY DEF Section
<1>2. PICK l \in Nat, m \in Nat : l = Len(a) /\ DOMAIN a = 1..l /\ m = Len(b) /\ DOMAIN b = 1..m
  BY <1>1
<1>3. PICK new : new = a \o b
  OBVIOUS
<1>4. /\ new \in Seq(EventSet) /\ DOMAIN new = 1..(l + m) /\ \A i \in 1..l : new[i] = a[i]
      /\ \A i \in 1..m : new[l + i] = b[i]
  BY <1>1, <1>2, <1>3, Joined
<1>5. ASSUME NEW i \in 1..l, NEW j \in 1..m PROVE <<a[i], b[j]>> \in ArrangedPairs
  <2>1. a[i] \in EventSet /\ b[j] \in EventSet
    BY <1>1, <1>2
  <2>2. PICK p : p = <<a[i], b[j]>>
    OBVIOUS
  <2>3. p \in EventSet \X EventSet /\ p[1] = a[i] /\ p[2] = b[j]
    BY <2>1, <2>2
  <2>4. Arranged(a[i], b[j])
    <3>1. CASE a[i].n = 0 \/ b[j].n = 0
      BY <3>1 DEF Arranged
    <3>2. CASE ~(a[i].n = 0 \/ b[j].n = 0)
      <4>1. PICK k \in DOMAIN out : a[i] = out[k] /\ out[k].type \in S
        BY <1>2, <3>2 DEF Section
      <4>2. PICK o \in DOMAIN out : b[j] = out[o] /\ out[o].type \in U
        BY <1>2, <3>2 DEF Section
      <4> QED
        BY <4>1, <4>2
    <3> QED
      BY <3>1, <3>2
  <2> QED
    BY <2>2, <2>3, <2>4 DEF ArrangedPairs
<1>6. PairsIn(new, ArrangedPairs)
  <2>1. PairsIn(a, ArrangedPairs) /\ PairsIn(b, ArrangedPairs)
    BY DEF Section
  <2> QED
    BY <1>1, <1>2, <1>3, <1>5, <2>1, PairsJoin
<1>7. ASSUME NEW i \in DOMAIN new
      PROVE  new[i].n = 0 \/ \E k \in DOMAIN out : new[i] = out[k] /\ out[k].type \in S \cup U
  <2>1. CASE i \in 1..l
    <3>1. new[i] = a[i]
      BY <1>4, <2>1
    <3>2. a[i].n = 0 \/ \E k \in DOMAIN out : a[i] = out[k] /\ out[k].type \in S
      BY <1>2, <2>1 DEF Section
    <3> QED
      BY <3>1, <3>2
  <2>2. CASE i \notin 1..l
    <3>1. PICK k \in 1..m : i = l + k
      <4>1. i - l \in 1..m /\ i = l + (i - l)
        BY <1>4, <2>2
      <4> QED
        BY <4>1
    <3>2. new[i] = b[k]
      BY <1>4, <3>1
    <3> QED
      BY <1>2, <3>2 DEF Section
  <2> QED
    BY <2>1, <2>2
<1>8. ASSUME NEW k \in DOMAIN out, out[k].type \in S \cup U PROVE \E i \in DOMAIN new : new[i] = out[k]
  <2>1. CASE out[k].type \in S
    <3>1. PICK i \in 1..l : a[i] = out[k]
      BY <1>2, <2>1 DEF Section
    <3>2. i \in DOMAIN new
      BY <1>4
    <3> QED
      BY <1>4, <3>1, <3>2
  <2>2. CASE out[k].type \in U
    <3>1. PICK i \in 1..m : b[i] = out[k]
      BY <1>2, <2>2 DEF Section
    <3>2. l + i \in DOMAIN new
      BY <1>4
    <3> QED
      BY <1>4, <3>1, <3>2
  <2> QED
    BY <1>8, <2>1, <2>2
<1>9. Section(new, out, S \cup U)
  BY <1>4, <1>6, <1>7, <1>8 DEF Section
<1> QED
  BY <1>3, <1>9

\* The events of one type.
LEMMA SectionOf ==
  ASSUME NEW s, s.out \in Seq(EventSet), \A i, j \in DOMAIN s.out : i < j => s.out[i].n < s.out[j].n,
         NEW type
  PROVE  Section(OfType(s, type), s.out, {type})
<1>1. PICK out : out = s.out
  OBVIOUS
<1>2. PICK S : S = [type : {type}, index : Nat, n : Nat]
  OBVIOUS
<1>3. PICK b : b = Only(out, S)
  OBVIOUS
<1>4. b \in Seq(EventSet) /\ Sub(b, out, S)
  BY <1>1, <1>3, SubOnly
<1>5. PICK R : R = {p \in EventSet \X EventSet : p[1].n < p[2].n}
  OBVIOUS
<1>6. PairsIn(out, R)
  <2>1. ASSUME NEW i \in DOMAIN out, NEW j \in DOMAIN out, i < j PROVE <<out[i], out[j]>> \in R
    <3>1. out[i] \in EventSet /\ out[j] \in EventSet /\ out[i].n < out[j].n
      BY <1>1, <2>1
    <3> QED
      BY <1>5, <3>1
  <2> QED
    BY <2>1 DEF PairsIn
<1>7. /\ \A k \in DOMAIN b : \E i \in DOMAIN out : b[k] = out[i] /\ out[i] \in S
      /\ \A i \in DOMAIN out : out[i] \in S => \E k \in DOMAIN b : b[k] = out[i]
      /\ PairsIn(b, R)
  BY <1>1, <1>4, <1>6, SubIs
<1>8. ASSUME NEW i \in DOMAIN out PROVE out[i] \in S <=> out[i].type = type
  <2>1. out[i] \in EventSet
    BY <1>1
  <2> QED
    BY <1>2, <2>1 DEF EventSet
<1>9. PairsIn(b, ArrangedPairs)
  <2>1. ASSUME NEW i \in DOMAIN b, NEW j \in DOMAIN b, i < j PROVE <<b[i], b[j]>> \in ArrangedPairs
    <3>1. PICK p : p = <<b[i], b[j]>>
      OBVIOUS
    <3>2. p \in R
      BY <1>7, <2>1, <3>1 DEF PairsIn
    <3>3. p \in EventSet \X EventSet /\ p[1].n < p[2].n /\ p[1] = b[i] /\ p[2] = b[j]
      BY <1>5, <3>1, <3>2
    <3>4. b[i].type = type /\ b[j].type = type
      BY <1>7, <1>8
    <3>5. Arranged(p[1], p[2])
      BY <3>3, <3>4 DEF Arranged
    <3> QED
      BY <3>1, <3>3, <3>5 DEF ArrangedPairs
  <2> QED
    BY <2>1 DEF PairsIn
<1>10. Section(b, out, {type})
  BY <1>4, <1>7, <1>8, <1>9 DEF Section
<1> QED
  BY <1>1, <1>2, <1>3, <1>10 DEF OfType

\* The whole of OpenAI's body.
LEMMA SectionBody ==
  ASSUME NEW s, s.out \in Seq(EventSet), \A i, j \in DOMAIN s.out : i < j => s.out[i].n < s.out[j].n
  PROVE  Section(OpenAiBody(s), s.out, {"think", "text"})
<1>1. PICK th : th = OfType(s, "think")
  OBVIOUS
<1>2. PICK tx : tx = OfType(s, "text")
  OBVIOUS
<1>3. PICK out : out = s.out
  OBVIOUS
<1>4. out \in Seq(EventSet)
  BY <1>3
<1>5. Section(th, out, {"think"})
  BY <1>1, <1>3, SectionOf
<1>6. Section(tx, out, {"text"})
  BY <1>2, <1>3, SectionOf
<1>7. PICK open, close, fin :
        /\ open = <<Event("open", 0, 0)>> /\ close = <<Event("close", 0, 0)>>
        /\ fin = <<Event("finish", 0, 0)>>
  OBVIOUS
<1>8. Section(open, out, {}) /\ Section(close, out, {}) /\ Section(fin, out, {})
  BY <1>7, SectionMark
<1>9. PICK b1 : b1 = open \o th
  OBVIOUS
<1>10. Section(b1, out, {} \cup {"think"})
  BY <1>4, <1>5, <1>8, <1>9, SectionJoin
<1>11. PICK b2 : b2 = b1 \o close
  OBVIOUS
<1>12. Section(b2, out, ({} \cup {"think"}) \cup {})
  BY <1>4, <1>8, <1>10, <1>11, SectionJoin
<1>13. ({} \cup {"think"}) \cup {} = {"think"}
  OBVIOUS
<1>14. PICK b3 : b3 = IF th = <<>> THEN <<>> ELSE b2
  OBVIOUS
<1>15. Section(b3, out, {"think"})
  BY <1>5, <1>12, <1>13, <1>14
<1>16. PICK b4 : b4 = b3 \o tx
  OBVIOUS
<1>17. \A i, j \in DOMAIN out : out[i].type \in {"think"} /\ out[j].type \in {"text"} => Arranged(out[i], out[j])
  BY DEF Arranged
<1>18. Section(b4, out, {"think"} \cup {"text"})
  BY <1>4, <1>6, <1>15, <1>16, <1>17, SectionJoin
<1>19. PICK b5 : b5 = b4 \o fin
  OBVIOUS
<1>20. Section(b5, out, ({"think"} \cup {"text"}) \cup {})
  BY <1>4, <1>8, <1>18, <1>19, SectionJoin
<1>21. ({"think"} \cup {"text"}) \cup {} = {"think", "text"}
  OBVIOUS
<1>22. OpenAiBody(s) = b5
  BY <1>1, <1>2, <1>7, <1>9, <1>11, <1>14, <1>16, <1>19 DEF OpenAiBody
<1> QED
  BY <1>3, <1>20, <1>21, <1>22

LEMMA OpenAiCollects ==
  ASSUME SentOnce, api = "openai", ~stream, NEW s, MadeOf(s)
  PROVE  CollectedFaithful
<1>1. PICK h \in Nat : h = Len(frames) /\ frames \in Seq(Frame) /\ DOMAIN frames = 1..h
  BY DEF SentOnce
<1>2. PICK K : K = {"text", "think"} /\ K = KindsOf(api)
  BY DEF KindsOf
<1>3. PICK out : out = s.out
  OBVIOUS
<1>4. /\ Collected(api, s, frames, h, CallsIn(api, frames)) /\ CallsIn(api, frames) = {}
      /\ events.out = OpenAiBody(s)
  BY <1>1 DEF MadeOf, CallsIn
<1>5. out \in Seq(EventSet) /\ Content(out, frames, K, h, {})
  BY <1>2, <1>3, <1>4 DEF Collected, EvState
<1>6. PICK body : body = events.out
  OBVIOUS
<1>7. Section(body, out, {"think", "text"})
  BY <1>3, <1>4, <1>5, <1>6, SectionBody DEF Content
<1>8. ASSUME NEW k \in DOMAIN out
      PROVE  /\ out[k].n \in 1..h /\ out[k].type \in {"think", "text"}
             /\ out[k].type = "think" <=> frames[out[k].n].kind = "think"
  <2>1. out[k].n \in 1..h /\ out[k].n \in KeptOf(frames, K, h) /\ out[k].type \in Says(frames, out[k].n)
    BY <1>5, ContentUpTo
  <2>2. PICK n \in 1..h : n = out[k].n
    BY <2>1
  <2>3. \E kind \in Says(frames, n) : kind \in {"text", "think"}
    BY <1>2, <2>1, <2>2 DEF KeptOf, Speaks
  <2>4. PICK type : type = out[k].type
    OBVIOUS
  <2>5. type \in Says(frames, n)
    BY <2>1, <2>2, <2>4
  <2>6. type \in {"think", "text"} /\ (type = "think" <=> frames[n].kind = "think")
    BY <2>3, <2>5 DEF Says
  <2> QED
    BY <2>1, <2>2, <2>4, <2>6
<1>9. Numbers(out) = Expected
  <2>1. api \in Apis
    BY DEF Apis
  <2>2. KeptOf(frames, K, h) \cup {} = {i \in Expected : ~Overwritten(i)}
    BY <1>1, <1>2, <1>4, <2>1, BodyNumbers
  <2>3. ASSUME NEW i \in Expected PROVE ~Overwritten(i)
    <3>1. frames[i].kind # "sign"
      BY DEF Expected, Expects
    <3> QED
      BY <3>1 DEF Overwritten
  <2>4. Numbers(out) = KeptOf(frames, K, h) \cup {}
    BY <1>5 DEF Content, Numbers
  <2> QED
    BY <2>2, <2>3, <2>4
<1>10. ASSUME NEW i \in DOMAIN body, body[i].n # 0
       PROVE  /\ body[i].n \in Expected /\ body[i].n \in Nat /\ body[i].type \in {"think", "text"}
              /\ body[i].type = "think" <=> frames[body[i].n].kind = "think"
  <2>1. PICK k \in DOMAIN out : body[i] = out[k]
    BY <1>7, <1>10 DEF Section
  <2>2. out[k].n \in Expected
    BY <1>9 DEF Numbers
  <2> QED
    BY <1>8, <2>1, <2>2
<1>11. Expected \subseteq 1..h
  BY <1>1 DEF Expected
<1>12. Delivered = Expected
  <2>1. ASSUME NEW n \in Expected PROVE n \in Delivered
    <3>1. PICK k \in DOMAIN out : out[k].n = n
      BY <1>9 DEF Numbers
    <3>2. PICK i \in DOMAIN body : body[i] = out[k]
      BY <1>7, <1>8 DEF Section
    <3>3. n # 0
      BY <1>11
    <3> QED
      BY <1>6, <3>1, <3>2, <3>3 DEF Delivered
  <2>2. ASSUME NEW n \in Delivered PROVE n \in Expected
    BY <1>6, <1>10 DEF Delivered
  <2> QED
    BY <2>1, <2>2
<1>13. ASSUME NEW i \in DOMAIN body, NEW j \in DOMAIN body, i < j
       PROVE  Arranged(body[i], body[j])
  <2>1. PICK p : p = <<body[i], body[j]>>
    OBVIOUS
  <2>2. p \in ArrangedPairs
    BY <1>7, <1>13, <2>1 DEF Section, PairsIn
  <2>3. Arranged(p[1], p[2])
    BY <2>2 DEF ArrangedPairs
  <2> QED
    BY <2>1, <2>3
<1>14. PICK T : T = {i \in Expected : frames[i].kind = "think"}
  OBVIOUS
<1>15. ASSUME NEW i \in DOMAIN body, body[i].n \in Expected
       PROVE  /\ body[i].n # 0 /\ body[i].type \in {"think", "text"}
              /\ body[i].type = "think" <=> body[i].n \in T
  BY <1>10, <1>11, <1>14, <1>15
<1>16. InOrder(T) /\ InOrder(Expected \ T)
  <2>1. ASSUME NEW i \in DOMAIN body, NEW j \in DOMAIN body, i < j, body[i].n \in Expected,
               body[j].n \in Expected, body[i].n \in T <=> body[j].n \in T
        PROVE  body[i].n < body[j].n
    <3>1. body[i].type = body[j].type /\ body[i].n # 0 /\ body[j].n # 0
      BY <1>15, <2>1
    <3>2. Arranged(body[i], body[j])
      BY <1>13, <2>1
    <3> QED
      BY <3>1, <3>2 DEF Arranged
  <2>2. T \subseteq Expected
    BY <1>14
  <2> QED
    BY <1>6, <2>1, <2>2 DEF InOrder
<1>17. ASSUME NEW i \in DOMAIN body, NEW j \in DOMAIN body, body[i].n \in T, body[j].n \in Expected \ T
       PROVE  i < j
  <2>1. body[i].n \in Expected
    BY <1>14, <1>17
  <2>2. body[i].type = "think" /\ body[j].type = "text" /\ body[i].n # 0 /\ body[j].n # 0
    BY <1>15, <1>17, <2>1
  <2>3. ~(j < i)
    <3>1. ~Arranged(body[j], body[i])
      BY <2>2 DEF Arranged
    <3> QED
      BY <1>13, <3>1
  <2>4. i # j
    BY <2>2
  <2>5. i \in Nat /\ j \in Nat
    BY <1>7 DEF Section
  <2> QED
    BY <2>3, <2>4, <2>5
<1> QED
  BY <1>6, <1>12, <1>14, <1>16, <1>17 DEF CollectedFaithful

LEMMA AnthropicCollects ==
  ASSUME SentOnce, api \in Apis, api # "openai", ~stream, NEW s, MadeOf(s)
  PROVE  CollectedFaithful
<1>1. PICK h \in Nat : h = Len(frames) /\ frames \in Seq(Frame) /\ DOMAIN frames = 1..h
  BY DEF SentOnce
<1>2. PICK K : K = KindsOf(api)
  OBVIOUS
<1>3. PICK out : out = s.out
  OBVIOUS
<1>4. PICK T : T = CallsIn(api, frames)
  OBVIOUS
<1>5. /\ ctx.processed <=> HasTool(frames)
      /\ events.out = AnthropicBody(s, ctx.processed)
  BY DEF MadeOf
<1>6. Collected(api, s, frames, h, T)
  BY <1>1, <1>4 DEF MadeOf
<1>7. s \in EvState /\ Content(out, frames, K, h, T) /\ Blocks(out, s.index, s.last)
  BY <1>2, <1>3, <1>6 DEF Collected
<1>8. out \in Seq(EventSet) /\ s.index \in Nat
  BY <1>3, <1>7 DEF EvState
<1>9. PICK l \in Nat : l = Len(out) /\ DOMAIN out = 1..l
  BY <1>8
<1>10. PICK e : e = StopReason(ctx.processed)
  OBVIOUS
<1>11. /\ e \in EventSet /\ e.n = 0
       /\ e.type = "tool_use" <=> ctx.processed
  <2>1. PICK type : type = IF ctx.processed THEN "tool_use" ELSE "end_turn"
    OBVIOUS
  <2>2. type \in EventTypes /\ 0 \in Nat
    BY <2>1 DEF EventTypes
  <2>3. e = Event(type, 0, 0)
    BY <1>10, <2>1 DEF StopReason
  <2>4. e \in EventSet /\ e.n = 0 /\ e.type = type
    BY <2>2, <2>3, EventIs
  <2> QED
    BY <2>1, <2>4
<1>12. PICK body : body = events.out
  OBVIOUS
<1>13. body = Append(out, e)
  BY <1>3, <1>5, <1>10, <1>12 DEF AnthropicBody
<1>14. /\ body \in Seq(EventSet) /\ Len(body) = l + 1 /\ DOMAIN body = 1..(l + 1)
       /\ body[l + 1] = e /\ \A i \in 1..l : body[i] = out[i]
  BY <1>8, <1>9, <1>11, <1>13, Appended
<1>15. Front(body) = out
  BY <1>8, <1>9, <1>11, <1>13 DEF Front
<1>16. Last(body) = e
  BY <1>14 DEF Last
<1>17. Numbers(out) = {i \in Expected : ~Overwritten(i)}
  <2>1. KeptOf(frames, K, h) \cup T = {i \in Expected : ~Overwritten(i)}
    BY <1>1, <1>2, <1>4, BodyNumbers
  <2> QED
    BY <1>7, <2>1 DEF Content, Numbers
<1>18. ASSUME NEW i \in 1..l PROVE out[i].n # 0
  <2>1. out[i].n \in Expected
    BY <1>9, <1>17 DEF Numbers
  <2>2. out[i].n \in 1..h
    BY <1>1, <2>1 DEF Expected
  <2> QED
    BY <2>2
<1>19. Delivered = Numbers(out)
  <2>1. ASSUME NEW n \in Numbers(out) PROVE n \in Delivered
    <3>1. PICK i \in 1..l : out[i].n = n
      BY <1>9 DEF Numbers
    <3>2. i \in 1..(l + 1)
      OBVIOUS
    <3> QED
      BY <1>12, <1>14, <1>18, <3>1, <3>2 DEF Delivered
  <2>2. ASSUME NEW n \in Delivered PROVE n \in Numbers(out)
    <3>1. PICK i \in 1..(l + 1) : body[i].n = n /\ n # 0
      BY <1>12, <1>14 DEF Delivered
    <3>2. i \in 1..l
      <4>1. i # l + 1
        BY <1>11, <1>14, <3>1
      <4> QED
        BY <4>1
    <3> QED
      BY <1>9, <1>14, <3>1, <3>2 DEF Numbers
  <2> QED
    BY <2>1, <2>2
<1>20. InOrder(Delivered)
  <2>1. ASSUME NEW i \in 1..(l + 1), body[i].n \in Delivered PROVE i \in 1..l
    <3>1. body[i].n # 0
      BY <2>1 DEF Delivered
    <3>2. i # l + 1
      BY <1>11, <1>14, <3>1
    <3> QED
      BY <3>2
  <2>2. \A i, j \in 1..l : i < j => out[i].n < out[j].n
    BY <1>7, <1>9 DEF Content
  <2>3. ASSUME NEW i \in 1..(l + 1), NEW j \in 1..(l + 1), i < j, body[i].n \in Delivered,
               body[j].n \in Delivered
        PROVE  body[i].n < body[j].n
    BY <1>14, <2>1, <2>2, <2>3
  <2> QED
    BY <1>12, <1>14, <2>3 DEF InOrder
<1>21. ASSUME NEW i \in DOMAIN out
       PROVE  out[i].index =
                IF i = 1 THEN 0
                ELSE IF BlockType(out[i]) = BlockType(out[i - 1]) /\ out[i].type # "redacted"
                THEN out[i - 1].index ELSE out[i - 1].index + 1
  BY <1>7, <1>8, BlocksChain
<1>22. Last(body).type = "tool_use" <=> \E i \in DOMAIN frames : IsTool(frames[i])
  BY <1>5, <1>11, <1>16 DEF HasTool
<1> QED
  BY <1>12, <1>15, <1>17, <1>19, <1>20, <1>21, <1>22 DEF CollectedFaithful

LEMMA CollectFaithful == CollectInv => CollectedFaithful
<1> SUFFICES ASSUME CollectInv, ~stream, phase = "done" PROVE CollectedFaithful
  BY DEF CollectedFaithful
<1>1. SentOnce /\ api \in Apis
  BY DEF CollectInv
<1>2. PICK s : MadeOf(s)
  BY DEF CollectInv
<1> QED
  BY <1>1, <1>2, OpenAiCollects, AnthropicCollects

\* The response that OpenAI's and Anthropic's handlers make when the upstream
\* stream is over (src/src/core/service.rs, the branches for stream = false)
\* has every frame of an orderly stream once and in order, however the network
\* cuts it, as long as a tool call is not cut: OpenAI's the thoughts and then
\* the texts, Anthropic's all kinds, in as few blocks as there can be and with
\* the latest signature of each, and with tool_use as the reason to stop if
\* and only if there is a call.
THEOREM CollectedCarriesAll == SteadySpec => []CollectedFaithful
<1>1. SteadySpec => []CollectInv
  BY SpecSteps, SteadyCollect, PTL
<1> QED
  BY <1>1, CollectFaithful, PTL

-----------------------------------------------------------------------------
(* Types *)

LEMMA DecodeSeen ==
  ASSUME NEW d \in DecSet, NEW n, d.seen
  PROVE  DecodeFrame(d, n).seen
<1>1. ASSUME NEW t \in DecSet, NEW kind PROVE Add(t, kind, n).seen = t.seen
  BY DEF Add, DecSet
<1>2. ASSUME NEW t \in DecSet, t.seen, NEW p PROVE AddProcessed(t, n, p).seen
  BY <1>2 DEF AddProcessed, Add, DecSet
<1>3. PICK f : f = d.frames[n]
  OBVIOUS
<1>4. ToolFrame(d, f, n).seen
  <2>1. CASE f.len > d.args
    BY <2>1 DEF ToolFrame, AddProcessed, Add, DecSet
  <2>2. CASE ~(f.len > d.args)
    BY <2>2 DEF ToolFrame, DecSet
  <2> QED
    BY <2>1, <2>2
<1>5. Add(d, "text", n).seen /\ [Add(d, "text", n) EXCEPT !.seen = TRUE].seen
  BY DEF Add, DecSet
<1>6. [d EXCEPT !.err = TRUE].seen
  BY DEF DecSet
<1> QED
  BY <1>1, <1>2, <1>3, <1>4, <1>5, <1>6 DEF DecodeFrame

\* A text that has been seen stays seen.
LEMMA SeenStays ==
  ASSUME NEW fs \in Seq(Frame), NEW lo \in Nat, lo = from - 1, lo <= Len(fs), ctx \in CtxSet, ctx.seen
  PROVE  Decoded(fs).seen
<1>1. PICK l \in Nat : l = Len(fs) /\ DOMAIN fs = 1..l
  OBVIOUS
<1>2. PICK f : /\ f[lo] = Fresh(fs)
               /\ \A i \in lo..l : i # lo => f[i] = DecodeFrame(f[i - 1], i)
               /\ Decoded(fs) = f[l]
  BY <1>1, DecodeRun
<1> DEFINE P == {i \in Nat : f[i] \in DecSet /\ f[i].frames = fs /\ Fine(f[i].msgs, lo, i) /\ f[i].seen}
<1>3. lo \in P
  <2>1. /\ Fresh(fs) \in DecSet /\ Fresh(fs).frames = fs
        /\ Fresh(fs).msgs = <<>> /\ Fresh(fs).seen
    BY DEF Fresh, DecSet, CtxSet
  <2>2. DOMAIN <<>> = {} /\ <<>> \in Seq(MsgSet)
    OBVIOUS
  <2>3. Fine(<<>>, lo, lo)
    BY <2>2 DEF Fine
  <2> QED
    BY <1>2, <2>1, <2>3
<1>4. ASSUME NEW i \in lo..l, i # lo, i - 1 \in P PROVE i \in P
  <2>1. PICK d : d = f[i - 1]
    OBVIOUS
  <2>2. /\ d \in DecSet /\ d.frames = fs /\ Fine(d.msgs, lo, i - 1) /\ d.seen
        /\ f[i] = DecodeFrame(d, i)
    BY <1>2, <1>4, <2>1
  <2>3. i \in Nat /\ lo < i /\ i \in DOMAIN fs
    BY <1>1, <1>4
  <2>4. DecodeFrame(d, i) \in DecSet /\ DecodeFrame(d, i).frames = fs /\ Fine(DecodeFrame(d, i).msgs, lo, i)
    BY <2>2, <2>3, DecodeStep
  <2>5. DecodeFrame(d, i).seen
    BY <2>2, DecodeSeen
  <2> QED
    BY <2>2, <2>3, <2>4, <2>5
<1>5. \A i \in lo..l : i \in P
  BY <1>3, <1>4, Upwards
<1> QED
  BY <1>1, <1>2, <1>5

LEMMA BoundedIs ==
  ASSUME NEW q \in Seq(Frame), Len(q) <= MaxFrames
  PROVE  q \in BoundedSeq(Frame, MaxFrames)
<1>1. PICK n \in Nat : n = Len(q) /\ q \in [1..n -> Frame]
  OBVIOUS
<1>2. n \in 0..MaxFrames
  BY <1>1, FrameAssumption
<1> QED
  BY <1>1, <1>2 DEF BoundedSeq, SeqOf

\* What SentOnce does not say of the variables' types.
Typed ==
  /\ api \in Apis /\ Len(frames) <= MaxFrames /\ part \in Part /\ phase \in Phase
  /\ stream /\ first.ready => ctx.seen

LEMMA TypedIs == SentOnce /\ Typed => TypeOK
<1> SUFFICES ASSUME SentOnce, Typed PROVE TypeOK
  OBVIOUS
<1>1. frames \in BoundedSeq(Frame, MaxFrames)
  BY BoundedIs DEF SentOnce, Typed
<1>2. events \in EvState
  BY DEF SentOnce, Clean
<1>3. events.ended \in BOOLEAN /\ events.index \in Nat /\ events.out \in Seq(EventSet)
  BY <1>2 DEF EvState
<1>4. ASSUME NEW i \in DOMAIN events.out PROVE events.out[i].type \in EventTypes
  <2>1. events.out[i] \in EventSet
    BY <1>3
  <2> QED
    BY <2>1 DEF EventSet
<1>5. first.ready \in BOOLEAN /\ first.taken \in BOOLEAN
  BY DEF SentOnce, FirstSet
<1> QED
  BY <1>1, <1>3, <1>4, <1>5 DEF TypeOK, SentOnce, Typed, Apis, CtxSet

\* A chunk that is taken.
LEMMA ChunkTyped ==
  ASSUME SentOnce, Typed, NEW c \in Chunk, CanArrive(c), Buffered(c)
  PROVE  /\ Len(frames') <= MaxFrames /\ part' \in Part
         /\ ctx.seen => Decoded(frames \o c.new).seen
<1>1. /\ frames \in Seq(Frame) /\ c.new \in Seq(Frame) /\ c.part \in Part /\ ctx \in CtxSet
      /\ from \in 1..(Len(frames) + 1)
  BY ChunkType DEF SentOnce
<1>2. Len(frames') = Len(frames) + Len(c.new)
  BY <1>1 DEF Buffered
<1>3. PICK fs : fs = frames \o c.new
  OBVIOUS
<1>4. fs \in Seq(Frame) /\ Len(frames) \in Nat /\ Len(fs) \in Nat /\ Len(frames) <= Len(fs)
  BY <1>3, Decoding
<1>5. PICK lo \in Nat : lo = from - 1 /\ lo <= Len(fs)
  BY <1>1, <1>4
<1>6. ctx.seen => Decoded(fs).seen
  BY <1>1, <1>4, <1>5, SeenStays
<1> QED
  BY <1>1, <1>2, <1>3, <1>6 DEF CanArrive, Buffered

LEMMA NextTyped == SentOnce /\ Typed /\ [Next]_vars => Typed'
<1> SUFFICES ASSUME SentOnce, Typed, [Next]_vars PROVE Typed'
  OBVIOUS
<1>0. api' = api /\ stream' = stream
  BY DEF Next, ReceiveFirst, ReceiveRest, ReceiveAll, EndsFirst, EndsRest, LastPieceSent,
         SendCollected, ReadFails, vars
<1>f. first \in FirstSet
  BY DEF SentOnce
<1>1. ASSUME NEW c \in Chunk, ReceiveFirst(c) PROVE Typed'
  <2>1. PICK d : d = Decoded(frames \o c.new)
    OBVIOUS
  <2>2. Len(frames') <= MaxFrames /\ part' \in Part /\ (ctx.seen => d.seen)
    BY <1>1, <2>1, ChunkTyped DEF ReceiveFirst
  <2>3. phase' \in Phase
    BY <1>1 DEF ReceiveFirst, Phase
  <2>4. ASSUME stream, first'.ready PROVE ctx'.seen
    <3>1. CASE TooShort(c)
      BY <1>1, <2>4, <3>1 DEF ReceiveFirst, Typed
    <3>2. CASE ~TooShort(c)
      <4>1. Decode(d)
        BY <1>1, <2>1, <3>2 DEF ReceiveFirst
      <4>2. ctx'.seen = d.seen
        BY <4>1 DEF Decode, CtxOf
      <4>3. first'.ready => first.ready \/ d.seen
        BY <1>f, <4>1 DEF Decode, FirstSet
      <4> QED
        BY <2>2, <2>4, <4>2, <4>3 DEF Typed
    <3> QED
      BY <3>1, <3>2
  <2> QED
    BY <1>0, <2>2, <2>3, <2>4 DEF Typed
<1>2. ASSUME NEW c \in Chunk, ReceiveRest(c) PROVE Typed'
  <2>1. PICK d : d = Decoded(frames \o c.new)
    OBVIOUS
  <2>2. Len(frames') <= MaxFrames /\ part' \in Part /\ (ctx.seen => d.seen)
    BY <1>2, <2>1, ChunkTyped DEF ReceiveRest
  <2>3. phase' \in Phase
    BY <1>2 DEF ReceiveRest, Phase
  <2>4. ASSUME stream, first'.ready PROVE ctx'.seen
    <3>1. CASE TooShort(c)
      BY <1>2, <2>4, <3>1 DEF ReceiveRest, Typed
    <3>2. CASE ~TooShort(c)
      <4>1. ctx' = CtxOf(d) /\ first' = IF d.err THEN first ELSE FirstLeft(c)
        BY <1>2, <2>1, <3>2 DEF ReceiveRest
      <4>2. ctx'.seen = d.seen
        BY <4>1 DEF CtxOf
      <4>3. first'.ready = first.ready
        BY <1>f, <4>1 DEF FirstLeft, FirstSet
      <4> QED
        BY <2>2, <2>4, <4>2, <4>3 DEF Typed
    <3> QED
      BY <3>1, <3>2
  <2> QED
    BY <1>0, <2>2, <2>3, <2>4 DEF Typed
<1>3. ASSUME NEW c \in Chunk, ReceiveAll(c) PROVE Typed'
  <2>1. PICK d : d = Decoded(frames \o c.new)
    OBVIOUS
  <2>2. Len(frames') <= MaxFrames /\ part' \in Part /\ (ctx.seen => d.seen)
    BY <1>3, <2>1, ChunkTyped DEF ReceiveAll
  <2>3. phase' \in Phase /\ first' = first
    BY <1>3 DEF ReceiveAll, Phase
  <2>4. ctx.seen => ctx'.seen
    <3>1. CASE TooShort(c)
      BY <1>3, <3>1 DEF ReceiveAll
    <3>2. CASE ~TooShort(c)
      BY <1>3, <2>1, <2>2, <3>2 DEF ReceiveAll, CtxOf
    <3> QED
      BY <3>1, <3>2
  <2> QED
    BY <1>0, <2>2, <2>3, <2>4 DEF Typed
<1>4. CASE EndsFirst \/ EndsRest \/ LastPieceSent \/ SendCollected \/ ReadFails \/ UNCHANGED vars
  <2>1. UNCHANGED <<api, stream, frames, part, ctx, first>>
    BY <1>4 DEF EndsFirst, EndsRest, LastPieceSent, SendCollected, ReadFails, vars, decoderVars
  <2>2. phase' \in Phase
    BY <1>4 DEF EndsFirst, EndsRest, LastPieceSent, SendCollected, ReadFails, vars, Phase, Typed
  <2> QED
    BY <2>1, <2>2 DEF Typed
<1> QED
  BY <1>1, <1>2, <1>3, <1>4 DEF Next

\* Every variable has its type whatever the upstream server sends and however
\* it is cut; in particular first_result is ready only when a text has been
\* decoded (first_result_ready and has_seen_content in decoder.rs).
THEOREM TypeCorrect == Spec => []TypeOK
<1>1. Init => SentOnce /\ Typed
  <2> SUFFICES ASSUME Init PROVE SentOnce /\ Typed
    OBVIOUS
  <2>1. Len(frames) = 0 /\ part = "none" /\ MaxFrames \in Nat
    BY FrameAssumption DEF Init
  <2>2. phase \in Phase /\ api \in Apis
    BY DEF Init, Phase, Apis
  <2>3. stream => ~first.ready
    BY DEF Init
  <2> QED
    BY <2>1, <2>2, <2>3, InitSentOnce DEF Typed, Part
<1>2. SentOnce /\ Typed /\ [Next]_vars => (SentOnce /\ Typed)'
  BY NextSentOnce, NextTyped
<1> QED
  BY <1>1, <1>2, TypedIs, PTL DEF Spec
=============================================================================
