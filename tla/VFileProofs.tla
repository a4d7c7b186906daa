----------------------------- MODULE VFileProofs -----------------------------
(***************************************************************************)
(* For files and vectors of any length and any bytes, and whichever writes *)
(* and syncs fail: the copies vfile_map and vfile_unmap make pass for      *)
(* shared memory.                                                          *)
(***************************************************************************)
EXTENDS VFile, SequenceTheorems, TLAPS

-----------------------------------------------------------------------------
(* Byte strings. *)

LEMMA FunctionIsSeq ==
  ASSUME NEW S, NEW n \in Nat, NEW f \in [1 .. n -> S]
  PROVE  f \in Seq(S) /\ Len(f) = n
<1>1. f \in Seq(S)
  BY SeqDef
<1>2. QED
  BY <1>1

LEMMA ByteIs ==
  ASSUME NEW S, 0 \in S, NEW s \in Seq(S), NEW i \in Nat \ {0}
  PROVE  Byte(s, i) \in S
<1>1. Len(s) \in Nat /\ (i <= Len(s) => s[i] \in S)
  BY ElementOfSeq
<1>2. QED
  BY <1>1 DEF Byte

(* Put and Resize give byte strings, and which. *)
LEMMA PutIs ==
  ASSUME NEW S, 0 \in S, NEW s \in Seq(S), NEW d \in Seq(S), NEW at \in Nat
  PROVE  /\ Put(s, at, d) \in Seq(S)
         /\ Len(Put(s, at, d)) =
              IF d = <<>> THEN Len(s) ELSE AtLeast(Len(s), at + Len(d))
         /\ \A i \in 1 .. Len(Put(s, at, d)) :
              Put(s, at, d)[i] =
                IF i > at /\ i <= at + Len(d) THEN d[i - at] ELSE Byte(s, i)
<1> DEFINE n == IF d = <<>> THEN Len(s) ELSE AtLeast(Len(s), at + Len(d))
           e(i) == IF i > at /\ i <= at + Len(d) THEN d[i - at] ELSE Byte(s, i)
<1>1. Len(s) \in Nat /\ Len(d) \in Nat /\ n \in Nat
  BY DEF AtLeast
<1>2. ASSUME NEW i \in 1 .. n PROVE e(i) \in S
  <2>1. i \in Nat \ {0} /\ Byte(s, i) \in S
    BY <1>1, ByteIs
  <2>2. CASE i > at /\ i <= at + Len(d)
    <3>1. i - at \in 1 .. Len(d)
      BY <1>1, <2>1, <2>2
    <3>2. QED
      BY <2>2, <3>1, ElementOfSeq
  <2>3. QED
    BY <2>1, <2>2
<1>3. Put(s, at, d) = [i \in 1 .. n |-> e(i)]
  BY DEF Put
<1>4. Put(s, at, d) \in [1 .. n -> S]
  BY <1>2, <1>3
<1>5. Put(s, at, d) \in Seq(S) /\ Len(Put(s, at, d)) = n
  BY <1>1, <1>4, FunctionIsSeq
<1>6. QED
  BY <1>3, <1>5

LEMMA ResizeIs ==
  ASSUME NEW S, 0 \in S, NEW s \in Seq(S), NEW n \in Nat
  PROVE  /\ Resize(s, n) \in Seq(S) /\ Len(Resize(s, n)) = n
         /\ \A i \in 1 .. n : Resize(s, n)[i] = Byte(s, i)
<1>1. \A i \in 1 .. n : Byte(s, i) \in S
  BY ByteIs
<1>2. Resize(s, n) \in [1 .. n -> S]
  BY <1>1 DEF Resize
<1>3. Resize(s, n) \in Seq(S) /\ Len(Resize(s, n)) = n
  BY <1>2, FunctionIsSeq
<1>4. QED
  BY <1>3 DEF Resize

LEMMA PrefixIs ==
  ASSUME NEW S, NEW s \in Seq(S), NEW n \in 0 .. Len(s)
  PROVE  /\ Prefix(s, n) \in Seq(S) /\ Len(Prefix(s, n)) = n
         /\ \A i \in 1 .. n : Prefix(s, n)[i] = s[i]
<1>1. n \in Nat /\ Len(s) \in Nat /\ \A i \in 1 .. n : s[i] \in S
  BY ElementOfSeq
<1>2. /\ SubSeq(s, 1, n) \in Seq(S)
      /\ Len(SubSeq(s, 1, n)) = IF 1 <= n THEN n - 1 + 1 ELSE 0
      /\ \A i \in 1 .. n - 1 + 1 : SubSeq(s, 1, n)[i] = s[1 + i - 1]
  BY <1>1, SubSeqProperties
<1>3. QED
  BY <1>1, <1>2 DEF Prefix

(* How long the result of a put is. *)
LEMMA PutLength ==
  ASSUME NEW S, 0 \in S, NEW s \in Seq(S), NEW d \in Seq(S), NEW at \in Nat
  PROVE  Len(Put(s, at, d)) = IF d = <<>> THEN Len(s) ELSE AtLeast(Len(s), at + Len(d))
BY PutIs

LEMMA PutGrows ==
  ASSUME NEW S, 0 \in S, NEW s \in Seq(S), NEW d \in Seq(S), NEW at \in Nat
  PROVE  Put(s, at, d) \in Seq(S) /\ Len(s) <= Len(Put(s, at, d))
<1> DEFINE p == Put(s, at, d)
<1>1. /\ p \in Seq(S)
      /\ Len(p) = IF d = <<>> THEN Len(s) ELSE AtLeast(Len(s), at + Len(d))
  BY PutIs
<1> HIDE DEF p
<1>2. Len(s) \in Nat /\ Len(d) \in Nat
  OBVIOUS
<1>3. Len(s) <= Len(p)
  BY <1>1, <1>2 DEF AtLeast
<1>4. QED
  BY <1>1, <1>3 DEF p

(* Nothing put changes nothing. *)
LEMMA PutNothing ==
  ASSUME NEW S, 0 \in S, NEW s \in Seq(S), NEW at \in Nat
  PROVE  Put(s, at, <<>>) = s
<1>1. <<>> \in Seq(S) /\ Len(<<>>) = 0 /\ Len(s) \in Nat
  BY EmptySeq
<1>2. /\ Put(s, at, <<>>) \in Seq(S) /\ Len(Put(s, at, <<>>)) = Len(s)
      /\ \A i \in 1 .. Len(s) : Put(s, at, <<>>)[i] = Byte(s, i)
  <2> DEFINE r == Put(s, at, <<>>)
  <2>1. /\ r \in Seq(S) /\ Len(r) = Len(s)
        /\ \A i \in 1 .. Len(r) : r[i] =
             IF i > at /\ i <= at + Len(<<>>) THEN <<>>[i - at] ELSE Byte(s, i)
    BY <1>1, PutIs
  <2> HIDE DEF r
  <2>2. \A i \in 1 .. Len(s) : r[i] = Byte(s, i)
    BY <1>1, <2>1
  <2>3. QED
    BY <2>1, <2>2 DEF r
<1>3. \A i \in 1 .. Len(s) : Byte(s, i) = s[i]
  BY <1>1 DEF Byte
<1>4. QED
  BY <1>2, <1>3, SeqEqual

(* A write past the end of what lies over the start changes neither.       *)
LEMMA PutsCommute ==
  ASSUME NEW S, 0 \in S, NEW s \in Seq(S), NEW d \in Seq(S), NEW f \in Seq(S),
         NEW at \in Nat, Len(f) <= at
  PROVE  Put(Put(s, at, d), 0, f) = Put(Put(s, 0, f), at, d)
<1> DEFINE p == Put(s, at, d)
           q == Put(s, 0, f)
           l == Put(p, 0, f)
           r == Put(q, at, d)
<1>1. /\ Len(s) \in Nat /\ Len(d) \in Nat /\ Len(f) \in Nat
      /\ (d = <<>> <=> Len(d) = 0) /\ (f = <<>> <=> Len(f) = 0)
  BY EmptySeq
<1>2. /\ p \in Seq(S) /\ Len(p) = IF d = <<>> THEN Len(s) ELSE AtLeast(Len(s), at + Len(d))
      /\ \A i \in 1 .. Len(p) :
           p[i] = IF i > at /\ i <= at + Len(d) THEN d[i - at] ELSE Byte(s, i)
  BY PutIs
<1>3. /\ q \in Seq(S) /\ Len(q) = IF f = <<>> THEN Len(s) ELSE AtLeast(Len(s), Len(f))
      /\ \A i \in 1 .. Len(q) :
           q[i] = IF i <= Len(f) THEN f[i] ELSE Byte(s, i)
  <2>1. /\ q \in Seq(S) /\ Len(q) = IF f = <<>> THEN Len(s) ELSE AtLeast(Len(s), 0 + Len(f))
        /\ \A i \in 1 .. Len(q) :
             q[i] = IF i > 0 /\ i <= 0 + Len(f) THEN f[i - 0] ELSE Byte(s, i)
    BY PutIs
  <2>2. QED
    BY <1>1, <2>1
<1>4. /\ l \in Seq(S) /\ Len(l) = IF f = <<>> THEN Len(p) ELSE AtLeast(Len(p), Len(f))
      /\ \A i \in 1 .. Len(l) :
           l[i] = IF i <= Len(f) THEN f[i] ELSE Byte(p, i)
  <2>1. /\ l \in Seq(S) /\ Len(l) = IF f = <<>> THEN Len(p) ELSE AtLeast(Len(p), 0 + Len(f))
        /\ \A i \in 1 .. Len(l) :
             l[i] = IF i > 0 /\ i <= 0 + Len(f) THEN f[i - 0] ELSE Byte(p, i)
    BY <1>2, PutIs
  <2>2. QED
    BY <1>1, <2>1
<1>5. /\ r \in Seq(S) /\ Len(r) = IF d = <<>> THEN Len(q) ELSE AtLeast(Len(q), at + Len(d))
      /\ \A i \in 1 .. Len(r) :
           r[i] = IF i > at /\ i <= at + Len(d) THEN d[i - at] ELSE Byte(q, i)
  BY <1>3, PutIs
<1> HIDE DEF p, q, l, r
<1>6. Len(l) = Len(r) /\ Len(l) \in Nat /\ Len(p) \in Nat /\ Len(q) \in Nat
  BY <1>1, <1>2, <1>3, <1>4, <1>5 DEF AtLeast
<1>7. ASSUME NEW i \in 1 .. Len(l) PROVE l[i] = r[i]
  <2>1. CASE i <= Len(f)
    <3>1. i <= Len(q) /\ i \in 1 .. Len(q)
      BY <1>1, <1>3, <1>6, <2>1 DEF AtLeast
    <3>2. QED
      BY <1>1, <1>3, <1>4, <1>5, <1>6, <2>1, <3>1 DEF Byte
  <2>2. CASE i > Len(f)
    <3>1. CASE i > at /\ i <= at + Len(d)
      <4>1. i <= Len(p)
        BY <1>1, <1>2, <1>6, <3>1 DEF AtLeast
      <4>2. QED
        BY <1>1, <1>2, <1>4, <1>5, <1>6, <2>2, <3>1, <4>1 DEF Byte
    <3>2. CASE ~(i > at /\ i <= at + Len(d))
      <4>1. l[i] = Byte(p, i) /\ r[i] = Byte(q, i)
        BY <1>1, <1>4, <1>5, <1>6, <2>2, <3>2
      <4>2. Byte(p, i) = Byte(s, i)
        BY <1>1, <1>2, <1>6, <3>2 DEF Byte, AtLeast
      <4>3. Byte(q, i) = Byte(s, i)
        BY <1>1, <1>3, <1>6, <2>2 DEF Byte, AtLeast
      <4>4. QED
        BY <4>1, <4>2, <4>3
    <3>3. QED
      BY <3>1, <3>2
  <2>3. QED
    BY <1>1, <1>6, <2>1, <2>2
<1>8. l = r
  BY <1>4, <1>5, <1>6, <1>7, SeqEqual
<1>9. QED
  BY <1>8 DEF p, q, l, r

(* So does one put over the start by a truncation beyond it. *)
LEMMA ResizeCommutes ==
  ASSUME NEW S, 0 \in S, NEW s \in Seq(S), NEW f \in Seq(S),
         NEW n \in Nat, Len(f) <= n
  PROVE  Put(Resize(s, n), 0, f) = Resize(Put(s, 0, f), n)
<1> DEFINE p == Resize(s, n)
           q == Put(s, 0, f)
           l == Put(p, 0, f)
           r == Resize(q, n)
<1>1. /\ Len(s) \in Nat /\ Len(f) \in Nat /\ (f = <<>> <=> Len(f) = 0)
      /\ p \in Seq(S) /\ Len(p) = n /\ \A i \in 1 .. n : p[i] = Byte(s, i)
  <2>1. Len(s) \in Nat /\ Len(f) \in Nat /\ (f = <<>> <=> Len(f) = 0)
    BY EmptySeq
  <2>2. p \in Seq(S) /\ Len(p) = n /\ \A i \in 1 .. n : p[i] = Byte(s, i)
    BY ResizeIs
  <2>3. QED
    BY <2>1, <2>2
<1>2. /\ q \in Seq(S) /\ Len(q) = IF f = <<>> THEN Len(s) ELSE AtLeast(Len(s), 0 + Len(f))
      /\ \A i \in 1 .. Len(q) :
           q[i] = IF i > 0 /\ i <= 0 + Len(f) THEN f[i - 0] ELSE Byte(s, i)
  BY PutIs
<1>3. /\ l \in Seq(S) /\ Len(l) = IF f = <<>> THEN Len(p) ELSE AtLeast(Len(p), 0 + Len(f))
      /\ \A i \in 1 .. Len(l) :
           l[i] = IF i > 0 /\ i <= 0 + Len(f) THEN f[i - 0] ELSE Byte(p, i)
  BY <1>1, PutIs
<1>4. /\ r \in Seq(S) /\ Len(r) = n /\ \A i \in 1 .. n : r[i] = Byte(q, i)
  BY <1>2, ResizeIs
<1> HIDE DEF p, q, l, r
<1>5. Len(l) = n /\ Len(q) \in Nat
  BY <1>1, <1>2, <1>3 DEF AtLeast
<1>6. ASSUME NEW i \in 1 .. n PROVE l[i] = r[i]
  <2>1. CASE i <= Len(f)
    <3>1. i \in 1 .. Len(q) /\ i \in 1 .. Len(f)
      BY <1>1, <1>2, <1>5, <2>1 DEF AtLeast
    <3>2. q[i] = f[i] /\ l[i] = f[i]
      BY <1>1, <1>2, <1>3, <1>5, <2>1, <3>1
    <3>3. QED
      BY <1>4, <1>5, <3>1, <3>2 DEF Byte
  <2>2. CASE i > Len(f)
    <3>1. l[i] = Byte(p, i) /\ Byte(p, i) = Byte(s, i)
      BY <1>1, <1>3, <1>5, <2>2 DEF Byte
    <3>2. Byte(q, i) = Byte(s, i)
      BY <1>1, <1>2, <1>5, <2>2 DEF Byte, AtLeast
    <3>3. QED
      BY <1>4, <3>1, <3>2
  <2>3. QED
    BY <1>1, <2>1, <2>2
<1>7. l = r
  BY <1>3, <1>4, <1>5, <1>6, SeqEqual
<1>8. QED
  BY <1>7 DEF p, q, l, r

(* A copy of the start, put back, changes nothing. *)
LEMMA CopyPutBack ==
  ASSUME NEW S, 0 \in S, NEW s \in Seq(S), NEW n \in 0 .. Len(s)
  PROVE  Put(s, 0, Resize(s, n)) = s
<1> DEFINE f == Resize(s, n)
           l == Put(s, 0, f)
<1>1. /\ n \in Nat /\ Len(s) \in Nat
      /\ f \in Seq(S) /\ Len(f) = n /\ \A i \in 1 .. n : f[i] = Byte(s, i)
  <2>1. n \in Nat /\ Len(s) \in Nat
    OBVIOUS
  <2>2. f \in Seq(S) /\ Len(f) = n /\ \A i \in 1 .. n : f[i] = Byte(s, i)
    BY <2>1, ResizeIs
  <2>3. QED
    BY <2>1, <2>2
<1>2. /\ l \in Seq(S) /\ Len(l) = IF f = <<>> THEN Len(s) ELSE AtLeast(Len(s), 0 + Len(f))
      /\ \A i \in 1 .. Len(l) :
           l[i] = IF i > 0 /\ i <= 0 + Len(f) THEN f[i - 0] ELSE Byte(s, i)
  BY <1>1, PutIs
<1> HIDE DEF f, l
<1>3. Len(l) = Len(s)
  BY <1>1, <1>2 DEF AtLeast
<1>4. \A i \in 1 .. Len(s) : l[i] = s[i]
  BY <1>1, <1>2, <1>3 DEF Byte
<1>5. QED
  BY <1>2, <1>3, <1>4, SeqEqual DEF f, l

(* What lies over the start, one of its bytes changed. *)
LEMMA PutElement ==
  ASSUME NEW S, 0 \in S, NEW s \in Seq(S), NEW f \in Seq(S),
         NEW i \in 1 .. Len(f), NEW b \in S
  PROVE  /\ [f EXCEPT ![i] = b] \in Seq(S) /\ Len([f EXCEPT ![i] = b]) = Len(f)
         /\ Put(s, 0, [f EXCEPT ![i] = b]) = [Put(s, 0, f) EXCEPT ![i] = b]
<1> DEFINE g == [f EXCEPT ![i] = b]
           q == Put(s, 0, f)
           r == [q EXCEPT ![i] = b]
<1>1. /\ g \in Seq(S) /\ Len(g) = Len(f)
      /\ \A j \in 1 .. Len(f) : g[j] = IF j = i THEN b ELSE f[j]
  BY ExceptSeq
<1> HIDE DEF g
<1> DEFINE l == Put(s, 0, g)
<1>2. /\ Len(s) \in Nat /\ Len(f) \in Nat /\ f # <<>> /\ g # <<>>
  BY <1>1, EmptySeq
<1>3. /\ q \in Seq(S) /\ Len(q) = IF f = <<>> THEN Len(s) ELSE AtLeast(Len(s), 0 + Len(f))
      /\ \A j \in 1 .. Len(q) :
           q[j] = IF j > 0 /\ j <= 0 + Len(f) THEN f[j - 0] ELSE Byte(s, j)
  BY PutIs
<1>4. /\ l \in Seq(S) /\ Len(l) = IF g = <<>> THEN Len(s) ELSE AtLeast(Len(s), 0 + Len(g))
      /\ \A j \in 1 .. Len(l) :
           l[j] = IF j > 0 /\ j <= 0 + Len(g) THEN g[j - 0] ELSE Byte(s, j)
  BY <1>1, PutIs
<1> HIDE DEF l, q
<1>5. Len(l) = Len(q) /\ i \in 1 .. Len(q) /\ Len(q) \in Nat
  BY <1>1, <1>2, <1>3, <1>4 DEF AtLeast
<1>6. /\ r \in Seq(S) /\ Len(r) = Len(q)
      /\ \A j \in 1 .. Len(q) : r[j] = IF j = i THEN b ELSE q[j]
  BY <1>3, <1>5, ExceptSeq
<1> HIDE DEF r
<1>7. ASSUME NEW j \in 1 .. Len(l) PROVE l[j] = r[j]
  <2>1. j \in 1 .. Len(q) /\ j > 0 /\ j - 0 = j /\ 0 + Len(f) = Len(f)
    BY <1>2, <1>5
  <2>2. CASE j <= Len(f)
    <3>1. l[j] = g[j] /\ q[j] = f[j] /\ j \in 1 .. Len(f)
      BY <1>1, <1>2, <1>3, <1>4, <2>1, <2>2
    <3>2. QED
      BY <1>1, <1>6, <2>1, <3>1
  <2>3. CASE j > Len(f)
    <3>1. l[j] = Byte(s, j) /\ q[j] = Byte(s, j) /\ j # i
      BY <1>1, <1>2, <1>3, <1>4, <2>1, <2>3
    <3>2. QED
      BY <1>6, <2>1, <3>1
  <2>4. QED
    BY <1>2, <2>1, <2>2, <2>3
<1>8. l = r
  BY <1>4, <1>5, <1>6, <1>7, SeqEqual
<1>9. QED
  BY <1>1, <1>8 DEF g, l, q, r

(* Read at the start one finds what lies over it, and beyond it the rest.  *)
LEMMA PrefixOfPut ==
  ASSUME NEW S, 0 \in S, NEW s \in Seq(S), NEW f \in Seq(S), NEW n \in 0 .. Len(f)
  PROVE  Prefix(Put(s, 0, f), n) = Prefix(f, n)
<1> DEFINE q == Put(s, 0, f)
<1>1. /\ Len(s) \in Nat /\ Len(f) \in Nat /\ n \in Nat /\ (f = <<>> <=> Len(f) = 0)
  BY EmptySeq
<1>2. /\ q \in Seq(S) /\ Len(q) = IF f = <<>> THEN Len(s) ELSE AtLeast(Len(s), 0 + Len(f))
      /\ \A i \in 1 .. Len(q) :
           q[i] = IF i > 0 /\ i <= 0 + Len(f) THEN f[i - 0] ELSE Byte(s, i)
  BY PutIs
<1> HIDE DEF q
<1>3. n \in 0 .. Len(q) /\ \A i \in 1 .. n : q[i] = f[i]
  BY <1>1, <1>2 DEF AtLeast
<1>4. /\ Prefix(q, n) \in Seq(S) /\ Len(Prefix(q, n)) = n
      /\ \A i \in 1 .. n : Prefix(q, n)[i] = q[i]
  BY <1>2, <1>3, PrefixIs
<1>5. /\ Prefix(f, n) \in Seq(S) /\ Len(Prefix(f, n)) = n
      /\ \A i \in 1 .. n : Prefix(f, n)[i] = f[i]
  BY PrefixIs
<1>6. Prefix(q, n) = Prefix(f, n)
  BY <1>3, <1>4, <1>5, SeqEqual
<1>7. QED
  BY <1>6 DEF q

LEMMA PieceIs ==
  ASSUME NEW S, NEW s, NEW at \in Nat, NEW k \in Nat,
         \A i \in at + 1 .. at + k : s[i] \in S
  PROVE  /\ SubSeq(s, at + 1, at + k) \in Seq(S)
         /\ Len(SubSeq(s, at + 1, at + k)) = k
         /\ \A i \in 1 .. k : SubSeq(s, at + 1, at + k)[i] = s[at + i]
<1> DEFINE m == at + 1
           n == at + k
           x == SubSeq(s, m, n)
<1>1. /\ m \in Int /\ n \in Int /\ n - m + 1 = k /\ (m <= n <=> k # 0)
      /\ \A i \in 1 .. k : m + i - 1 = at + i
  OBVIOUS
<1>2. \A i \in m .. n : s[i] \in S
  OBVIOUS
<1> HIDE DEF m, n
<1>3. /\ x \in Seq(S) /\ Len(x) = IF m <= n THEN n - m + 1 ELSE 0
      /\ \A i \in 1 .. n - m + 1 : x[i] = s[m + i - 1]
  BY <1>1, <1>2, SubSeqProperties
<1> HIDE DEF x
<1>4. x \in Seq(S) /\ Len(x) = k /\ \A i \in 1 .. k : x[i] = s[at + i]
  BY <1>1, <1>3
<1>5. QED
  BY <1>4 DEF m, n, x

LEMMA RestOfPut ==
  ASSUME NEW S, 0 \in S, NEW s \in Seq(S), NEW f \in Seq(S), Len(f) <= Len(s),
         NEW at \in Nat, Len(f) <= at, NEW k \in Nat, k <= AtLeast(0, Len(s) - at)
  PROVE  /\ Len(Put(s, 0, f)) = Len(s)
         /\ SubSeq(s, at + 1, at + k) \in Seq(S)
         /\ SubSeq(Put(s, 0, f), at + 1, at + k) = SubSeq(s, at + 1, at + k)
<1> DEFINE q == Put(s, 0, f)
           x == SubSeq(q, at + 1, at + k)
           y == SubSeq(s, at + 1, at + k)
<1>1. /\ Len(s) \in Nat /\ Len(f) \in Nat /\ (f = <<>> <=> Len(f) = 0)
  BY EmptySeq
<1>2. /\ q \in Seq(S) /\ Len(q) = IF f = <<>> THEN Len(s) ELSE AtLeast(Len(s), 0 + Len(f))
      /\ \A i \in 1 .. Len(q) :
           q[i] = IF i > 0 /\ i <= 0 + Len(f) THEN f[i - 0] ELSE Byte(s, i)
  BY PutIs
<1> HIDE DEF q
<1>3. Len(q) = Len(s)
  BY <1>1, <1>2 DEF AtLeast
<1>4. \A i \in at + 1 .. at + k : i \in 1 .. Len(s) /\ i > Len(f)
  BY <1>1 DEF AtLeast
<1>5. \A i \in at + 1 .. at + k : q[i] = s[i] /\ s[i] \in S
  BY <1>1, <1>2, <1>3, <1>4, ElementOfSeq DEF Byte
<1>6. y \in Seq(S) /\ Len(y) = k /\ \A i \in 1 .. k : y[i] = s[at + i]
  <2>1. \A i \in at + 1 .. at + k : s[i] \in S
    BY <1>5
  <2>2. QED
    BY <2>1, PieceIs
<1>7. x \in Seq(S) /\ Len(x) = k /\ \A i \in 1 .. k : x[i] = q[at + i]
  <2>1. \A i \in at + 1 .. at + k : q[i] \in S
    BY <1>5
  <2>2. QED
    BY <2>1, PieceIs
<1> HIDE DEF x, y
<1>8. ASSUME NEW i \in 1 .. k PROVE x[i] = y[i]
  <2>1. at + i \in at + 1 .. at + k
    OBVIOUS
  <2>2. QED
    BY <1>5, <1>6, <1>7, <2>1
<1>9. x = y
  BY <1>6, <1>7, <1>8, SeqEqual
<1>10. QED
  BY <1>3, <1>6, <1>9 DEF q, x, y

-----------------------------------------------------------------------------
(* Types. *)

IInv == Shape /\ MappingFits

LEMMA ZeroIsByte ==
  /\ 0 \in Bytes /\ Starts \subseteq Int /\ Offsets \subseteq Int
  /\ MaxLen \in Nat /\ Half \in Nat /\ MaxLen < Half /\ Modulus \in Nat /\ Half <= Modulus
  /\ \A chunk \in Chunks : chunk \in Seq(Bytes)
<1>1. Half \in Nat /\ Modulus \in Nat /\ Half <= Modulus
  BY DataAssumption DEF Modulus
<1>2. -Half .. Half - 1 \subseteq Int
  BY <1>1
<1>3. QED
  BY <1>1, <1>2, DataAssumption

(* The positions of a back end: all the lengths of files, and some more. *)
LEMMA PositionsAre ==
  /\ Positions \subseteq Nat
  /\ \A p \in Nat : p <= MaxLen => p \in Positions
  /\ \A p, q \in Nat : p <= q /\ q \in Positions => p \in Positions
  /\ UNCHANGED kind => Positions' = Positions
<1>1. \E n \in Nat : MaxLen < n /\ Positions = 0 .. n - 1
  BY ZeroIsByte DEF Positions
<1>2. UNCHANGED kind => Positions' = Positions
  BY DEF Positions
<1>3. QED
  BY <1>1, <1>2, ZeroIsByte

(* What a seek does: the cursor goes nowhere but to a position. *)
LEMMA MoveIs ==
  ASSUME NEW p \in Int, MoveTo(p), pos \in Nat
  PROVE  pos' \in Nat /\ ret' \in Int /\ (pos \in Positions => pos' \in Positions)
<1>1. CASE p \in Positions
  <2>1. p \in Nat /\ AsOff(p) \in Int
    BY <1>1, PositionsAre, ZeroIsByte DEF AsOff
  <2>2. QED
    BY <1>1, <2>1 DEF MoveTo
<1>2. CASE p \notin Positions
  BY <1>2 DEF MoveTo
<1>3. QED
  BY <1>1, <1>2

LEMMA SeekStartIs ==
  ASSUME IInv, NEW offset \in Starts, SeekStart(offset)
  PROVE  pos' \in Nat /\ ret' \in Int /\ (pos \in Positions => pos' \in Positions)
<1>1. AsU64(offset) \in Int
  BY ZeroIsByte DEF AsU64
<1>2. QED
  BY <1>1, MoveIs DEF SeekStart, IInv, Shape

LEMMA SeekFromIs ==
  ASSUME IInv, NEW base \in Nat, NEW offset \in Offsets, SeekFrom(base, offset)
  PROVE  pos' \in Nat /\ ret' \in Int /\ (pos \in Positions => pos' \in Positions)
<1>1. base + offset \in Int
  BY ZeroIsByte
<1>2. QED
  BY <1>1, MoveIs DEF SeekFrom, IInv, Shape

(* A prefix of a chunk written. *)
LEMMA WriteIs ==
  ASSUME IInv, NEW chunk \in Chunks, NEW k \in 1 .. Len(chunk),
         NEW d, d = Prefix(chunk, k)
  PROVE  /\ k \in Nat /\ d \in Seq(Bytes) /\ Len(d) = k
         /\ Put(bytes, pos, d) \in Seq(Bytes) /\ Len(bytes) <= Len(Put(bytes, pos, d))
<1>1. /\ chunk \in Seq(Bytes) /\ Len(chunk) \in Nat /\ k \in 0 .. Len(chunk) /\ k \in Nat
      /\ bytes \in Seq(Bytes) /\ Len(bytes) \in Nat /\ pos \in Nat
  BY ZeroIsByte DEF IInv, Shape
<1>2. d \in Seq(Bytes) /\ Len(d) = k
  BY <1>1, PrefixIs
<1>3. Put(bytes, pos, d) \in Seq(Bytes) /\ Len(bytes) <= Len(Put(bytes, pos, d))
  BY <1>1, <1>2, ZeroIsByte, PutGrows
<1>4. QED
  BY <1>1, <1>2, <1>3

(* Some or all of the buffer written back. *)
LEMMA WriteBackIs ==
  ASSUME IInv, NEW k \in 0 .. Len(buf)
  PROVE  /\ Prefix(buf, k) \in Seq(Bytes) /\ Prefix(buf, Len(buf)) = buf
         /\ Put(bytes, 0, Prefix(buf, k)) \in Seq(Bytes)
<1>1. bytes \in Seq(Bytes) /\ buf \in Seq(Bytes)
  BY DEF IInv, Shape
<1>2. Prefix(buf, k) \in Seq(Bytes)
  BY <1>1, PrefixIs
<1>3. Prefix(buf, Len(buf)) = buf
  BY <1>1, SubSeqFull DEF Prefix
<1>4. QED
  BY <1>1, <1>2, <1>3, ZeroIsByte, PutIs

LEMMA NothingMapped == <<>> \in Seq(Bytes) /\ Len(<<>>) = 0
BY EmptySeq

LEMMA BufferGone ==
  ASSUME NEW f, f = <<>>, NEW s \in Seq(Bytes)
  PROVE  f \in Seq(Bytes) /\ Len(f) <= Len(s)
<1>1. Len(s) \in Nat /\ Len(f) = 0
  BY NothingMapped
<1>2. QED
  BY <1>1, NothingMapped

LEMMA Initially == Init => IInv
<1> SUFFICES ASSUME Init PROVE IInv
  OBVIOUS
<1>1. PICK n \in 0 .. MaxLen : bytes \in [1 .. n -> Bytes]
  BY DEF Init
<1>2. n \in Nat
  BY ZeroIsByte
<1>3. bytes \in Seq(Bytes) /\ Len(bytes) \in Nat
  BY <1>1, <1>2, FunctionIsSeq
<1>4. buf = <<>> /\ got = <<>> /\ disk = bytes /\ mapped = FALSE
  BY DEF Init
<1>5. MappingFits
  BY <1>3, <1>4, NothingMapped DEF MappingFits
<1>6. Shape
  <2>1. /\ kind \in Kinds /\ pos \in Nat /\ ret \in Int
        /\ state \in {"open", "closed", "aborted", "crashed"}
    BY DEF Init
  <2>2. buf \in Seq(Bytes) /\ got \in Seq(Bytes)
    BY <1>4, NothingMapped
  <2>3. mapped \in BOOLEAN
    BY <1>4
  <2>4. QED
    BY <1>3, <1>4, <2>1, <2>2, <2>3, Zenon DEF Shape
<1>7. QED
  BY <1>5, <1>6 DEF IInv

LEMMA StepKeeps == ASSUME IInv, [Next]_vars PROVE IInv'
<1> USE DEF IInv, Shape, MappingFits
<1>1. ASSUME NEW offset \in Starts, SeekStart(offset) PROVE IInv'
  BY <1>1, SeekStartIs DEF SeekStart
<1>2. ASSUME NEW offset \in Offsets, SeekFrom(pos, offset) \/ SeekFrom(Len(bytes), offset)
      PROVE  IInv'
  <2>1. Len(bytes) \in Nat
    OBVIOUS
  <2>2. pos' \in Nat /\ ret' \in Int
    BY <1>2, <2>1, SeekFromIs
  <2>3. QED
    BY <1>2, <2>2 DEF SeekFrom
<1>3. ASSUME NEW n \in 0 .. MaxLen, Read(n) PROVE IInv'
  <2>1. PICK k \in 0 .. n :
          /\ k <= AtLeast(0, Len(bytes) - pos)
          /\ got' = SubSeq(bytes, pos + 1, pos + k) /\ pos' = pos + k /\ ret' = k
    BY <1>3 DEF Read
  <2>2. k \in Nat /\ n \in Nat
    BY ZeroIsByte
  <2>3. SubSeq(bytes, pos + 1, pos + k) \in Seq(Bytes)
    BY <1>3, <2>1, <2>2, ZeroIsByte, RestOfPut DEF Read
  <2>4. QED
    BY <1>3, <2>1, <2>2, <2>3 DEF Read
<1>4. ASSUME NEW chunk \in Chunks, Write(chunk) PROVE IInv'
  <2>1. PICK k \in 1 .. Len(chunk) :
          bytes' = Put(bytes, pos, Prefix(chunk, k)) /\ pos' = pos + k /\ ret' = k
    BY <1>4 DEF Write
  <2>2. k \in Nat /\ bytes' \in Seq(Bytes) /\ Len(bytes) <= Len(bytes')
    BY <2>1, WriteIs
  <2>3. Len(buf) <= Len(bytes')
    <3>1. Len(buf) \in Nat /\ Len(bytes) \in Nat /\ Len(bytes') \in Nat
      BY <2>2
    <3>2. QED
      BY <2>2, <3>1
  <2>4. QED
    BY <1>4, <2>1, <2>2, <2>3 DEF Write
<1>5. CASE SeekUnknown \/ ReadFails \/ WriteFails
  BY <1>5 DEF SeekUnknown, ReadFails, WriteFails
<1>6. ASSUME NEW n \in 0 .. MaxLen, Truncate(n) PROVE IInv'
  <2>1. n \in Nat /\ 0 \in Bytes /\ bytes \in Seq(Bytes)
    BY ZeroIsByte
  <2>2. Resize(bytes, n) \in Seq(Bytes) /\ Len(Resize(bytes, n)) = n
    BY <2>1, ResizeIs
  <2>3. QED
    BY <1>6, <2>1, <2>2 DEF Truncate
<1>7. CASE Size
  BY <1>7 DEF Size, SeekBack
<1>8. ASSUME NEW size \in 0 .. MaxLen, Map(size) PROVE IInv'
  <2>1. size \in Nat /\ 0 \in Bytes /\ bytes \in Seq(Bytes)
    BY ZeroIsByte
  <2>2. Resize(bytes, size) \in Seq(Bytes) /\ Len(Resize(bytes, size)) = size
    BY <2>1, ResizeIs
  <2>3. QED
    BY <1>8, <2>1, <2>2 DEF Map, HasPrefix, SeekBack
<1>9. ASSUME NEW size \in 0 .. MaxLen, MapFails(size) PROVE IInv'
  BY <1>9 DEF MapFails, SeekBack
<1>10. ASSUME NEW b \in Bytes, NEW i \in DOMAIN buf, Store(i, b) PROVE IInv'
  <2>1. i \in 1 .. Len(buf)
    OBVIOUS
  <2>2. buf' \in Seq(Bytes) /\ Len(buf') = Len(buf) /\ buf # <<>>
    BY <1>10, <2>1, ExceptSeq, EmptySeq DEF Store
  <2>3. QED
    BY <1>10, <2>2 DEF Store
<1>11. CASE Unmap
  <2>1. bytes' \in Seq(Bytes)
    BY <1>11, ZeroIsByte, PutIs DEF Unmap, WriteBack
  <2>2. buf' = <<>> /\ buf' \in Seq(Bytes) /\ Len(buf') <= Len(bytes')
    BY <1>11, <2>1, BufferGone DEF Unmap
  <2>3. ret' \in Int /\ mapped' \in BOOLEAN
    <3>1. ret' = 0 /\ mapped' = FALSE
      BY <1>11, Zenon DEF Unmap
    <3>2. ret' \in Int
      BY <3>1
    <3>3. QED
      BY <3>1, <3>2, Zenon
  <2>4. QED
    BY <1>11, <2>1, <2>2, <2>3, Zenon DEF Unmap, SeekBack
<1>12. CASE UnmapAborts
  <2>1. Len(buf) \in Nat
    OBVIOUS
  <2>2. PICK k \in 0 .. Len(buf) - 1 : bytes' = Put(bytes, 0, Prefix(buf, k))
    BY <1>12 DEF UnmapAborts
  <2>3. k \in 0 .. Len(buf)
    BY <2>1
  <2>4. bytes' \in Seq(Bytes)
    BY <2>2, <2>3, WriteBackIs
  <2>5. buf' = <<>> /\ buf' \in Seq(Bytes) /\ Len(buf') <= Len(bytes')
    BY <1>12, <2>4, BufferGone DEF UnmapAborts
  <2>6. mapped' \in BOOLEAN
    BY <1>12 DEF UnmapAborts
  <2>7. QED
    BY <1>12, <2>4, <2>5, <2>6, Zenon DEF UnmapAborts
<1>13. CASE Sync
  BY <1>13 DEF Sync
<1>14. CASE SyncFails
  BY <1>14 DEF SyncFails
<1>15. CASE Close
  BY <1>15 DEF Close
<1>16. CASE Crash
  <2>1. bytes' \in Seq(Bytes)
    BY <1>16 DEF Crash
  <2>2. buf' = <<>> /\ buf' \in Seq(Bytes) /\ Len(buf') <= Len(bytes')
    BY <1>16, <2>1, BufferGone DEF Crash
  <2>3. mapped' \in BOOLEAN
    BY <1>16 DEF Crash
  <2>4. QED
    BY <1>16, <2>1, <2>2, <2>3, Zenon DEF Crash
<1>17. CASE UNCHANGED vars
  BY <1>17 DEF vars
<1>18. QED
  BY <1>1, <1>2, <1>3, <1>4, <1>5, <1>6, <1>7, <1>8, <1>9, <1>10, <1>11, <1>12,
     <1>13, <1>14, <1>15, <1>16, <1>17 DEF Next

(* No back end grows past its bound, which is a position of either: why no *)
(* read or write takes the cursor anywhere else.                           *)
Bounded == pos \in Positions /\ Len(bytes) <= MaxLen /\ Len(disk) <= MaxLen

LEMMA BoundsKeep == ASSUME IInv, Bounded, [Next]_vars PROVE Bounded'
<1> USE DEF Bounded
<1>0. /\ Len(bytes) \in Nat /\ Len(disk) \in Nat /\ Len(buf) \in Nat /\ pos \in Nat
      /\ MaxLen \in Nat
      /\ bytes \in Seq(Bytes) /\ buf \in Seq(Bytes) /\ 0 \in Bytes
      /\ Len(buf) <= Len(bytes)
  BY ZeroIsByte DEF IInv, Shape, MappingFits
<1>1. ASSUME UNCHANGED kind, pos' \in Positions, Len(bytes') <= MaxLen, Len(disk') <= MaxLen
      PROVE  Bounded'
  BY <1>1, PositionsAre
<1>2. ASSUME NEW offset \in Starts, SeekStart(offset) PROVE Bounded'
  BY <1>1, <1>2, SeekStartIs DEF SeekStart
<1>3. ASSUME NEW base \in Nat, NEW offset \in Offsets, SeekFrom(base, offset)
      PROVE  Bounded'
  BY <1>1, <1>3, SeekFromIs DEF SeekFrom
<1>4. ASSUME NEW n \in 0 .. MaxLen, Read(n) PROVE Bounded'
  <2>1. PICK k \in 0 .. n : k <= AtLeast(0, Len(bytes) - pos) /\ pos' = pos + k
    BY <1>4 DEF Read
  <2>2. pos' \in Nat /\ (pos' <= Len(bytes) \/ pos' = pos)
    BY <1>0, <2>1 DEF AtLeast
  <2>3. pos' \in Positions
    BY <1>0, <2>2, PositionsAre
  <2>4. QED
    BY <1>1, <1>4, <2>3 DEF Read
<1>5. ASSUME NEW chunk \in Chunks, Write(chunk) PROVE Bounded'
  <2>1. PICK k \in 1 .. Len(chunk) : bytes' = Put(bytes, pos, Prefix(chunk, k)) /\ pos' = pos + k
    BY <1>5 DEF Write
  <2>2. /\ chunk \in Seq(Bytes) /\ Len(chunk) \in Nat /\ pos + Len(chunk) <= MaxLen
        /\ k \in Nat /\ k <= Len(chunk)
    BY <1>5, ZeroIsByte DEF Write
  <2>3. Prefix(chunk, k) \in Seq(Bytes) /\ Len(Prefix(chunk, k)) = k
    BY WriteIs
  <2>4. Len(bytes') = IF Prefix(chunk, k) = <<>> THEN Len(bytes) ELSE AtLeast(Len(bytes), pos + k)
    <3> DEFINE d == Prefix(chunk, k)
    <3>1. bytes' = Put(bytes, pos, d) /\ d \in Seq(Bytes) /\ Len(d) = k
      BY <2>1, <2>3
    <3> HIDE DEF d
    <3>2. Len(Put(bytes, pos, d)) =
            IF d = <<>> THEN Len(bytes) ELSE AtLeast(Len(bytes), pos + Len(d))
      BY <1>0, <3>1, PutLength
    <3>3. Len(bytes') = IF d = <<>> THEN Len(bytes) ELSE AtLeast(Len(bytes), pos + k)
      BY <3>1, <3>2
    <3> USE DEF d
    <3>4. QED
      BY <3>3
  <2>5. Len(bytes') <= MaxLen /\ pos' \in Nat /\ pos' <= MaxLen
    BY <1>0, <2>1, <2>2, <2>4 DEF AtLeast
  <2>6. QED
    BY <1>1, <1>5, <2>5, PositionsAre DEF Write
<1>6. ASSUME NEW n \in 0 .. MaxLen, Truncate(n) PROVE Bounded'
  <2>1. n \in Nat /\ n <= MaxLen /\ Len(Resize(bytes, n)) = n
    BY <1>0, ResizeIs
  <2>2. QED
    BY <1>1, <1>6, <2>1 DEF Truncate
<1>7. ASSUME NEW k \in 0 .. Len(buf), bytes' = Put(bytes, 0, Prefix(buf, k))
      PROVE  Len(bytes') <= MaxLen
  <2>1. Prefix(buf, k) \in Seq(Bytes) /\ Len(Prefix(buf, k)) = k /\ k \in Nat /\ k <= Len(buf)
    BY <1>0, PrefixIs
  <2>2. Len(bytes') = IF Prefix(buf, k) = <<>> THEN Len(bytes) ELSE AtLeast(Len(bytes), 0 + k)
    BY <1>0, <1>7, <2>1, PutLength
  <2>3. QED
    BY <1>0, <2>1, <2>2 DEF AtLeast
<1>8. CASE Unmap
  <2>1. Len(buf) \in 0 .. Len(buf) /\ bytes' = Put(bytes, 0, Prefix(buf, Len(buf)))
    BY <1>0, <1>8, WriteBackIs DEF Unmap, WriteBack
  <2>2. QED
    BY <1>1, <1>7, <1>8, <2>1 DEF Unmap, SeekBack
<1>9. CASE UnmapAborts
  <2>1. PICK k \in 0 .. Len(buf) - 1 : bytes' = Put(bytes, 0, Prefix(buf, k))
    BY <1>9 DEF UnmapAborts
  <2>2. k \in 0 .. Len(buf)
    BY <1>0
  <2>3. QED
    BY <1>1, <1>7, <1>9, <2>1, <2>2 DEF UnmapAborts
<1>10. CASE Sync
  <2>1. disk' \in {bytes, disk} /\ UNCHANGED <<kind, pos, bytes>>
    BY <1>10 DEF Sync
  <2>2. QED
    BY <1>1, <2>1
<1>11. CASE Crash
  BY <1>1, <1>11 DEF Crash
<1>12. ASSUME UNCHANGED <<kind, bytes, disk, pos>> PROVE Bounded'
  BY <1>1, <1>12
<1>13. ASSUME \/ SeekUnknown \/ ReadFails \/ WriteFails \/ Size \/ SyncFails \/ Close \/ UNCHANGED vars
              \/ \E size \in 0 .. MaxLen : Map(size) \/ MapFails(size)
              \/ \E b \in Bytes : \E i \in DOMAIN buf : Store(i, b)
       PROVE  Bounded'
  BY <1>12, <1>13 DEF SeekUnknown, ReadFails, WriteFails, Size, SyncFails, Close, Map,
     MapFails, Store, SeekBack, vars
<1>14. QED
  BY <1>0, <1>2, <1>3, <1>4, <1>5, <1>6, <1>8, <1>9, <1>10, <1>11, <1>13 DEF Next

LEMMA BoundedInitially == Init => Bounded
<1> SUFFICES ASSUME Init PROVE Bounded
  OBVIOUS
<1>1. PICK n \in 0 .. MaxLen : bytes \in [1 .. n -> Bytes]
  BY DEF Init
<1>2. n \in Nat /\ n <= MaxLen /\ 0 \in Positions
  BY ZeroIsByte, PositionsAre
<1>3. Len(bytes) = n
  BY <1>1, <1>2, FunctionIsSeq
<1>4. QED
  BY <1>2, <1>3 DEF Init, Bounded

-----------------------------------------------------------------------------
(* The refinement: every call is one of the mapped file's, or nothing.     *)

LEMMA SameBytes ==
  ASSUME NEW s, NEW n, NEW d
  PROVE  /\ Memory!Put(s, n, d) = Put(s, n, d)
         /\ Memory!Prefix(s, n) = Prefix(s, n)
         /\ Memory!Resize(s, n) = Resize(s, n)
         /\ Memory!AtLeast(s, n) = AtLeast(s, n)
BY DEF Memory!Put, Memory!Prefix, Memory!Resize, Memory!AtLeast, Memory!Byte,
       Put, Prefix, Resize, AtLeast, Byte

(* What the core takes the file to hold. *)
Content == Put(bytes, 0, buf)
View == IF mapped THEN Len(buf) ELSE -1

LEMMA ContentIs ==
  ASSUME IInv
  PROVE  /\ Content \in Seq(Bytes) /\ Len(Content) = Len(bytes)
         /\ bytes \in Seq(Bytes) /\ buf \in Seq(Bytes) /\ Len(buf) \in Nat /\ 0 \in Bytes
         /\ Len(bytes) \in Nat /\ Len(buf) <= Len(bytes)
         /\ ~mapped => Content = bytes
<1>1. /\ bytes \in Seq(Bytes) /\ buf \in Seq(Bytes) /\ Len(buf) <= Len(bytes) /\ 0 \in Bytes
      /\ Len(bytes) \in Nat /\ Len(buf) \in Nat
  BY ZeroIsByte DEF IInv, Shape, MappingFits
<1>2. Content \in Seq(Bytes)
  BY <1>1, PutIs DEF Content
<1>3. Len(Content) = Len(bytes)
  <2>1. Len(Content) = IF buf = <<>> THEN Len(bytes) ELSE AtLeast(Len(bytes), 0 + Len(buf))
    BY <1>1, PutIs DEF Content
  <2>2. QED
    BY <1>1, <2>1 DEF AtLeast
<1>4. ASSUME ~mapped PROVE Content = bytes
  <2>1. buf = <<>>
    BY <1>4 DEF IInv, Shape
  <2>2. QED
    BY <1>1, <2>1, PutNothing DEF Content
<1>5. QED
  BY <1>1, <1>2, <1>3, <1>4

USE DEF OnDisk

LEMMA MemoryInitially == Init => Memory!Init
<1> SUFFICES ASSUME Init PROVE Memory!Init
  OBVIOUS
<1>1. Content = bytes /\ View = -1
  BY Initially, ContentIs DEF Init, View
<1>2. /\ state = "open" /\ disk = bytes /\ pos = 0 /\ got = <<>>
      /\ bytes \in UNION {[1 .. n -> Bytes] : n \in 0 .. MaxLen}
      /\ OnDisk \in BOOLEAN
  BY DEF Init
<1>3. QED
  BY <1>1, <1>2, SameBytes, Zenon DEF Memory!Init, Memory!NoView, Content, View

LEMMA SeekMoves ==
  ASSUME IInv, pos' \in Nat, state = "open",
         UNCHANGED <<kind, state, bytes, disk, mapped, buf, got>>
  PROVE  Memory!MoveCursor
BY DEF Memory!MoveCursor

LEMMA ReadReads ==
  ASSUME IInv, NEW n \in 0 .. MaxLen, Read(n)
  PROVE  Memory!Read
<1>1. PICK k \in 0 .. n :
        /\ k <= AtLeast(0, Len(bytes) - pos)
        /\ got' = SubSeq(bytes, pos + 1, pos + k) /\ pos' = pos + k
  BY DEF Read
<1>2. /\ k \in Nat /\ pos \in Nat /\ Len(bytes) \in Nat /\ 0 \in Bytes
      /\ bytes \in Seq(Bytes) /\ buf \in Seq(Bytes)
      /\ Len(buf) <= Len(bytes) /\ Len(buf) <= pos /\ Len(Content) = Len(bytes)
  BY ZeroIsByte, ContentIs DEF Read, IInv, Shape
<1>3. got' = SubSeq(Content, pos + 1, pos + k)
  BY <1>1, <1>2, RestOfPut DEF Content
<1>4. k \in 0 .. Len(Content) /\ pos + k <= AtLeast(pos, Len(Content))
  BY <1>1, <1>2 DEF AtLeast
<1>5. View <= pos
  BY <1>2 DEF View
<1>6. UNCHANGED <<Content, View>>
  BY DEF Read, Content, View
<1>7. state = "open" /\ UNCHANGED <<state, kind, bytes, disk>>
  BY DEF Read, Open
<1>8. QED
  BY <1>1, <1>3, <1>4, <1>5, <1>6, <1>7, SameBytes DEF Memory!Read, Content, View

LEMMA WriteWrites ==
  ASSUME IInv, NEW chunk \in Chunks, Write(chunk)
  PROVE  Memory!Write
<1>1. PICK k \in 1 .. Len(chunk) :
        bytes' = Put(bytes, pos, Prefix(chunk, k)) /\ pos' = pos + k
  BY DEF Write
<1>2. /\ Prefix(chunk, k) \in Seq(Bytes) /\ pos \in Nat /\ 0 \in Bytes
      /\ bytes \in Seq(Bytes) /\ buf \in Seq(Bytes) /\ Len(buf) <= pos
  BY WriteIs, ZeroIsByte DEF Write, IInv, Shape
<1>3. buf' = buf
  BY DEF Write
<1>4. Content' = Put(Content, pos, Prefix(chunk, k))
  BY <1>1, <1>2, <1>3, PutsCommute DEF Content
<1>5. View <= pos
  BY <1>2 DEF View
<1>6. state = "open" /\ UNCHANGED <<state, kind, disk, got, mapped, buf>>
  BY DEF Write, Open
<1>7. UNCHANGED View
  BY <1>6 DEF View
<1>8. /\ Content' = Memory!Put(Content, pos, Memory!Prefix(chunk, k))
      /\ bytes' = Memory!Put(bytes, pos, Memory!Prefix(chunk, k))
  BY <1>1, <1>4, SameBytes
<1>9. \E c \in Chunks : \E l \in 1 .. Len(c) :
        /\ Content' = Memory!Put(Content, pos, Memory!Prefix(c, l))
        /\ bytes' = Memory!Put(bytes, pos, Memory!Prefix(c, l))
        /\ pos' = pos + l
  BY <1>1, <1>8
<1>10. QED
  BY <1>5, <1>6, <1>7, <1>9 DEF Memory!Write, Content, View

LEMMA TruncateTruncates ==
  ASSUME IInv, NEW n \in 0 .. MaxLen, Truncate(n), bytes' = Resize(bytes, n)
  PROVE  Memory!Truncate
<1>1. /\ n \in Nat /\ 0 \in Bytes /\ bytes \in Seq(Bytes) /\ buf \in Seq(Bytes)
      /\ Len(buf) <= n
  BY ZeroIsByte DEF Truncate, IInv, Shape
<1>2. state = "open" /\ UNCHANGED <<state, kind, disk, pos, got, mapped, buf>>
  BY DEF Truncate, Open
<1>3. Content' = Resize(Content, n)
  BY <1>1, <1>2, ResizeCommutes DEF Content
<1>4. View <= n /\ UNCHANGED View
  BY <1>1, <1>2 DEF View
<1>5. QED
  BY <1>2, <1>3, <1>4, SameBytes DEF Memory!Truncate, Content, View

LEMMA MapMaps ==
  ASSUME IInv, NEW size \in 0 .. MaxLen, Map(size)
  PROVE  Memory!Map
<1>1. /\ size \in Nat /\ 0 \in Bytes /\ bytes \in Seq(Bytes) /\ Len(bytes) \in Nat
      /\ size \in 0 .. Len(bytes)
  BY ZeroIsByte DEF Map, HasPrefix, IInv, Shape
<1>2. /\ state = "open" /\ ~mapped /\ mapped' /\ buf' = Resize(bytes, size)
      /\ UNCHANGED <<state, kind, bytes, disk, pos, got>>
  BY DEF Map, Open, SeekBack
<1>3. Content = bytes
  BY <1>2, ContentIs
<1>4. Content' = bytes
  BY <1>1, <1>2, CopyPutBack DEF Content
<1>5. Len(buf') = size
  BY <1>1, <1>2, ResizeIs
<1>6. View = -1 /\ View' = size
  BY <1>2, <1>5 DEF View
<1>7. QED
  BY <1>1, <1>2, <1>3, <1>4, <1>6 DEF Memory!Map, Memory!NoView, Content, View

LEMMA StoreStores ==
  ASSUME IInv, NEW b \in Bytes, NEW i \in DOMAIN buf, Store(i, b)
  PROVE  Memory!Store
<1>1. /\ i \in 1 .. Len(buf) /\ 0 \in Bytes /\ bytes \in Seq(Bytes) /\ buf \in Seq(Bytes)
      /\ Len(buf) \in Nat
  BY ZeroIsByte DEF IInv, Shape
<1>2. /\ state = "open" /\ buf' = [buf EXCEPT ![i] = b]
      /\ UNCHANGED <<state, kind, bytes, disk, pos, mapped, got>>
  BY DEF Store, Open
<1>3. Content' = [Content EXCEPT ![i] = b] /\ Len(buf') = Len(buf)
  <2>1. /\ Len([buf EXCEPT ![i] = b]) = Len(buf)
        /\ Put(bytes, 0, [buf EXCEPT ![i] = b]) = [Put(bytes, 0, buf) EXCEPT ![i] = b]
    BY <1>1, PutElement
  <2>2. QED
    BY <1>2, <2>1 DEF Content
<1>4. mapped
  BY <1>1, EmptySeq DEF IInv, Shape
<1>5. View = Len(buf) /\ UNCHANGED View
  BY <1>2, <1>3, <1>4 DEF View
<1>6. i \in 1 .. View
  BY <1>1, <1>5
<1>7. QED
  BY <1>2, <1>3, <1>5, <1>6 DEF Memory!Store, Content, View

(* What is left of the mapping when it is gone. *)
LEMMA Unmapped ==
  ASSUME buf' = <<>>, mapped' = FALSE, bytes' \in Seq(Bytes)
  PROVE  Content' = bytes' /\ View' = -1
<1>1. Content' = bytes'
  BY ZeroIsByte, PutNothing DEF Content
<1>2. QED
  BY <1>1 DEF View

LEMMA UnmapUnmaps == ASSUME IInv, Unmap PROVE Memory!Unmap
<1>1. /\ state = "open" /\ mapped /\ bytes' = Content /\ buf' = <<>> /\ mapped' = FALSE
      /\ UNCHANGED <<state, kind, disk, pos, got>>
  BY DEF Unmap, Open, WriteBack, SeekBack, Content
<1>2. Content \in Seq(Bytes) /\ Len(buf) \in Nat
  BY ContentIs
<1>3. Content' = Content /\ View' = -1
  BY <1>1, <1>2, Unmapped
<1>4. View # -1
  BY <1>1, <1>2 DEF View
<1>5. QED
  BY <1>1, <1>3, <1>4 DEF Memory!Unmap, Memory!NoView, Content, View

LEMMA UnmapAbortAborts == ASSUME IInv, UnmapAborts PROVE Memory!Abort
<1>1. /\ state = "open" /\ state' = "aborted" /\ buf' = <<>> /\ mapped' = FALSE
      /\ UNCHANGED <<kind, disk, pos, got>>
  BY DEF UnmapAborts, Open
<1>2. /\ bytes \in Seq(Bytes) /\ buf \in Seq(Bytes) /\ Len(buf) \in Nat /\ 0 \in Bytes
  BY ContentIs
<1>3. PICK k \in 0 .. Len(buf) - 1 : bytes' = Put(bytes, 0, Prefix(buf, k))
  BY DEF UnmapAborts
<1>4. k \in 0 .. Len(buf)
  BY <1>2, <1>3
<1>5. Prefix(Content, k) = Prefix(buf, k)
  BY <1>2, <1>4, PrefixOfPut DEF Content
<1>6. bytes' \in Seq(Bytes)
  BY <1>3, <1>4, WriteBackIs
<1>7. Content' = bytes' /\ View' = -1
  BY <1>1, <1>6, Unmapped
<1>8. View = Len(buf)
  <2>1. buf # <<>>
    BY <1>2, <1>3, EmptySeq
  <2>2. QED
    BY <2>1 DEF View, IInv, Shape
<1>9. OnDisk
  BY KindAssumption DEF UnmapAborts, CanWrite, CanFail, IInv, Shape
<1>10. k \in 0 .. View - 1
  BY <1>3, <1>8
<1>11. bytes' = Memory!Put(bytes, 0, Memory!Prefix(Content, k))
  BY <1>3, <1>5, SameBytes
<1>12. \E l \in 0 .. View - 1 : bytes' = Memory!Put(bytes, 0, Memory!Prefix(Content, l))
  BY <1>10, <1>11
<1>13. QED
  BY <1>1, <1>7, <1>9, <1>12 DEF Memory!Abort, Memory!NoView, Content, View

LEMMA CrashCrashes == ASSUME IInv, Crash PROVE Memory!Crash
<1>1. /\ OnDisk /\ state = "open" /\ state' = "crashed" /\ bytes' = disk
      /\ buf' = <<>> /\ mapped' = FALSE /\ UNCHANGED <<kind, disk, pos, got>>
  BY DEF Crash, Open
<1>2. bytes' \in Seq(Bytes)
  BY <1>1 DEF IInv, Shape
<1>3. Content' = bytes' /\ View' = -1
  BY <1>1, <1>2, Unmapped
<1>4. QED
  BY <1>1, <1>3 DEF Memory!Crash, Memory!NoView, Content, View

LEMMA StepIsOfMemory ==
  ASSUME IInv, [Next]_vars
  PROVE  [Memory!Next]_<<state, OnDisk, Content, bytes, disk, pos, View, got>>
<1> DEFINE Same == UNCHANGED <<state, OnDisk, Content, bytes, disk, pos, View, got>>
<1>1. ASSUME UNCHANGED <<state, kind, bytes, disk, pos, mapped, buf, got>> PROVE Same
  BY <1>1 DEF Content, View
<1>2. ASSUME NEW offset \in Starts, SeekStart(offset) PROVE Memory!Next
  BY <1>2, SeekStartIs, SeekMoves DEF SeekStart, Open, Memory!Next
<1>3. ASSUME NEW offset \in Offsets, SeekFrom(pos, offset) \/ SeekFrom(Len(bytes), offset)
      PROVE  Memory!Next
  <2>1. pos \in Nat /\ Len(bytes) \in Nat
    BY DEF IInv, Shape
  <2>2. pos' \in Nat
    BY <1>3, <2>1, SeekFromIs
  <2>3. QED
    BY <1>3, <2>2, SeekMoves DEF SeekFrom, Open, Memory!Next
<1>4. ASSUME NEW n \in 0 .. MaxLen, Read(n) PROVE Memory!Next
  BY <1>4, ReadReads DEF Memory!Next
<1>5. ASSUME NEW chunk \in Chunks, Write(chunk) PROVE Memory!Next
  BY <1>5, WriteWrites DEF Memory!Next
<1>6. ASSUME NEW n \in 0 .. MaxLen, Truncate(n) PROVE Memory!Next \/ Same
  <2>1. CASE bytes' = Resize(bytes, n)
    BY <1>6, <2>1, TruncateTruncates DEF Memory!Next
  <2>2. CASE bytes' = bytes
    BY <1>1, <1>6, <2>2 DEF Truncate
  <2>3. QED
    BY <1>6, <2>1, <2>2 DEF Truncate
<1>7. ASSUME NEW size \in 0 .. MaxLen, Map(size) PROVE Memory!Next
  BY <1>7, MapMaps DEF Memory!Next
<1>8. ASSUME NEW b \in Bytes, NEW i \in DOMAIN buf, Store(i, b) PROVE Memory!Next
  BY <1>8, StoreStores DEF Memory!Next
<1>9. CASE Unmap
  BY <1>9, UnmapUnmaps DEF Memory!Next
<1>10. CASE UnmapAborts
  BY <1>10, UnmapAbortAborts DEF Memory!Next
<1>11. CASE Sync
  <2>1. /\ state = "open" /\ disk' = IF OnDisk THEN bytes ELSE disk
        /\ UNCHANGED <<state, kind, bytes, pos, mapped, buf, got>>
    BY <1>11 DEF Sync, Open
  <2>2. Memory!Sync
    BY <2>1 DEF Memory!Sync
  <2>3. QED
    BY <2>2 DEF Memory!Next
<1>12. CASE Close
  <2>1. /\ state = "open" /\ ~mapped /\ state' = "closed"
        /\ UNCHANGED <<kind, bytes, disk, pos, mapped, buf, got>>
    BY <1>12 DEF Close, Open
  <2>2. Memory!Close
    BY <2>1 DEF Memory!Close, Memory!NoView
  <2>3. QED
    BY <2>2 DEF Memory!Next
<1>13. CASE Crash
  BY <1>13, CrashCrashes DEF Memory!Next
<1>14. ASSUME \/ SeekUnknown \/ ReadFails \/ WriteFails \/ Size \/ SyncFails \/ UNCHANGED vars
              \/ \E size \in 0 .. MaxLen : MapFails(size)
       PROVE  Same
  BY <1>1, <1>14 DEF SeekUnknown, ReadFails, WriteFails, Size, SyncFails, MapFails,
     SeekBack, vars
<1>15. QED
  BY <1>2, <1>3, <1>4, <1>5, <1>6, <1>7, <1>8, <1>9, <1>10, <1>11, <1>12, <1>13,
     <1>14 DEF Next

-----------------------------------------------------------------------------
LEMMA VFileInductive == Spec => [](IInv /\ Bounded)
<1>1. IInv /\ Bounded /\ [Next]_vars => (IInv /\ Bounded)'
  BY StepKeeps, BoundsKeep
<1>2. QED
  BY <1>1, Initially, BoundedInitially, PTL DEF Spec

(* Behind any seeks, from before the start too, and any failed calls, the  *)
(* cursor is one the back end can have, file, disk and mapping hold bytes, *)
(* and without a mapping there is no buffer.                               *)
THEOREM CursorInRange == Spec => []TypeOK
<1>1. IInv /\ Bounded => TypeOK
  BY DEF IInv, Bounded, TypeOK
<1>2. QED
  BY <1>1, VFileInductive, PTL

(* No mapping reaches past the end of the file it will be written over. *)
THEOREM VFileSafe == Spec => []MappingFits
<1>1. IInv => MappingFits
  BY DEF IInv
<1>2. QED
  BY <1>1, VFileInductive, PTL

(* For a C side that keeps its reads, writes and truncations beyond the    *)
(* one mapping it has, copying in and writing back is shared memory that   *)
(* leaves the cursor alone, and a sync makes durable all but the stores    *)
(* not yet unmapped.                                                       *)
THEOREM CopiesPassForMapping == Spec => ImplementsMapped
<1>1. IInv /\ [Next]_vars =>
        [Memory!Next]_<<state, OnDisk, Put(bytes, 0, buf), bytes, disk, pos,
                        IF mapped THEN Len(buf) ELSE -1, got>>
  BY StepIsOfMemory DEF Content, View
<1>2. QED
  BY <1>1, Initially, StepKeeps, MemoryInitially, PTL
     DEF Spec, ImplementsMapped, Memory!Spec, Memory!vars
=============================================================================
