------------------------------- MODULE ByteSeqs -------------------------------
(* Byte strings as the back ends of src/vfile.rs keep them: writing past    *)
(* the end and growing both fill with zeroes.                               *)
EXTENDS Naturals, Sequences

AtLeast(m, n) == IF m >= n THEN m ELSE n

Byte(s, i) == IF i <= Len(s) THEN s[i] ELSE 0

(* s with the bytes d written from offset at on. *)
Put(s, at, d) ==
  [i \in 1 .. (IF d = <<>> THEN Len(s) ELSE AtLeast(Len(s), at + Len(d))) |->
     IF i > at /\ i <= at + Len(d) THEN d[i - at] ELSE Byte(s, i)]

Prefix(s, n) == SubSeq(s, 1, n)

Resize(s, n) == [i \in 1 .. n |-> Byte(s, i)]
=============================================================================
