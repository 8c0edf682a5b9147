---------------------------- MODULE CodecProofs ----------------------------
(***************************************************************************)
(* Proofs about the stateless parts, for inputs of any length.             *)
(* HashStream: the digest that names an object is the standard one,        *)
(* however the payload came.  BlockContainer: a response is the bytes      *)
(* asked for, whatever the payload and its blocks.  SseCodec: the decoder  *)
(* emits what the event stream format defines, however the text is cut.    *)
(***************************************************************************)
EXTENDS BlockContainer, HashStream, SseCodec, SequenceTheorems, WellFoundedInduction, TLAPS

(* Induction and recursion over the numbers up to n. *)
LEMMA LeastNumber == ASSUME NEW S, S \subseteq Nat, S # {} PROVE \E n \in S : \A m \in S : n <= m
<1>1. PICK n \in S : \A m \in S : ~(<<m, n>> \in OpToRel(<, Nat))
  BY WFMin, NatLessThanWellFounded
<1>2. \A m \in S : ~(m < n)
  BY <1>1, Zenon DEF OpToRel
<1>3. QED
  BY <1>2

(* What holds of 0 and is handed on to the next number holds up to n. *)
LEMMA UpTo ==
    ASSUME NEW n \in Nat, NEW P, 0 \in P, \A k \in 0..(n - 1) : k \in P => k + 1 \in P
    PROVE  0..n \subseteq P
<1> DEFINE Missing == (0..n) \ P
<1>1. SUFFICES ASSUME Missing # {} PROVE FALSE
  OBVIOUS
<1>2. PICK m \in Missing : \A k \in Missing : m <= k
  <2>1. Missing \subseteq Nat
    OBVIOUS
  <2>2. QED
    BY <1>1, <2>1, LeastNumber
<1>3. m # 0
  OBVIOUS
<1>4. m - 1 \in 0..(n - 1) /\ m - 1 \notin Missing
  BY <1>2, <1>3
<1>5. QED
  BY <1>4

\* f goes from a start through a step for each number.
Goes(S, start, n, step, f) ==
    f \in [0..n -> S] /\ f[0] = start /\ \A k \in 1..n : f[k] = step[k][f[k - 1]]

(* There is such a function. *)
LEMMA Recursion ==
    ASSUME NEW S, NEW start \in S, NEW n \in Nat, NEW step \in [1..n -> [S -> S]]
    PROVE  \E f : Goes(S, start, n, step, f)
<1> DEFINE Upto(f, m) == f \in [0..m -> S] /\ f[0] = start /\ \A k \in 1..m : f[k] = step[k][f[k - 1]]
           P == {m \in 0..n : \E f : Upto(f, m)}
<1>1. 0 \in P
  <2>1. Upto([k \in 0..0 |-> start], 0) /\ 0 \in 0..n
    OBVIOUS
  <2> HIDE DEF Upto
  <2>2. QED
    BY <2>1
<1>2. ASSUME NEW m \in 0..(n - 1), m \in P PROVE m + 1 \in P
  <2>1. PICK f : Upto(f, m)
    BY <1>2
  <2> DEFINE g == [k \in 0..(m + 1) |-> IF k = m + 1 THEN step[m + 1][f[m]] ELSE f[k]]
  <2>2. step[m + 1][f[m]] \in S
    BY <2>1
  <2>3. g \in [0..(m + 1) -> S]
    BY <2>1, <2>2
  <2>4. g[0] = start
    BY <2>1
  <2>5. ASSUME NEW k \in 1..(m + 1) PROVE g[k] = step[k][g[k - 1]]
    <3>1. k \in 0..(m + 1) /\ k - 1 \in 0..m /\ k - 1 \in 0..(m + 1) /\ k - 1 # m + 1
      OBVIOUS
    <3>2. g[k - 1] = f[k - 1]
      BY <3>1
    <3>3. CASE k = m + 1
      BY <3>1, <3>2, <3>3
    <3>4. CASE k # m + 1
      <4>1. k \in 1..m /\ g[k] = f[k]
        BY <3>1, <3>4
      <4> HIDE DEF g
      <4>2. QED
        BY <2>1, <3>2, <4>1
    <3>5. QED
      BY <3>3, <3>4
  <2> HIDE DEF g
  <2>6. Upto(g, m + 1)
    BY <2>3, <2>4, <2>5
  <2>7. QED
    BY <2>6
<1> HIDE DEF P
<1>3. 0..n \subseteq P
  BY <1>1, <1>2, UpTo
<1>4. QED
  BY <1>3 DEF P, Goes
-----------------------------------------------------------------------------
\* The function FlattenSeq goes through.
Joined(seqs, f) == f = [i \in 1..Len(seqs) |-> IF i = 1 THEN seqs[i] ELSE f[i - 1] \o seqs[i]]

\* The sequence put together so far, after each of the parts.
Stages(seqs, f) ==
    /\ f[0] = <<>>
    /\ \A i \in 1..Len(seqs) : f[i] = f[i - 1] \o seqs[i]
    /\ FlattenSeq(seqs) = f[Len(seqs)]

(* FlattenSeq puts the parts together one after the other. *)
LEMMA Flattening ==
    ASSUME NEW S, NEW seqs \in Seq(Seq(S))
    PROVE  \E f \in [0..Len(seqs) -> Seq(S)] : Stages(seqs, f)
<1> DEFINE n == Len(seqs)
           step == [k \in 1..n |-> [s \in Seq(S) |-> s \o seqs[k]]]
           g == CHOOSE h : Joined(seqs, h)
<1>1. n \in Nat /\ \A k \in 1..n : seqs[k] \in Seq(S)
  OBVIOUS
<1>2. \A k \in 1..n : \A s \in Seq(S) : s \o seqs[k] \in Seq(S)
  <2> TAKE k \in 1..n
  <2> TAKE s \in Seq(S)
  <2>1. seqs[k] \in Seq(S)
    BY <1>1
  <2>2. QED
    BY <2>1, ConcatProperties
<1>3. step \in [1..n -> [Seq(S) -> Seq(S)]]
  BY <1>2
<1> HIDE DEF n
<1>4. PICK f \in [0..n -> Seq(S)] : f[0] = <<>> /\ \A k \in 1..n : f[k] = step[k][f[k - 1]]
  <2>1. <<>> \in Seq(S) /\ n \in Nat
    BY <1>1
  <2> DEFINE T == Seq(S)
             b == <<>>
  <2> HIDE DEF step, T, b
  <2>2. b \in T /\ step \in [1..n -> [T -> T]]
    BY <1>3, <2>1 DEF T, b
  <2>3. \E f : Goes(T, b, n, step, f)
    BY <2>1, <2>2, Recursion
  <2>4. QED
    BY <2>3, Zenon DEF T, b, Goes
<1>5. \A k \in 1..n : f[k] = f[k - 1] \o seqs[k]
  <2> TAKE k \in 1..n
  <2>1. k - 1 \in 0..n
    BY <1>1
  <2>2. f[k - 1] \in Seq(S)
    BY <2>1
  <2>3. QED
    BY <1>4, <2>2
<1> HIDE DEF step
<1>6. CASE n = 0
  <2>1. seqs = <<>>
    BY <1>6 DEF n
  <2>2. FlattenSeq(seqs) = <<>>
    BY <2>1 DEF FlattenSeq
  <2>3. QED
    BY <1>4, <1>5, <1>6, <2>2 DEF Stages, n
<1>7. CASE n # 0
  <2>1. FlattenSeq(seqs) = g[n]
    BY <1>7 DEF FlattenSeq, Joined, n
  <2> DEFINE c == [k \in 1..n |-> f[k]]
  <2>2. Joined(seqs, c)
    <3>1. ASSUME NEW i \in 1..n PROVE c[i] = IF i = 1 THEN seqs[i] ELSE c[i - 1] \o seqs[i]
      <4>1. CASE i = 1
        <5>0. 1 \in 1..n /\ 1 - 1 = 0
          BY <1>1, <4>1
        <5>1. f[1] = f[0] \o seqs[1] /\ seqs[1] \in Seq(S)
          BY <1>1, <1>5, <5>0, Zenon
        <5>2. f[1] = seqs[1]
          BY <1>4, <5>1
        <5>3. QED
          BY <4>1, <5>2
      <4>2. CASE i # 1
        <5>1. i - 1 \in 1..n
          BY <1>1, <4>2
        <5>2. QED
          BY <1>5, <4>2, <5>1
      <4>3. QED
        BY <4>1, <4>2
    <3> DEFINE r == [i \in 1..n |-> IF i = 1 THEN seqs[i] ELSE c[i - 1] \o seqs[i]]
    <3>2. c = r
      <4>1. \A i \in 1..n : c[i] = r[i]
        <5> TAKE i \in 1..n
        <5>1. r[i] = IF i = 1 THEN seqs[i] ELSE c[i - 1] \o seqs[i]
          BY Zenon
        <5> HIDE DEF r, c
        <5>2. QED
          BY <3>1, <5>1
      <4>2. c = [i \in 1..n |-> c[i]] /\ r = [i \in 1..n |-> r[i]]
        OBVIOUS
      <4> HIDE DEF c, r
      <4>3. QED
        BY <4>1, <4>2, Zenon
    <3>3. QED
      BY <3>2, Zenon DEF Joined, n
  <2>3. Joined(seqs, g)
    BY <2>2
  <2> HIDE DEF g, c
  <2>4. \A i \in 1..n : g[i] = IF i = 1 THEN seqs[i] ELSE g[i - 1] \o seqs[i]
    BY <2>3, Zenon DEF Joined, n
  <2> DEFINE P == {i \in 0..n : i = 0 \/ g[i] = f[i]}
  <2>5. ASSUME NEW i \in 0..(n - 1), i \in P PROVE i + 1 \in P
    <3>1. i + 1 \in 1..n /\ g[i + 1] = IF i + 1 = 1 THEN seqs[i + 1] ELSE g[i + 1 - 1] \o seqs[i + 1]
      BY <1>1, <2>4
    <3>2. i + 1 - 1 = i
      OBVIOUS
    <3>3. f[i + 1] = f[i] \o seqs[i + 1] /\ seqs[i + 1] \in Seq(S)
      <4> DEFINE j == i + 1
      <4>1. j \in 1..n /\ j - 1 = i
        BY <3>1
      <4> HIDE DEF j
      <4>2. f[j] = f[i] \o seqs[j] /\ seqs[j] \in Seq(S)
        BY <1>1, <1>5, <4>1
      <4>3. QED
        BY <4>2 DEF j
    <3>4. CASE i = 0
      <4>0. i + 1 = 1
        BY <3>4
      <4>1. f[1] = seqs[1]
        <5>1. f[1] = <<>> \o seqs[1] /\ seqs[1] \in Seq(S)
          BY <1>4, <3>3, <3>4, <4>0
        <5>2. QED
          BY <5>1, ConcatEmptySeq
      <4>2. g[1] = seqs[1]
        BY <3>1, <4>0
      <4>3. QED
        BY <3>1, <4>0, <4>1, <4>2
    <3>5. CASE i # 0
      <4>1. g[i] = f[i]
        BY <2>5, <3>5
      <4>2. i + 1 # 1
        BY <3>5
      <4>3. g[i + 1] = g[i] \o seqs[i + 1]
        BY <3>1, <3>2, <4>2
      <4>4. g[i + 1] = f[i + 1]
        BY <3>3, <4>1, <4>3
      <4>5. QED
        BY <1>1, <3>1, <4>4
    <3>6. QED
      BY <3>4, <3>5
  <2>6. 0 \in P
    BY <1>1
  <2> HIDE DEF P
  <2>7. 0..n \subseteq P
    BY <1>1, <2>5, <2>6, UpTo
  <2>8. g[n] = f[n]
    BY <1>1, <1>7, <2>7 DEF P
  <2>9. QED
    BY <1>4, <1>5, <2>1, <2>8 DEF Stages, n
<1>8. QED
  BY <1>6, <1>7
\* t begins with s.
Begins(t, s) == Len(s) <= Len(t) /\ \A k \in 1..Len(s) : t[k] = s[k]

(* What has been put together stays in its place, ... *)
LEMMA PrefixesStay ==
    ASSUME NEW S, NEW seqs \in Seq(Seq(S)), NEW f \in [0..Len(seqs) -> Seq(S)], Stages(seqs, f),
           NEW j \in 0..Len(seqs)
    PROVE  \A m \in j..Len(seqs) : Begins(f[m], f[j])
<1> DEFINE n == Len(seqs)
           Stays(m) == Len(f[j]) <= Len(f[m]) /\ \A k \in 1..Len(f[j]) : f[m][k] = f[j][k]
           P == {m \in 0..n : m >= j => Stays(m)}
<1>1. n \in Nat /\ j \in 0..n /\ f[j] \in Seq(S) /\ Len(f[j]) \in Nat
  OBVIOUS
<1>2. Stays(j)
  BY <1>1
<1>3. ASSUME NEW m \in 0..(n - 1), m \in P PROVE m + 1 \in P
  <2>1. CASE m + 1 < j
    BY <1>1, <2>1
  <2>2. CASE m + 1 = j
    BY <1>1, <1>2, <2>2
  <2>3. CASE m >= j
    <3>1. Stays(m)
      BY <1>3, <2>3
    <3> DEFINE i == m + 1
    <3>2. i \in 1..n /\ i - 1 = m /\ m \in 0..n /\ f[m] \in Seq(S) /\ seqs[i] \in Seq(S)
      <4>1. i \in 1..n /\ i - 1 = m /\ m \in 0..n
        BY <1>1
      <4> HIDE DEF i
      <4>2. f[m] \in Seq(S)
        BY <4>1
      <4>3. seqs[i] \in Seq(S)
        BY <4>1
      <4>4. QED
        BY <4>1, <4>2, <4>3
    <3> HIDE DEF i
    <3>3. f[i] = f[m] \o seqs[i]
      BY <3>2 DEF Stages
    <3> DEFINE a == f[m]
               b == seqs[i]
    <3>4. a \in Seq(S) /\ b \in Seq(S)
      BY <3>2
    <3> HIDE DEF a, b
    <3>5. Len(a \o b) = Len(a) + Len(b) /\ Len(a) \in Nat /\ Len(b) \in Nat /\ \A k \in 1..Len(a) : (a \o b)[k] = a[k]
      <4>1. Len(a \o b) = Len(a) + Len(b)
            /\ \A k \in 1..(Len(a) + Len(b)) : (a \o b)[k] = IF k <= Len(a) THEN a[k] ELSE b[k - Len(a)]
        BY <3>4, ConcatProperties, Zenon
      <4>2. Len(a) \in Nat /\ Len(b) \in Nat
        BY <3>4
      <4>3. QED
        BY <4>1, <4>2
    <3>6. f[i] = a \o b
      BY <3>3 DEF a, b
    <3>7. Len(f[j]) <= Len(a) /\ \A k \in 1..Len(f[j]) : a[k] = f[j][k]
      BY <3>1 DEF a
    <3>8. Stays(i)
      BY <1>1, <3>5, <3>6, <3>7
    <3> HIDE DEF Stays
    <3>9. QED
      BY <1>1, <3>2, <3>8 DEF i
  <2>4. QED
    BY <1>1, <2>1, <2>2, <2>3
<1>4. 0 \in P
  <2>1. j = 0 \/ ~(0 >= j)
    BY <1>1
  <2> HIDE DEF Stays
  <2>2. QED
    BY <1>1, <1>2, <2>1
<1> HIDE DEF P
<1>5. 0..n \subseteq P
  BY <1>1, <1>3, <1>4, UpTo
<1> HIDE DEF Stays
<1>6. \A m \in j..n : Stays(m)
  BY <1>1, <1>5 DEF P
<1>7. QED
  BY <1>6 DEF Stays, Begins

(* ... so that each part can be cut out of the whole. *)
LEMMA PartIsThere ==
    ASSUME NEW S, NEW seqs \in Seq(Seq(S)), NEW f \in [0..Len(seqs) -> Seq(S)], Stages(seqs, f),
           NEW t \in Seq(S), NEW b \in 1..Len(seqs)
    PROVE  SubSeq(f[Len(seqs)] \o t, Len(f[b - 1]) + 1, Len(f[b])) = seqs[b]
<1> DEFINE n == Len(seqs)
           whole == f[n]
           before == f[b - 1]
           upto == f[b]
           part == seqs[b]
           cut == SubSeq(whole \o t, Len(before) + 1, Len(upto))
<1>1. n \in Nat /\ b \in 0..n /\ b - 1 \in 0..n /\ n \in b..n
  OBVIOUS
<1>2. whole \in Seq(S) /\ before \in Seq(S) /\ upto \in Seq(S) /\ part \in Seq(S)
  <2>1. whole \in Seq(S) /\ upto \in Seq(S)
    <3>1. n \in 0..n
      BY <1>1
    <3> HIDE DEF n
    <3>2. f \in [0..n -> Seq(S)]
      BY DEF n
    <3>3. QED
      BY <1>1, <3>1, <3>2
  <2>2. before \in Seq(S)
    BY <1>1
  <2>3. part \in Seq(S)
    OBVIOUS
  <2>4. QED
    BY <2>1, <2>2, <2>3
<1>3. upto = before \o part
  BY DEF Stages
<1>4. Len(upto) <= Len(whole) /\ \A k \in 1..Len(upto) : whole[k] = upto[k]
  <2>1. \A m \in b..n : Begins(f[m], f[b])
    BY <1>1, PrefixesStay
  <2>2. Begins(f[n], f[b])
    BY <1>1, <2>1
  <2>3. QED
    BY <2>2 DEF Begins
<1> HIDE DEF n, whole, before, upto, part
<1>5. Len(upto) = Len(before) + Len(part) /\ Len(before) \in Nat /\ Len(part) \in Nat /\ Len(whole) \in Nat
      /\ \A k \in 1..Len(part) : upto[Len(before) + k] = part[k]
  <2>1. Len(before \o part) = Len(before) + Len(part)
        /\ \A k \in 1..(Len(before) + Len(part)) : (before \o part)[k] = IF k <= Len(before) THEN before[k] ELSE part[k - Len(before)]
    BY <1>2, ConcatProperties, Zenon
  <2>2. Len(before) \in Nat /\ Len(part) \in Nat /\ Len(whole) \in Nat
    BY <1>2
  <2>3. QED
    BY <1>3, <2>1, <2>2
<1>6. \A k \in 1..Len(whole) : (whole \o t)[k] = whole[k]
  <2>1. \A k \in 1..(Len(whole) + Len(t)) : (whole \o t)[k] = IF k <= Len(whole) THEN whole[k] ELSE t[k - Len(whole)]
    BY <1>2, ConcatProperties, Zenon
  <2>2. Len(t) \in Nat
    OBVIOUS
  <2>3. QED
    BY <1>5, <2>1, <2>2
<1>7. whole \o t \in Seq(S) /\ Len(whole \o t) >= Len(whole)
  <2>1. whole \o t \in Seq(S) /\ Len(whole \o t) = Len(whole) + Len(t) /\ Len(t) \in Nat
    BY <1>2, ConcatProperties
  <2>2. QED
    BY <1>5, <2>1
<1> DEFINE w == whole \o t
<1> HIDE DEF w
<1>8. cut = SubSeq(w, Len(before) + 1, Len(upto))
  BY DEF w
<1>9. cut \in Seq(S) /\ Len(cut) = Len(part) /\ \A k \in 1..Len(part) : cut[k] = w[Len(before) + k]
  <2>1. w \in Seq(S) /\ Len(w) >= Len(whole)
    BY <1>7 DEF w
  <2> HIDE DEF cut
  <2>2. QED
    BY <1>4, <1>5, <1>8, <2>1
<1>10. \A k \in 1..Len(part) : w[Len(before) + k] = part[k]
  <2> TAKE k \in 1..Len(part)
  <2> DEFINE i == Len(before) + k
  <2>1. i \in 1..Len(whole) /\ i \in 1..Len(upto)
    BY <1>4, <1>5
  <2> HIDE DEF i
  <2>2. w[i] = whole[i] /\ whole[i] = upto[i]
    BY <1>4, <1>6, <2>1 DEF w
  <2>3. QED
    BY <1>5, <2>2 DEF i
<1> HIDE DEF cut
<1>11. cut = part
  BY <1>2, <1>9, <1>10, SeqEqual
<1>12. QED
  BY <1>11 DEF cut, whole, before, upto, part, n
Alike(n, f, g) == \A k \in 0..n : f[k] = g[k]

(* Two recursive functions that start alike and go on alike are alike. *)
LEMMA OneRecursion ==
    ASSUME NEW n \in Nat, NEW f, NEW g, f[0] = g[0], \A k \in 1..n : f[k - 1] = g[k - 1] => f[k] = g[k]
    PROVE  Alike(n, f, g)
<1> DEFINE P == {k \in 0..n : f[k] = g[k]}
<1>1. 0 \in P
  OBVIOUS
<1>2. ASSUME NEW k \in 0..(n - 1), k \in P PROVE k + 1 \in P
  <2> DEFINE j == k + 1
  <2>1. j \in 1..n /\ j \in 0..n /\ j - 1 = k
    OBVIOUS
  <2> HIDE DEF j
  <2>2. f[j] = g[j]
    BY <1>2, <2>1
  <2>3. QED
    BY <2>1, <2>2 DEF j
<1> HIDE DEF P
<1>3. 0..n \subseteq P
  BY <1>1, <1>2, UpTo
<1>4. QED
  BY <1>3 DEF P, Alike

(* What holds of the empty sequence, and of a sequence with one more       *)
(* element when it holds without it, holds of every sequence.              *)
LEMMA EverySeq ==
    ASSUME NEW A, NEW P, <<>> \in P, \A s \in Seq(A) : \A c \in A : s \in P => Append(s, c) \in P
    PROVE  \A s \in Seq(A) : s \in P
<1> TAKE s \in Seq(A)
<1> DEFINE n == Len(s)
           Q == {k \in 0..n : SubSeq(s, 1, k) \in P}
<1>1. n \in Nat
  OBVIOUS
<1>2. 0 \in Q
  <2>1. SubSeq(s, 1, 0) = <<>>
    OBVIOUS
  <2>2. 0 \in 0..n
    BY <1>1
  <2> HIDE DEF n
  <2>3. QED
    BY <2>1, <2>2
<1>3. ASSUME NEW k \in 0..(n - 1), k \in Q PROVE k + 1 \in Q
  <2> DEFINE t == SubSeq(s, 1, k)
             u == SubSeq(s, 1, k + 1)
  <2>1. t \in Seq(A) /\ u \in Seq(A) /\ Len(t) = k /\ Len(u) = k + 1
    BY <1>1
  <2>2. s[k + 1] \in A /\ k + 1 \in 0..n
    BY <1>1
  <2>3. u = Append(t, s[k + 1])
    <3>1. Append(t, s[k + 1]) \in Seq(A) /\ Len(Append(t, s[k + 1])) = Len(u)
      BY <2>1, <2>2
    <3>2. ASSUME NEW i \in 1..Len(u) PROVE Append(t, s[k + 1])[i] = u[i]
      BY <2>1, <2>2, <1>1
    <3> HIDE DEF t, u
    <3>3. QED
      BY <2>1, <3>1, <3>2, SeqEqual
  <2>4. u \in P
    BY <1>3, <2>1, <2>2, <2>3
  <2>5. QED
    BY <2>2, <2>4
<1> HIDE DEF Q
<1>4. 0..n \subseteq Q
  BY <1>1, <1>2, <1>3, UpTo
<1>5. SubSeq(s, 1, n) \in P
  BY <1>1, <1>4 DEF Q
<1>6. QED
  BY <1>5, SubSeqFull

(* A fold: x is what start becomes as s is taken in, one element at a time. *)
FoldOf(T, start, step, s, x) ==
    \E f \in [0..Len(s) -> T] :
        f[0] = start /\ x = f[Len(s)] /\ \A k \in 1..Len(s) : f[k] = step[s[k]][f[k - 1]]

LEMMA FoldStart ==
    ASSUME NEW T, NEW start, NEW step, NEW x, FoldOf(T, start, step, <<>>, x)
    PROVE  x = start
<1>1. Len(<<>>) = 0
  OBVIOUS
<1>2. QED
  BY <1>1 DEF FoldOf

LEMMA FoldStep ==
    ASSUME NEW T, NEW start, NEW step, NEW A, NEW s \in Seq(A), NEW c \in A,
           NEW x, NEW y, FoldOf(T, start, step, s, x), FoldOf(T, start, step, Append(s, c), y)
    PROVE  y = step[c][x]
<1> DEFINE n == Len(s)
           t == Append(s, c)
<1>1. n \in Nat /\ Len(t) = n + 1 /\ t[n + 1] = c /\ \A k \in 1..n : t[k] = s[k]
  OBVIOUS
<1>2. PICK f : f[0] = start /\ x = f[n] /\ \A k \in 1..n : f[k] = step[s[k]][f[k - 1]]
  BY DEF FoldOf
<1> HIDE DEF n, t
<1>3. PICK g : g[0] = start /\ y = g[n + 1] /\ \A k \in 1..(n + 1) : g[k] = step[t[k]][g[k - 1]]
  <2>1. FoldOf(T, start, step, t, y)
    BY DEF t
  <2>2. PICK g : g[0] = start /\ y = g[Len(t)] /\ \A k \in 1..Len(t) : g[k] = step[t[k]][g[k - 1]]
    BY <2>1, Zenon DEF FoldOf
  <2>3. Len(t) = n + 1
    BY <1>1
  <2>4. QED
    BY <2>2, <2>3, Zenon
<1>4. \A k \in 1..n : f[k - 1] = g[k - 1] => f[k] = g[k]
  <2> TAKE k \in 1..n
  <2>1. k \in 1..(n + 1)
    BY <1>1
  <2>2. QED
    BY <1>1, <1>2, <1>3, <2>1
<1>5. f[0] = g[0]
  BY <1>2, <1>3
<1>6. f[n] = g[n]
  <2>1. Alike(n, f, g)
    BY <1>1, <1>4, <1>5, OneRecursion
  <2>2. QED
    BY <1>1, <2>1 DEF Alike
<1> DEFINE m == n + 1
<1>7. m \in 1..(n + 1) /\ m - 1 = n /\ t[m] = c
  BY <1>1
<1>8. y = g[m]
  BY <1>3
<1> HIDE DEF m
<1>9. QED
  BY <1>2, <1>3, <1>6, <1>7, <1>8

LEMMA FoldExists ==
    ASSUME NEW T, NEW start \in T, NEW A, NEW step \in [A -> [T -> T]], NEW s \in Seq(A)
    PROVE  \E f : Goes(T, start, Len(s), [k \in 1..Len(s) |-> step[s[k]]], f)
<1> DEFINE n == Len(s)
           steps == [k \in 1..n |-> step[s[k]]]
<1>1. n \in Nat /\ \A k \in 1..n : s[k] \in A
  OBVIOUS
<1>2. steps \in [1..n -> [T -> T]]
  BY <1>1
<1> HIDE DEF steps, n
<1>3. \E f : Goes(T, start, n, steps, f)
  BY <1>1, <1>2, Recursion
<1>4. QED
  BY <1>3 DEF steps, n

(* What FlattenSeq gives for the empty sequence and for one part more. *)
LEMMA FlattenNone == FlattenSeq(<<>>) = <<>>
BY DEF FlattenSeq

LEMMA FlattenMore ==
    ASSUME NEW S, NEW seqs \in Seq(Seq(S)), NEW part \in Seq(S)
    PROVE  /\ FlattenSeq(seqs) \in Seq(S)
           /\ FlattenSeq(Append(seqs, part)) = FlattenSeq(seqs) \o part
<1> DEFINE n == Len(seqs)
           more == Append(seqs, part)
<1>1. n \in Nat /\ more \in Seq(Seq(S)) /\ Len(more) = n + 1 /\ more[n + 1] = part
      /\ \A k \in 1..n : more[k] = seqs[k]
  <2> DEFINE T == Seq(S)
  <2>1. seqs \in Seq(T) /\ part \in T
    OBVIOUS
  <2> HIDE DEF T
  <2>2. n \in Nat /\ more \in Seq(T) /\ Len(more) = n + 1 /\ more[n + 1] = part
        /\ \A k \in 1..n : more[k] = seqs[k]
    BY <2>1
  <2>3. QED
    BY <2>2 DEF T
<1> HIDE DEF more
<1>2. PICK f \in [0..n -> Seq(S)] : Stages(seqs, f)
  BY Flattening
<1>3. PICK g \in [0..Len(more) -> Seq(S)] : Stages(more, g)
  BY <1>1, Flattening
<1>4. f[0] = <<>> /\ FlattenSeq(seqs) = f[n] /\ \A k \in 1..n : f[k] = f[k - 1] \o seqs[k]
  BY <1>2 DEF Stages
<1> HIDE DEF n
<1>5. g[0] = <<>> /\ FlattenSeq(more) = g[n + 1] /\ \A k \in 1..(n + 1) : g[k] = g[k - 1] \o more[k]
  BY <1>1, <1>3 DEF Stages
<1>6. \A k \in 1..n : f[k - 1] = g[k - 1] => f[k] = g[k]
  <2> TAKE k \in 1..n
  <2>1. k \in 1..(n + 1)
    BY <1>1
  <2>2. QED
    BY <1>1, <1>4, <1>5, <2>1
<1>7. n \in Nat /\ f[0] = g[0]
  BY <1>1, <1>4, <1>5
<1>8. f[n] = g[n] /\ f[n] \in Seq(S)
  <2>1. Alike(n, f, g)
    BY <1>6, <1>7, OneRecursion
  <2>2. QED
    BY <1>2, <1>7, <2>1 DEF Alike
<1> DEFINE m == n + 1
<1>9. m \in 1..(n + 1) /\ m - 1 = n
  BY <1>7
<1>13. more[m] = part
  BY <1>1
<1>10. FlattenSeq(more) = g[m]
  BY <1>5
<1> HIDE DEF m
<1>11. g[m] = g[n] \o part
  BY <1>5, <1>9, <1>13
<1>12. QED
  BY <1>4, <1>8, <1>10, <1>11 DEF more
-----------------------------------------------------------------------------
(* Division: a multiple of b within less than b of zero is zero, ... *)
LEMMA OnlyZeroIsShort == ASSUME NEW b \in Nat \ {0}, NEW d \in Int, b * d < b, -b < b * d PROVE d = 0
<1>1. ~(d >= 1)
  OBVIOUS
<1>2. ~(d <= -1)
  OBVIOUS
<1>3. QED
  BY <1>1, <1>2

(* ... a number is its quotient times b and its remainder, ... *)
LEMMA Division ==
    ASSUME NEW b \in Nat \ {0}, NEW a \in Int
    PROVE  /\ a \div b \in Int
           /\ a % b \in 0..(b - 1)
           /\ a = b * (a \div b) + (a % b)
OBVIOUS

(* ... in one way only, ... *)
LEMMA OneRemainder ==
    ASSUME NEW b \in Nat \ {0}, NEW a \in Nat, NEW q \in Int, NEW r \in 0..(b - 1), a = b * q + r
    PROVE  a % b = r
<1> DEFINE p == a \div b
<1>1. p \in Int /\ a % b \in 0..(b - 1) /\ a = b * p + (a % b)
  BY Division
<1> HIDE DEF p
<1>2. b * (q - p) = b * q - b * p
  BY <1>1
<1>3. b * (q - p) = (a % b) - r
  BY <1>1, <1>2
<1>4. b * (q - p) < b /\ -b < b * (q - p)
  BY <1>1, <1>3
<1>5. q - p = 0
  BY <1>1, <1>4, OnlyZeroIsShort
<1>6. QED
  BY <1>1, <1>5

(* ... and whole blocks do not change a remainder. *)
LEMMA WholeBlocksDropOut ==
    ASSUME NEW b \in Nat \ {0}, NEW a \in Nat, NEW x \in Nat, a % b = 0
    PROVE  (a + x) % b = x % b
<1> DEFINE p == a \div b
           q == x \div b
           r == x % b
<1>1. p \in Int /\ a = b * p
  BY Division
<1>2. q \in Int /\ r \in 0..(b - 1) /\ x = b * q + r
  BY Division
<1> HIDE DEF p, q, r
<1>3. a + x = b * (p + q) + r
  <2>1. b * (p + q) = b * p + b * q
    BY <1>1, <1>2
  <2>2. a + x = b * p + (b * q + r)
    BY <1>1, <1>2
  <2>3. b * p \in Int /\ b * q \in Int
    BY <1>1, <1>2
  <2>4. QED
    BY <2>1, <2>2, <2>3, <1>2
<1>4. p + q \in Int /\ a + x \in Nat
  BY <1>1, <1>2
<1>5. (a + x) % b = r
  BY <1>2, <1>3, <1>4, OneRemainder
<1>6. QED
  BY <1>5 DEF r
-----------------------------------------------------------------------------
\* Whole blocks went in, what waits is less than one, and together they are
\* the payload so far.
Streamed(h) ==
    /\ h \in [absorbed : Seq(Int), buffer : Seq(Int), length : Nat]
    /\ h.absorbed \o h.buffer = Payload(0, h.length)
    /\ Len(h.absorbed) % BLOCK = 0
    /\ Len(h.buffer) < BLOCK

(***************************************************************************)
(* DigestIsStandard alone says nothing of a hash under way.  It follows    *)
(* from what every hash keeps, the one at work and the saved one: a        *)
(* snapshot may leave out the buffer only because the buffer is empty.     *)
(***************************************************************************)
HashInv ==
    /\ path \in {"native", "streaming", "done"}
    /\ held = Payload(0, Len(held))
    /\ Len(held) \in Nat
    /\ path # "done" => Streamed(hash)
    /\ Streamed(saved)
    /\ saved.buffer = <<>>
    /\ DigestIsStandard

(* Chunks are put together in any grouping. *)
LEMMA Regroup ==
    ASSUME NEW s \in Seq(Int), NEW t \in Seq(Int), NEW u \in Seq(Int)
    PROVE  (s \o t) \o u = s \o (t \o u)
BY ConcatAssociative

(* The bytes from one position to another ... *)
LEMMA PayloadIsSeq ==
    ASSUME NEW from \in Nat, NEW to \in Nat, from <= to
    PROVE  /\ Payload(from, to) \in Seq(Int)
           /\ Len(Payload(from, to)) = to - from
           /\ \A k \in 1..(to - from) : Payload(from, to)[k] = from + k - 1
<1>1. to - from \in Nat
  OBVIOUS
<1>2. \A k \in 1..(to - from) : from + k - 1 \in Int
  OBVIOUS
<1>3. QED
  BY <1>1, <1>2, IsASeq DEF Payload

(* ... from the start ... *)
LEMMA WholePayload ==
    ASSUME NEW to \in Nat
    PROVE  Payload(0, to) \in Seq(Int) /\ Len(Payload(0, to)) = to
<1>1. 0 \in Nat /\ 0 <= to /\ to - 0 = to
  OBVIOUS
<1>2. QED
  BY <1>1, PayloadIsSeq

(* ... and one stretch behind the other. *)
LEMMA PayloadJoins ==
    ASSUME NEW m \in Nat, NEW to \in Nat, m <= to
    PROVE  Payload(0, m) \o Payload(m, to) = Payload(0, to)
<1> DEFINE s == Payload(0, m)
           t == Payload(m, to)
           u == Payload(0, to)
<1>1. s \in Seq(Int) /\ Len(s) = m /\ \A k \in 1..m : s[k] = k - 1
  BY PayloadIsSeq
<1>2. t \in Seq(Int) /\ Len(t) = to - m /\ \A k \in 1..(to - m) : t[k] = m + k - 1
  BY PayloadIsSeq
<1>3. u \in Seq(Int) /\ Len(u) = to /\ \A k \in 1..to : u[k] = k - 1
  BY PayloadIsSeq
<1> HIDE DEF s, t, u
<1>4. s \o t \in Seq(Int) /\ Len(s \o t) = to
  <2>1. s \o t \in Seq(Int) /\ Len(s \o t) = Len(s) + Len(t)
    BY <1>1, <1>2, ConcatProperties, Zenon
  <2>2. Len(s) = m /\ Len(t) = to - m
    BY <1>1, <1>2
  <2>3. QED
    BY <2>1, <2>2
<1>5. ASSUME NEW k \in 1..to PROVE (s \o t)[k] = k - 1
  <2>1. (s \o t)[k] = IF k <= m THEN s[k] ELSE t[k - m]
    BY <1>1, <1>2, ConcatProperties
  <2>2. QED
    BY <1>1, <1>2, <2>1
<1>6. s \o t = u
  BY <1>3, <1>4, <1>5, SeqEqual
<1>7. QED
  BY <1>6 DEF s, t, u

(* sha256Stream.update keeps what a hash is, for a chunk of any length. *)
LEMMA AbsorbStreams ==
    ASSUME NEW h, Streamed(h), NEW to \in Nat, h.length <= to
    PROVE  Streamed(Absorb(h, Payload(h.length, to))) /\ Absorb(h, Payload(h.length, to)).length = to
<1> DEFINE bytes == Payload(h.length, to)
           filled == h.buffer \o bytes
           n == Len(filled)
           whole == n - (n % BLOCK)
           first == SubSeq(filled, 1, whole)
           rest == SubSeq(filled, whole + 1, n)
<1>0. BLOCK \in Nat \ {0}
  BY HashAssumption
<1>1. h.absorbed \in Seq(Int) /\ h.buffer \in Seq(Int) /\ h.length \in Nat
      /\ Len(h.absorbed) \in Nat /\ Len(h.absorbed) % BLOCK = 0
      /\ h.absorbed \o h.buffer = Payload(0, h.length)
  BY DEF Streamed
<1>2. bytes \in Seq(Int) /\ Len(bytes) = to - h.length
  BY <1>1, PayloadIsSeq
<1>3. Payload(0, h.length) \o bytes = Payload(0, to)
  BY <1>1, PayloadJoins
<1> HIDE DEF bytes
<1>4. filled \in Seq(Int) /\ n \in Nat
  BY <1>1, <1>2
<1>5. h.absorbed \o filled = Payload(0, to)
  <2>1. (h.absorbed \o h.buffer) \o bytes = h.absorbed \o filled
    BY <1>1, <1>2, Regroup, Zenon
  <2> HIDE DEF filled
  <2>2. QED
    BY <1>1, <1>3, <2>1
<1> HIDE DEF filled
<1>6. n \div BLOCK \in Int /\ n % BLOCK \in 0..(BLOCK - 1) /\ n = BLOCK * (n \div BLOCK) + (n % BLOCK)
  BY <1>0, <1>4, Division
<1>7. n % BLOCK <= n
  BY <1>0, <1>4
<1>8. whole \in Nat /\ whole <= n /\ whole = BLOCK * (n \div BLOCK) + 0
  BY <1>0, <1>4, <1>6, <1>7
<1>9. whole % BLOCK = 0
  <2>1. 0 \in 0..(BLOCK - 1)
    BY <1>0
  <2>2. QED
    BY <1>0, <1>6, <1>8, <2>1, OneRemainder
<1>10. n - whole < BLOCK
  BY <1>0, <1>4, <1>6
<1> HIDE DEF whole, n
<1>11. n = Len(filled)
  BY DEF n
<1>12. first \in Seq(Int) /\ Len(first) = whole
  BY <1>4, <1>8, <1>11
<1>13. rest \in Seq(Int) /\ Len(rest) = n - whole
  BY <1>4, <1>8, <1>11
<1>14. first \o rest = filled
  <2>1. first \o rest \in Seq(Int) /\ Len(first \o rest) = n
    BY <1>4, <1>8, <1>12, <1>13
  <2>2. ASSUME NEW k \in 1..n PROVE (first \o rest)[k] = filled[k]
    <3>1. (first \o rest)[k] = IF k <= whole THEN first[k] ELSE rest[k - whole]
      <4> HIDE DEF first, rest
      <4>1. \A i \in 1..(Len(first) + Len(rest)) :
                (first \o rest)[i] = IF i <= Len(first) THEN first[i] ELSE rest[i - Len(first)]
        BY <1>12, <1>13, ConcatProperties, Zenon
      <4>2. Len(first) + Len(rest) = n
        BY <1>4, <1>8, <1>12, <1>13
      <4>3. QED
        BY <1>12, <4>1, <4>2
    <3>2. k <= whole => first[k] = filled[k]
      BY <1>4, <1>8, <1>11
    <3>3. k > whole => rest[k - whole] = filled[k]
      BY <1>4, <1>8, <1>11
    <3> HIDE DEF first, rest
    <3>4. QED
      BY <1>4, <1>8, <3>1, <3>2, <3>3
  <2>3. QED
    BY <2>1, <2>2, <1>4, <1>11, SeqEqual
<1>15. (h.absorbed \o first) \o rest = Payload(0, to)
  <2> HIDE DEF first, rest
  <2>1. (h.absorbed \o first) \o rest = h.absorbed \o (first \o rest)
    BY <1>1, <1>12, <1>13, Regroup, Zenon
  <2>2. QED
    BY <1>5, <1>14, <2>1
<1>16. h.absorbed \o first \in Seq(Int) /\ Len(h.absorbed \o first) = Len(h.absorbed) + whole
  BY <1>1, <1>12
<1>17. Len(h.absorbed \o first) % BLOCK = 0
  <2>1. (Len(h.absorbed) + whole) % BLOCK = whole % BLOCK
    BY <1>0, <1>1, <1>8, WholeBlocksDropOut
  <2>2. QED
    BY <1>9, <1>16, <2>1
<1>18. Absorb(h, bytes) = [absorbed |-> h.absorbed \o first, buffer |-> rest, length |-> h.length + Len(bytes)]
  BY DEF Absorb, filled, whole, n
<1>19. h.length + Len(bytes) = to
  BY <1>1, <1>2
<1> HIDE DEF first, rest
<1>20. Streamed(Absorb(h, bytes)) /\ Absorb(h, bytes).length = to
  BY <1>0, <1>10, <1>13, <1>15, <1>16, <1>17, <1>18, <1>19, SMTT(30) DEF Streamed
<1>21. QED
  BY <1>20 DEF bytes

(* The one or two blocks of digest() are the padding of the standard: the   *)
(* case distinction of the code and the remainder of the definition agree. *)
LEMMA TailIsPadding ==
    ASSUME NEW n \in 0..(BLOCK - 1), NEW total \in Nat, total % BLOCK = n
    PROVE  LET used == (total + 1 + LENGTH) % BLOCK
           IN  (IF used = 0 THEN 0 ELSE BLOCK - used) + LENGTH - 1 = TailSize(n) - n - 2
<1> DEFINE over == n + 1 + LENGTH
           used == (total + 1 + LENGTH) % BLOCK
<1>1. BLOCK \in Nat \ {0} /\ LENGTH \in 1..(BLOCK - 1)
  BY HashAssumption
<1>2. total \div BLOCK \in Int /\ total = BLOCK * (total \div BLOCK) + n
  BY <1>1, Division
<1>3. over \in 1..(2 * BLOCK - 1)
  BY <1>1
<1> DEFINE q == total \div BLOCK
<1> HIDE DEF q
<1>4. q \in Int /\ total = BLOCK * q + n
  BY <1>2 DEF q
<1>5. total + 1 + LENGTH \in Nat
  BY <1>1
<1>6. CASE over < BLOCK
  <2>1. total + 1 + LENGTH = BLOCK * q + over
    BY <1>1, <1>4
  <2>2. over \in 0..(BLOCK - 1)
    BY <1>1, <1>3, <1>6
  <2>3. used = over
    BY <1>1, <1>4, <1>5, <2>1, <2>2, OneRemainder
  <2>4. QED
    BY <1>1, <1>6, <2>3 DEF TailSize
<1>7. CASE over >= BLOCK
  <2>1. BLOCK * (q + 1) = BLOCK * q + BLOCK
    BY <1>1, <1>4
  <2>2. total + 1 + LENGTH = BLOCK * (q + 1) + (over - BLOCK)
    BY <1>1, <1>4, <2>1
  <2>3. over - BLOCK \in 0..(BLOCK - 1) /\ q + 1 \in Int
    BY <1>1, <1>3, <1>4, <1>7
  <2>4. used = over - BLOCK
    BY <1>1, <1>5, <2>2, <2>3, OneRemainder
  <2>5. QED
    BY <1>1, <1>7, <2>4 DEF TailSize
<1>8. QED
  BY <1>1, <1>6, <1>7

(* Whatever is absorbed and whatever waits, digest() is the standard one. *)
LEMMA DigestOfStreamed ==
    ASSUME NEW h, Streamed(h)
    PROVE  Digest(h) = Standard(Payload(0, h.length))
<1> DEFINE n == Len(h.buffer)
           room == TailSize(n)
           bytes == Payload(0, h.length)
           used == (h.length + 1 + LENGTH) % BLOCK
           zeros == (IF used = 0 THEN 0 ELSE BLOCK - used) + LENGTH - 1
           a == Len(h.absorbed)
           padding == [k \in 1..zeros |-> Zero]
           last == LengthWord(h.length)
           tail == [k \in 1..room |-> CASE k <= n -> h.buffer[k]
                                        [] k = n + 1 -> One
                                        [] k = room -> last
                                        [] OTHER -> Zero]
<1>0. BLOCK \in Nat \ {0} /\ LENGTH \in 1..(BLOCK - 1)
  BY HashAssumption
<1>1. h.absorbed \in Seq(Int) /\ h.buffer \in Seq(Int) /\ h.length \in Nat /\ a \in Nat /\ n \in Nat
  BY DEF Streamed
<1>2. a % BLOCK = 0 /\ n < BLOCK
  BY DEF Streamed
<1>3. h.absorbed \o h.buffer = bytes
  BY DEF Streamed
<1>4. bytes \in Seq(Int) /\ Len(bytes) = h.length
  BY <1>1, WholePayload
<1>5. h.length = a + n
  <2> HIDE DEF bytes
  <2>1. Len(h.absorbed \o h.buffer) = a + n
    BY <1>1, ConcatProperties, Zenon
  <2>2. QED
    BY <1>3, <1>4, <2>1
<1>6. h.length % BLOCK = n
  <2>1. (a + n) % BLOCK = n % BLOCK
    BY <1>0, <1>1, <1>2, WholeBlocksDropOut
  <2>2. n % BLOCK = n
    <3>1. n \in 0..(BLOCK - 1)
      BY <1>0, <1>1, <1>2
    <3> HIDE DEF n
    <3>2. QED
      BY <1>0, <3>1
  <2>3. QED
    BY <1>5, <2>1, <2>2
<1>7. zeros = room - n - 2
  <2>1. n \in 0..(BLOCK - 1)
    BY <1>0, <1>1, <1>2
  <2> HIDE DEF n
  <2>2. QED
    BY <1>1, <1>6, <2>1, TailIsPadding
<1>8. room \in Nat /\ n + 2 <= room
  BY <1>0, <1>1, <1>2 DEF TailSize
<1>9. One \in Int /\ Zero \in Int /\ last \in Int
  BY <1>1 DEF One, Zero, LengthWord
<1>10. Digest(h) = h.absorbed \o tail
  BY DEF Digest
<1>11. Standard(bytes) = bytes \o <<One>> \o padding \o <<last>>
  BY <1>4 DEF Standard
<1> HIDE DEF bytes, room, zeros, used, last
<1>12. tail \in Seq(Int) /\ Len(tail) = room
       /\ \A k \in 1..room : tail[k] = CASE k <= n -> h.buffer[k]
                                         [] k = n + 1 -> One
                                         [] k = room -> last
                                         [] OTHER -> Zero
  <2>1. \A k \in 1..room : (CASE k <= n -> h.buffer[k]
                              [] k = n + 1 -> One
                              [] k = room -> last
                              [] OTHER -> Zero) \in Int
    BY <1>1, <1>8, <1>9
  <2>2. QED
    BY <1>8, <2>1, IsASeq
<1>13. padding \in Seq(Int) /\ Len(padding) = zeros /\ \A k \in 1..zeros : padding[k] = Zero
  <2>1. zeros \in Nat
    BY <1>1, <1>7, <1>8
  <2>2. QED
    BY <1>9, <2>1
<1>14. <<One>> \in Seq(Int) /\ <<last>> \in Seq(Int)
  BY <1>9
<1> HIDE DEF tail, padding, n, a
<1> DEFINE made == h.absorbed \o tail
           marked == bytes \o <<One>>
           padded == marked \o padding
           wanted == padded \o <<last>>
<1>15. a \in Nat /\ n \in Nat /\ room \in Nat /\ zeros \in Nat /\ 1 \in Nat
       /\ n + 1 < room /\ n + 1 + zeros = room - 1
  BY <1>1, <1>7, <1>8
<1>16. h.absorbed \in Seq(Int) /\ Len(h.absorbed) = a /\ h.buffer \in Seq(Int) /\ Len(h.buffer) = n
  BY <1>1 DEF a, n
<1>17. made \in Seq(Int) /\ Len(made) = a + room
       /\ \A k \in 1..(a + room) : made[k] = IF k <= a THEN h.absorbed[k] ELSE tail[k - a]
  <2>1. h.absorbed \in Seq(Int) /\ Len(h.absorbed) = a /\ a \in Nat
        /\ tail \in Seq(Int) /\ Len(tail) = room /\ room \in Nat
    BY <1>12, <1>15, <1>16
  <2>2. QED
    BY <2>1, ConcatProperties
<1>18. \A k \in 1..(a + n) : bytes[k] = IF k <= a THEN h.absorbed[k] ELSE h.buffer[k - a]
  <2>1. h.absorbed \in Seq(Int) /\ Len(h.absorbed) = a /\ a \in Nat
        /\ h.buffer \in Seq(Int) /\ Len(h.buffer) = n /\ n \in Nat
    BY <1>15, <1>16
  <2>2. \A k \in 1..(a + n) : (h.absorbed \o h.buffer)[k] = IF k <= a THEN h.absorbed[k] ELSE h.buffer[k - a]
    BY <2>1, ConcatProperties
  <2>3. QED
    BY <1>3, <2>2
<1>19. bytes \in Seq(Int) /\ Len(bytes) = a + n /\ a + n \in Nat /\ a + n + 1 \in Nat
       /\ Len(<<One>>) = 1 /\ Len(<<last>>) = 1
  BY <1>4, <1>5, <1>15
<1>20. marked \in Seq(Int) /\ Len(marked) = a + n + 1
       /\ \A k \in 1..(a + n + 1) : marked[k] = IF k <= a + n THEN bytes[k] ELSE <<One>>[k - (a + n)]
  <2>1. bytes \in Seq(Int) /\ Len(bytes) = a + n /\ a + n \in Nat
        /\ <<One>> \in Seq(Int) /\ Len(<<One>>) = 1 /\ 1 \in Nat
    BY <1>14, <1>15, <1>19
  <2>2. QED
    BY <2>1, ConcatProperties
<1> HIDE DEF marked, made
<1>21. padded \in Seq(Int) /\ Len(padded) = a + n + 1 + zeros
       /\ \A k \in 1..(a + n + 1 + zeros) :
            padded[k] = IF k <= a + n + 1 THEN marked[k] ELSE padding[k - (a + n + 1)]
  <2>1. marked \in Seq(Int) /\ Len(marked) = a + n + 1 /\ a + n + 1 \in Nat
        /\ padding \in Seq(Int) /\ Len(padding) = zeros /\ zeros \in Nat
    BY <1>13, <1>15, <1>19, <1>20
  <2>2. QED
    BY <2>1, ConcatProperties
<1> HIDE DEF padded
<1>22. a + n + 1 + zeros = a + room - 1 /\ a + room - 1 \in Nat /\ a + room - 1 + 1 = a + room
  BY <1>15
<1>23. wanted \in Seq(Int) /\ Len(wanted) = a + room
       /\ \A k \in 1..(a + room) : wanted[k] = IF k <= a + room - 1 THEN padded[k] ELSE <<last>>[k - (a + room - 1)]
  <2>1. Len(padded) = a + room - 1
    BY <1>21, <1>22
  <2>2. wanted \in Seq(Int) /\ Len(wanted) = a + room - 1 + 1
        /\ \A k \in 1..(a + room - 1 + 1) :
             wanted[k] = IF k <= a + room - 1 THEN padded[k] ELSE <<last>>[k - (a + room - 1)]
    <3>1. padded \in Seq(Int) /\ Len(padded) = a + room - 1 /\ a + room - 1 \in Nat
          /\ <<last>> \in Seq(Int) /\ Len(<<last>>) = 1 /\ 1 \in Nat
      BY <1>14, <1>15, <1>19, <1>21, <1>22, <2>1
    <3>2. QED
      BY <3>1, ConcatProperties
  <2>3. QED
    BY <1>22, <2>2
<1> HIDE DEF wanted
<1>24. ASSUME NEW k \in 1..(a + room) PROVE made[k] = wanted[k]
  <2> DEFINE j == k - a
  <2>0. (k <= a => made[k] = h.absorbed[k]) /\ (~(k <= a) => made[k] = tail[j])
    <3>1. made[k] = IF k <= a THEN h.absorbed[k] ELSE tail[k - a]
      BY <1>17, Zenon
    <3>2. QED
      BY <3>1, Zenon DEF j
  <2>1. CASE k <= a + n
    <3>1. k \in 1..(a + n) /\ k \in 1..(a + n + 1) /\ k \in 1..(a + n + 1 + zeros) /\ k <= a + room - 1 /\ k <= a + n + 1
      BY <1>15, <2>1
    <3>2. wanted[k] = bytes[k]
      BY <1>20, <1>21, <1>23, <2>1, <3>1, Zenon
    <3>3. k > a => j \in 1..room /\ j <= n /\ j # n + 1 /\ j # room
      BY <1>15, <2>1
    <3> HIDE DEF j
    <3>4. k > a => tail[j] = h.buffer[j]
      BY <1>12, <3>3
    <3>5. CASE k <= a
      <4>1. bytes[k] = h.absorbed[k]
        BY <1>18, <3>1, <3>5, Zenon
      <4>2. QED
        BY <2>0, <3>2, <3>5, <4>1
    <3>6. CASE k > a
      <4>1. ~(k <= a)
        BY <1>15, <3>6
      <4>2. bytes[k] = h.buffer[j]
        BY <1>18, <3>1, <4>1, Zenon DEF j
      <4>3. QED
        BY <2>0, <3>2, <3>4, <3>6, <4>1, <4>2
    <3>7. QED
      BY <1>15, <3>5, <3>6
  <2>2. CASE k = a + n + 1
    <3>1. k \in 1..(a + n + 1) /\ k \in 1..(a + n + 1 + zeros) /\ k <= a + room - 1 /\ k <= a + n + 1
          /\ ~(k <= a + n) /\ k - (a + n) = 1 /\ <<One>>[1] = One
      BY <1>15, <2>2
    <3>2. wanted[k] = One
      BY <1>20, <1>21, <1>23, <3>1, Zenon
    <3>3. ~(k <= a) /\ j \in 1..room /\ ~(j <= n) /\ j = n + 1
      BY <1>15, <2>2
    <3> HIDE DEF j
    <3>4. tail[j] = One
      BY <1>12, <1>15, <3>3
    <3>5. QED
      BY <2>0, <3>2, <3>3, <3>4
  <2>3. CASE a + n + 1 < k /\ k < a + room
    <3>1. k \in 1..(a + n + 1 + zeros) /\ k <= a + room - 1 /\ ~(k <= a + n + 1) /\ k - (a + n + 1) \in 1..zeros
      BY <1>15, <2>3
    <3>2. wanted[k] = Zero
      BY <1>13, <1>21, <1>23, <3>1, Zenon
    <3>3. ~(k <= a) /\ j \in 1..room /\ ~(j <= n) /\ j # n + 1 /\ j # room
      BY <1>15, <2>3
    <3> HIDE DEF j
    <3>4. tail[j] = Zero
      BY <1>12, <3>3
    <3>5. QED
      BY <2>0, <3>2, <3>3, <3>4
  <2>4. CASE k = a + room
    <3>1. ~(k <= a + room - 1) /\ k - (a + room - 1) = 1 /\ <<last>>[1] = last
      BY <1>15, <2>4
    <3>2. wanted[k] = last
      BY <1>23, <3>1, Zenon
    <3>3. ~(k <= a) /\ j \in 1..room /\ ~(j <= n) /\ j # n + 1 /\ j = room
      BY <1>15, <2>4
    <3> HIDE DEF j
    <3>4. tail[j] = last
      BY <1>12, <3>3
    <3>5. QED
      BY <2>0, <3>2, <3>3, <3>4
  <2>5. k <= a + n \/ k = a + n + 1 \/ (a + n + 1 < k /\ k < a + room) \/ k = a + room
    BY <1>15
  <2>6. QED
    BY <2>1, <2>2, <2>3, <2>4, <2>5
<1>25. made = wanted
  BY <1>17, <1>23, <1>24, SeqEqual
<1>26. QED
  BY <1>10, <1>11, <1>25 DEF bytes, made, wanted, padded, marked

-----------------------------------------------------------------------------
(* A new hash has the empty payload. *)
LEMMA NewHashStreams == Streamed(NewHash)
<1>1. <<>> \in Seq(Int) /\ Len(<<>>) = 0 /\ <<>> \o <<>> = <<>>
  OBVIOUS
<1>2. Payload(0, 0) = <<>>
  BY WholePayload, EmptySeq
<1>3. 0 % BLOCK = 0 /\ 0 < BLOCK
  BY HashAssumption
<1>4. QED
  BY <1>1, <1>2, <1>3 DEF Streamed, NewHash

(* The initial state satisfies the invariant. *)
LEMMA HashInitInv == HashInit => HashInv
<1> SUFFICES ASSUME HashInit PROVE HashInv
  OBVIOUS
<1>1. held = Payload(0, Len(held)) /\ Len(held) \in Nat
  <2>1. Payload(0, 0) = <<>>
    BY WholePayload, EmptySeq
  <2>2. QED
    BY <2>1 DEF HashInit
<1>2. QED
  BY <1>1, NewHashStreams DEF HashInit, HashInv, DigestIsStandard, NewHash

(* A chunk: streamed, held, or, past the limit, all that was held replayed. *)
LEMMA UpdateKeepsInv == ASSUME HashInv, Update PROVE HashInv'
<1> USE DEF HashInv
<1>1. PICK to \in (Fed + 1)..MaxBytes :
        LET chunk == Payload(Fed, to)
        IN  \/ /\ path = "streaming"
               /\ hash' = Absorb(hash, chunk)
               /\ UNCHANGED <<path, held>>
            \/ /\ path = "native" /\ to <= NATIVE_LIMIT
               /\ held' = held \o chunk
               /\ UNCHANGED <<path, hash>>
            \/ /\ path = "native" /\ to > NATIVE_LIMIT
               /\ path' = "streaming"
               /\ hash' = Absorb(Absorb(NewHash, held), chunk)
               /\ held' = <<>>
  BY DEF Update
<1>2. UNCHANGED <<resumable, saved, digest>>
  BY DEF Update
<1>3. MaxBytes \in Nat
  BY HashAssumption
<1>4. CASE path = "streaming"
  <2>1. hash' = Absorb(hash, Payload(hash.length, to)) /\ path' = path /\ held' = held
    BY <1>1, <1>4 DEF Fed
  <2>2. to \in Nat /\ hash.length <= to
    BY <1>1, <1>3, <1>4 DEF Fed, Streamed
  <2>3. Streamed(hash')
    BY <1>4, <2>1, <2>2, AbsorbStreams
  <2>4. QED
    BY <1>2, <1>4, <2>1, <2>3 DEF DigestIsStandard
<1>5. CASE path = "native"
  <2>1. Fed = Len(held) /\ to \in Nat /\ Len(held) <= to
    BY <1>1, <1>3, <1>5 DEF Fed
  <2>2. CASE to <= NATIVE_LIMIT
    <3>1. held' = held \o Payload(Len(held), to) /\ path' = path /\ hash' = hash
      BY <1>1, <1>3, <1>5, <2>1, <2>2, HashAssumption
    <3>2. held' = Payload(0, to)
      BY <2>1, <3>1, PayloadJoins
    <3>3. Len(held') = to
      BY <2>1, <3>2, WholePayload
    <3>4. QED
      BY <1>2, <1>5, <2>1, <3>1, <3>2, <3>3 DEF DigestIsStandard
  <2>3. CASE to > NATIVE_LIMIT
    <3> DEFINE replayed == Absorb(NewHash, held)
    <3>1. hash' = Absorb(replayed, Payload(Len(held), to)) /\ path' = "streaming" /\ held' = <<>>
      BY <1>1, <1>3, <1>5, <2>1, <2>3, HashAssumption
    <3>2. Streamed(replayed) /\ replayed.length = Len(held)
      <4>1. NewHash.length = 0 /\ 0 <= Len(held)
        BY DEF NewHash
      <4>2. QED
        BY <4>1, NewHashStreams, AbsorbStreams
    <3> HIDE DEF replayed
    <3>3. Streamed(hash')
      BY <2>1, <3>1, <3>2, AbsorbStreams
    <3>4. held' = Payload(0, Len(held')) /\ Len(held') = 0
      BY <3>1, WholePayload, EmptySeq
    <3>5. QED
      BY <1>2, <3>1, <3>3, <3>4 DEF DigestIsStandard
  <2>4. QED
    BY <2>1, <2>2, <2>3, HashAssumption
<1>6. QED
  BY <1>1, <1>4, <1>5

(* Either path ends in the standard digest. *)
LEMMA DigestsKeepInv == ASSUME HashInv, Digests PROVE HashInv'
<1> USE DEF HashInv
<1>1. path \in {"native", "streaming"} /\ path' = "done" /\ UNCHANGED <<held, saved>>
  BY DEF Digests
<1>2. Streamed(hash)
  BY <1>1
<1>3. hash'.length = Fed
  BY <1>2 DEF Digests, Streamed
<1>4. CASE path = "native"
  <2>1. digest' = Standard(held) /\ hash'.length = Len(held)
    BY <1>3, <1>4 DEF Digests, Fed
  <2>2. QED
    BY <1>1, <2>1 DEF DigestIsStandard
<1>5. CASE path = "streaming"
  <2>1. digest' = Digest(hash) /\ hash'.length = hash.length
    BY <1>3, <1>5 DEF Digests, Fed
  <2>2. digest' = Standard(Payload(0, hash'.length))
    BY <1>2, <2>1, DigestOfStreamed
  <2>3. QED
    BY <1>1, <2>2 DEF DigestIsStandard
<1>6. QED
  BY <1>1, <1>4, <1>5

(* Every step keeps the invariant: a snapshot saves a hash without a       *)
(* remainder, and a resumption takes it up.                                *)
LEMMA HashStepInv == HashInv /\ [HashNext]_hashVars => HashInv'
<1> SUFFICES ASSUME HashInv, [HashNext]_hashVars PROVE HashInv'
  OBVIOUS
<1>1. CASE Update
  BY <1>1, UpdateKeepsInv
<1>2. CASE Snapshot
  <2>1. saved' = hash /\ hash.buffer = <<>>
    BY <1>2 DEF Snapshot, Between, HashInv, Streamed
  <2>2. QED
    BY <1>2, <2>1 DEF Snapshot, Between, HashInv, DigestIsStandard
<1>3. CASE Resume
  BY <1>3 DEF Resume, HashInv, DigestIsStandard
<1>4. CASE Digests
  BY <1>4, DigestsKeepInv
<1>5. CASE UNCHANGED hashVars
  BY <1>5 DEF hashVars, HashInv, DigestIsStandard
<1>6. QED
  BY <1>1, <1>2, <1>3, <1>4, <1>5 DEF HashNext

(* In every reachable state a hash holds the payload so far. *)
THEOREM HashIsInvariant == HashSpec => []HashInv
<1> QED
  BY HashInitInv, HashStepInv, PTL DEF HashSpec

(* "Either path produces the same standard digest" (sha256.js:147), for   *)
(* every block room, native limit and payload, however it was cut, handed   *)
(* over or resumed.                                                         *)
THEOREM DigestsAreStandard == HashSpec => []DigestIsStandard
<1>1. HashInv => DigestIsStandard
  BY DEF HashInv
<1> QED
  BY <1>1, HashIsInvariant, PTL
-----------------------------------------------------------------------------
(* A multiple of b is within a exactly if its factor is within the quotient. *)
LEMMA WithinQuotient ==
    ASSUME NEW b \in Nat \ {0}, NEW a \in Int, NEW q \in Int
    PROVE  q <= a \div b <=> b * q <= a
<1> DEFINE p == a \div b
<1>1. p \in Int /\ a % b \in 0..(b - 1) /\ a = b * p + (a % b)
  BY Division
<1> HIDE DEF p
<1>2. CASE q <= p
  <2>1. p - q \in Nat /\ b * (p - q) = b * p - b * q
    BY <1>1, <1>2
  <2>2. b * (p - q) >= 0
    BY <2>1
  <2>3. QED
    BY <1>1, <1>2, <2>1, <2>2 DEF p
<1>3. CASE q > p
  <2>1. q - p - 1 \in Nat /\ b * (q - p - 1) = b * q - b * p - b
    BY <1>1, <1>3
  <2>2. b * (q - p - 1) >= 0
    BY <2>1
  <2>3. b * q >= b * p + b
    BY <1>1, <2>1, <2>2
  <2>4. QED
    BY <1>1, <1>3, <2>3 DEF p
<1>4. QED
  BY <1>1, <1>2, <1>3

(* The blocks of a payload: enough, not one too many, and the last one as  *)
(* long as the trailer says.                                               *)
LEMMA BlocksCover ==
    ASSUME size \in Nat
    PROVE  /\ Blocks(size) \in Nat
           /\ Blocks(size) = 0 <=> size = 0
           /\ \A i \in Nat : BLOCK_SIZE * i < size => i < Blocks(size)
           /\ size # 0 => (Blocks(size) - 1) * BLOCK_SIZE + LastBlockSize = size
<1> DEFINE n == Blocks(size)
           a == size + BLOCK_SIZE - 1
           r == size % BLOCK_SIZE
           q == size \div BLOCK_SIZE
<1>0. BLOCK_SIZE \in Nat \ {0}
  BY BlockAssumption
<1>1. n \in Int /\ a \in Nat /\ a % BLOCK_SIZE \in 0..(BLOCK_SIZE - 1) /\ a = BLOCK_SIZE * n + (a % BLOCK_SIZE)
  <2>1. a \in Nat /\ n = a \div BLOCK_SIZE
    BY <1>0 DEF Blocks
  <2> HIDE DEF a, n
  <2>2. QED
    BY <1>0, <2>1, Division
<1>2. q \in Int /\ r \in 0..(BLOCK_SIZE - 1) /\ size = BLOCK_SIZE * q + r
  BY <1>0, Division
<1>3. \A i \in Int : i <= n <=> BLOCK_SIZE * i <= a
  BY <1>0, <1>1, WithinQuotient DEF Blocks
<1>4. LastBlockSize = IF r = 0 THEN BLOCK_SIZE ELSE r
  BY DEF LastBlockSize
<1> HIDE DEF n, q, r
<1>5. n \in Nat
  <2>1. BLOCK_SIZE * 0 <= a
    BY <1>0
  <2>2. QED
    BY <1>1, <1>3, <2>1
<1>6. n = 0 <=> size = 0
  <2>1. 1 <= n <=> BLOCK_SIZE * 1 <= a
    BY <1>3
  <2>2. BLOCK_SIZE * 1 = BLOCK_SIZE
    BY <1>0
  <2>3. QED
    BY <1>0, <1>5, <2>1, <2>2
<1>7. ASSUME NEW i \in Nat, BLOCK_SIZE * i < size PROVE i < n
  <2>1. BLOCK_SIZE * (i + 1) = BLOCK_SIZE * i + BLOCK_SIZE
    BY <1>0
  <2>2. BLOCK_SIZE * i \in Int
    BY <1>0
  <2>3. BLOCK_SIZE * (i + 1) <= a
    BY <1>0, <1>7, <2>1, <2>2
  <2>4. i + 1 <= n
    BY <1>3, <2>3
  <2>5. QED
    BY <1>5, <2>4
<1>8. (n - 1) * BLOCK_SIZE = BLOCK_SIZE * n - BLOCK_SIZE /\ BLOCK_SIZE * n \in Int
  BY <1>0, <1>1
<1>9. CASE r = 0
  <2>1. a = BLOCK_SIZE * q + (BLOCK_SIZE - 1) /\ BLOCK_SIZE - 1 \in 0..(BLOCK_SIZE - 1)
    <3>1. BLOCK_SIZE * q \in Int
      BY <1>0, <1>2
    <3>2. QED
      BY <1>0, <1>2, <1>9, <3>1
  <2>2. a % BLOCK_SIZE = BLOCK_SIZE - 1
    BY <1>0, <1>1, <1>2, <2>1, OneRemainder
  <2>3. QED
    BY <1>0, <1>1, <1>4, <1>5, <1>6, <1>7, <1>8, <1>9, <2>2 DEF n
<1>10. CASE r # 0
  <2>1. BLOCK_SIZE * (q + 1) = BLOCK_SIZE * q + BLOCK_SIZE
    BY <1>0, <1>2
  <2>2. a = BLOCK_SIZE * (q + 1) + (r - 1) /\ r - 1 \in 0..(BLOCK_SIZE - 1) /\ q + 1 \in Int
    <3>1. BLOCK_SIZE * q \in Int
      BY <1>0, <1>2
    <3>2. QED
      BY <1>0, <1>2, <1>10, <2>1, <3>1
  <2>3. a % BLOCK_SIZE = r - 1
    BY <1>0, <1>1, <2>2, OneRemainder
  <2>4. QED
    BY <1>0, <1>1, <1>2, <1>4, <1>5, <1>6, <1>7, <1>8, <1>10, <2>3 DEF n
<1>11. QED
  BY <1>2, <1>9, <1>10

(* The plaintext from one byte to another ... *)
LEMMA PlainIsSeq ==
    ASSUME NEW from \in Int, NEW to \in Int
    PROVE  /\ Plain(from, to) \in Seq(Int)
           /\ Len(Plain(from, to)) = Greatest(0, to - from + 1)
           /\ DOMAIN Plain(from, to) = 1..Greatest(0, to - from + 1)
           /\ \A k \in 1..Greatest(0, to - from + 1) : Plain(from, to)[k] = from + k - 1
<1> DEFINE n == Greatest(0, to - from + 1)
<1>1. n \in Nat
  BY DEF Greatest
<1> HIDE DEF n
<1>2. \A k \in 1..n : from + k - 1 \in Int
  BY <1>1
<1>3. [k \in 1..n |-> from + k - 1] \in Seq(Int) /\ Len([k \in 1..n |-> from + k - 1]) = n
  BY <1>1, <1>2
<1>4. Plain(from, to) = [k \in 1..n |-> from + k - 1]
  BY DEF Plain, n
<1>5. QED
  BY <1>1, <1>3, <1>4 DEF n

(* ... is in order, and is those bytes and no others. *)
LEMMA PlainIsInOrder ==
    ASSUME NEW from \in Int, NEW to \in Int
    PROVE  /\ \A i, j \in DOMAIN Plain(from, to) : i < j => Plain(from, to)[i] < Plain(from, to)[j]
           /\ Range(Plain(from, to)) = from..to
<1> DEFINE s == Plain(from, to)
           n == Greatest(0, to - from + 1)
<1>1. s \in Seq(Int) /\ Len(s) = n /\ DOMAIN s = 1..n /\ \A k \in 1..n : s[k] = from + k - 1
  BY PlainIsSeq
<1>2. n \in Nat /\ (n = 0 \/ n = to - from + 1) /\ n >= to - from + 1
  BY DEF Greatest
<1> HIDE DEF s, n
<1>3. \A i, j \in DOMAIN s : i < j => s[i] < s[j]
  BY <1>1, <1>2
<1>4. Range(s) = {s[k] : k \in 1..n}
  BY <1>1 DEF Range
<1>5. \A p \in from..to : p \in Range(s)
  <2> TAKE p \in from..to
  <2>1. p - from + 1 \in 1..n
    BY <1>2
  <2>2. s[p - from + 1] = p
    BY <1>1, <2>1
  <2>3. QED
    BY <1>4, <2>1, <2>2
<1>6. \A k \in 1..n : s[k] \in from..to
  BY <1>1, <1>2
<1>7. QED
  BY <1>3, <1>4, <1>5, <1>6 DEF s

(* One stretch behind the other. *)
LEMMA PlainJoins ==
    ASSUME NEW from \in Int, NEW mid \in Int, NEW to \in Int, from <= mid, mid <= to + 1
    PROVE  Plain(from, mid - 1) \o Plain(mid, to) = Plain(from, to)
<1> DEFINE s == Plain(from, mid - 1)
           t == Plain(mid, to)
           u == Plain(from, to)
<1>1. s \in Seq(Int) /\ Len(s) = mid - from /\ \A k \in 1..(mid - from) : s[k] = from + k - 1
  <2>1. mid - 1 \in Int /\ Greatest(0, mid - 1 - from + 1) = mid - from
    BY DEF Greatest
  <2>2. QED
    BY <2>1, PlainIsSeq
<1>2. t \in Seq(Int) /\ Len(t) = to - mid + 1 /\ \A k \in 1..(to - mid + 1) : t[k] = mid + k - 1
  <2>1. Greatest(0, to - mid + 1) = to - mid + 1
    BY DEF Greatest
  <2>2. QED
    BY <2>1, PlainIsSeq
<1>3. u \in Seq(Int) /\ Len(u) = to - from + 1 /\ \A k \in 1..(to - from + 1) : u[k] = from + k - 1
  <2>1. Greatest(0, to - from + 1) = to - from + 1
    BY DEF Greatest
  <2>2. QED
    BY <2>1, PlainIsSeq
<1> HIDE DEF s, t, u
<1>4. s \o t \in Seq(Int) /\ Len(s \o t) = to - from + 1
      /\ \A k \in 1..(to - from + 1) : (s \o t)[k] = IF k <= mid - from THEN s[k] ELSE t[k - (mid - from)]
  <2>1. s \o t \in Seq(Int) /\ Len(s \o t) = Len(s) + Len(t)
        /\ \A k \in 1..(Len(s) + Len(t)) : (s \o t)[k] = IF k <= Len(s) THEN s[k] ELSE t[k - Len(s)]
    BY <1>1, <1>2, ConcatProperties, Zenon
  <2>2. Len(s) + Len(t) = to - from + 1
    BY <1>1, <1>2
  <2>3. QED
    BY <1>1, <2>1, <2>2
<1>5. ASSUME NEW k \in 1..(to - from + 1) PROVE (s \o t)[k] = from + k - 1
  BY <1>1, <1>2, <1>4
<1>6. s \o t = u
  <2> DEFINE v == s \o t
  <2>1. v \in Seq(Int) /\ Len(v) = Len(u) /\ \A k \in 1..Len(v) : v[k] = u[k]
    BY <1>3, <1>4, <1>5
  <2> HIDE DEF v
  <2>2. v = u
    BY <1>3, <2>1, SeqEqual
  <2>3. QED
    BY <2>2 DEF v
<1>7. QED
  BY <1>6 DEF s, t, u

(* A piece of a stretch is a stretch. *)
LEMMA PieceOfPlain ==
    ASSUME NEW from \in Int, NEW to \in Int, NEW i \in Nat, NEW j \in Nat, i <= j, j <= to - from + 1
    PROVE  SubSeq(Plain(from, to), i + 1, j) = Plain(from + i, from + j - 1)
<1> DEFINE s == Plain(from, to)
           t == Plain(from + i, from + j - 1)
           u == SubSeq(s, i + 1, j)
<1>1. s \in Seq(Int) /\ Len(s) = to - from + 1 /\ \A k \in 1..(to - from + 1) : s[k] = from + k - 1
  <2>1. Greatest(0, to - from + 1) = to - from + 1
    BY DEF Greatest
  <2>2. QED
    BY <2>1, PlainIsSeq
<1>2. t \in Seq(Int) /\ Len(t) = j - i /\ \A k \in 1..(j - i) : t[k] = from + i + k - 1
  <2> DEFINE a == from + i
             b == from + j - 1
  <2>1. a \in Int /\ b \in Int /\ Greatest(0, b - a + 1) = j - i
    BY DEF Greatest
  <2> HIDE DEF a, b
  <2>2. Plain(a, b) \in Seq(Int) /\ Len(Plain(a, b)) = j - i /\ \A k \in 1..(j - i) : Plain(a, b)[k] = a + k - 1
    BY <2>1, PlainIsSeq
  <2>3. QED
    BY <2>2 DEF a, b
<1> HIDE DEF s, t
<1>3. u \in Seq(Int) /\ Len(u) = j - i /\ \A k \in 1..(j - i) : u[k] = s[i + k]
  BY <1>1
<1> HIDE DEF u
<1>4. \A k \in 1..(j - i) : u[k] = t[k]
  BY <1>1, <1>2, <1>3
<1>5. QED
  BY <1>2, <1>3, <1>4, SeqEqual DEF s, t, u
-----------------------------------------------------------------------------
\* What a file is made of: bytes of members, and words.
Cells == [block : Int, byte : Int] \cup [word : Int]

\* What BlockInit chooses, and no step changes.
Stored ==
    /\ size \in 0..MaxSize
    /\ encoding \in {"gzip", "raw"}
    /\ members \in IF encoding = "raw" THEN {<<>>} ELSE [1..Blocks(size) -> 1..MaxMember]
    /\ torn \in BOOLEAN

\* The table of offsets that readTrailer adds up.
Adds(count, tableAt, o) ==
    o = [i \in 0..count |-> IF i = 0 THEN 0 ELSE o[i - 1] + File[tableAt + i].word]

(* A compressed block. *)
LEMMA MemberIsSeq ==
    ASSUME Stored, encoding = "gzip", NEW i \in 0..(Len(members) - 1)
    PROVE  /\ Member(i) \in Seq(Cells)
           /\ Len(Member(i)) = members[i + 1]
           /\ members[i + 1] \in Nat \ {0}
           /\ Member(i)[1].block = i
<1>1. Blocks(size) \in Nat
  BY BlocksCover DEF Stored
<1>2. members \in [1..Blocks(size) -> 1..MaxMember] /\ Len(members) = Blocks(size)
  BY <1>1 DEF Stored
<1>3. members[i + 1] \in 1..MaxMember
  BY <1>1, <1>2
<1> DEFINE n == members[i + 1]
<1>4. n \in Nat \ {0}
  BY <1>3, BlockAssumption
<1> HIDE DEF n
<1>5. \A k \in 1..n : [block |-> i, byte |-> k] \in Cells
  BY <1>1, <1>2 DEF Cells
<1>6. Member(i) = [k \in 1..n |-> [block |-> i, byte |-> k]]
  BY DEF Member, n
<1>7. Member(i) \in Seq(Cells) /\ Len(Member(i)) = n
  BY <1>4, <1>5, <1>6
<1>8. Member(i)[1] = [block |-> i, byte |-> 1]
  BY <1>4, <1>6
<1>9. QED
  BY <1>4, <1>7, <1>8 DEF n

(* The trailer. *)
LEMMA TrailerIsSeq ==
    ASSUME Stored, encoding = "gzip"
    PROVE  /\ members \in Seq(Nat)
           /\ Len(members) = Blocks(size)
           /\ EncodeTrailer \in Seq(Cells)
           /\ Len(EncodeTrailer) = Len(members) + 4
           /\ \A i \in 1..Len(members) : EncodeTrailer[i].word = members[i]
           /\ EncodeTrailer[Len(members) + 1].word = BLOCK_SIZE
           /\ EncodeTrailer[Len(members) + 2].word = LastBlockSize
           /\ EncodeTrailer[Len(members) + 3].word = Len(members)
           /\ EncodeTrailer[Len(members) + 4].word = MAGIC
<1> DEFINE n == Len(members)
           foot == <<BLOCK_SIZE, LastBlockSize, n, MAGIC>>
           w == members \o foot
<1>1. Blocks(size) \in Nat
  BY BlocksCover DEF Stored
<1>2. members \in Seq(Nat) /\ n = Blocks(size) /\ n \in Nat
  BY <1>1, BlockAssumption DEF Stored
<1>3. BLOCK_SIZE \in Int /\ LastBlockSize \in Int /\ MAGIC \in Int
  BY BlockAssumption DEF LastBlockSize, MAGIC, Stored
<1> HIDE DEF n
<1>4. foot \in Seq(Int) /\ Len(foot) = 4
      /\ foot[1] = BLOCK_SIZE /\ foot[2] = LastBlockSize /\ foot[3] = n /\ foot[4] = MAGIC
  BY <1>2, <1>3
<1> HIDE DEF foot
<1>5. w \in Seq(Int) /\ Len(w) = n + 4 /\ \A i \in 1..(n + 4) : w[i] = IF i <= n THEN members[i] ELSE foot[i - n]
  <2>1. members \in Seq(Int) /\ Len(members) = n
    BY <1>2 DEF n
  <2>2. w \in Seq(Int) /\ Len(w) = Len(members) + Len(foot)
        /\ \A i \in 1..(Len(members) + Len(foot)) : w[i] = IF i <= Len(members) THEN members[i] ELSE foot[i - Len(members)]
    BY <1>4, <2>1, ConcatProperties, Zenon
  <2> HIDE DEF w
  <2>3. QED
    BY <1>4, <2>1, <2>2
<1>6. EncodeTrailer = [k \in 1..(n + 4) |-> [word |-> w[k]]]
  <2>1. EncodeTrailer = [k \in DOMAIN w |-> [word |-> w[k]]]
    BY DEF EncodeTrailer, Words, foot, n
  <2>2. DOMAIN w = 1..(n + 4)
    <3> HIDE DEF w
    <3>1. QED
      BY <1>2, <1>5
  <2>3. QED
    BY <2>1, <2>2
<1> HIDE DEF w
<1>7. \A k \in 1..(n + 4) : [word |-> w[k]] \in Cells
  BY <1>2, <1>5 DEF Cells
<1>8. EncodeTrailer \in Seq(Cells) /\ Len(EncodeTrailer) = n + 4 /\ \A k \in 1..(n + 4) : EncodeTrailer[k].word = w[k]
  BY <1>2, <1>6, <1>7
<1>9. \A i \in 1..n : EncodeTrailer[i].word = members[i]
  BY <1>2, <1>5, <1>8
<1>10. /\ EncodeTrailer[n + 1].word = foot[1] /\ EncodeTrailer[n + 2].word = foot[2]
       /\ EncodeTrailer[n + 3].word = foot[3] /\ EncodeTrailer[n + 4].word = foot[4]
  <2>2. ASSUME NEW j \in 1..4 PROVE EncodeTrailer[n + j].word = foot[j]
    <3> DEFINE i == n + j
    <3>1. i \in 1..(n + 4) /\ ~(i <= n) /\ i - n = j
      BY <1>2
    <3> HIDE DEF i
    <3>2. EncodeTrailer[i].word = w[i] /\ w[i] = foot[j]
      BY <1>5, <1>8, <3>1
    <3>3. QED
      BY <3>2 DEF i
  <2>3. QED
    BY <2>2
<1>11. QED
  BY <1>2, <1>4, <1>8, <1>9, <1>10 DEF n

(* Only the member of a block decodes to it. *)
LEMMA MembersDecode ==
    ASSUME Stored, encoding = "gzip", NEW b \in 0..(Len(members) - 1)
    PROVE  Gunzip(Member(b)) = BlockPlain(b)
<1> DEFINE is == {i \in 0..(Len(members) - 1) : Member(i) = Member(b)}
<1>1. \A i \in is : Member(i)[1].block = i /\ Member(i) = Member(b)
  BY MemberIsSeq
<1>2. Member(b)[1].block = b
  BY MemberIsSeq
<1>3. \A i \in is : i = b
  BY <1>1, <1>2
<1>4. is = {b}
  BY <1>3
<1>5. QED
  BY <1>4 DEF Gunzip

(* readTrailer finds the table and the size put wrote, ... *)
LEMMA Container ==
    ASSUME Stored, encoding = "gzip", ~torn
    PROVE  \E o : /\ ReadTrailer = {[offsets |-> o, blockSize |-> BLOCK_SIZE, size |-> size]}
                  /\ \A b \in 0..(Blocks(size) - 1) : SubSeq(File, o[b] + 1, o[b + 1]) = Member(b)
<1> DEFINE n == Len(members)
           parts == [i \in 1..n |-> Member(i - 1)]
           t == EncodeTrailer
<1>1. /\ members \in Seq(Nat) /\ n = Blocks(size) /\ n \in Nat
      /\ t \in Seq(Cells) /\ Len(t) = n + 4
      /\ \A i \in 1..n : t[i].word = members[i]
      /\ t[n + 1].word = BLOCK_SIZE /\ t[n + 2].word = LastBlockSize
      /\ t[n + 3].word = n /\ t[n + 4].word = MAGIC
  BY TrailerIsSeq
<1>2. \A i \in 1..n : Member(i - 1) \in Seq(Cells) /\ Len(Member(i - 1)) = members[i]
  <2> TAKE i \in 1..n
  <2> DEFINE j == i - 1
  <2>1. j \in 0..(Len(members) - 1) /\ j + 1 = i
    BY <1>1
  <2> HIDE DEF j
  <2>2. Member(j) \in Seq(Cells) /\ Len(Member(j)) = members[j + 1]
    BY <2>1, MemberIsSeq
  <2>3. QED
    BY <2>1, <2>2 DEF j
<1> HIDE DEF t
<1>3. DOMAIN members = 1..n
  BY <1>1
<1>4. File = FlattenSeq(parts) \o t
  BY <1>3 DEF File, t
<1> HIDE DEF n
<1>5. parts \in Seq(Seq(Cells)) /\ Len(parts) = n /\ \A i \in 1..n : parts[i] = Member(i - 1)
  <2> DEFINE T == Seq(Cells)
  <2>1. \A i \in 1..n : Member(i - 1) \in T
    BY <1>2
  <2>2. parts = [i \in 1..n |-> Member(i - 1)]
    BY DEF parts
  <2> HIDE DEF T, parts
  <2>3. parts \in [1..n -> T] /\ \A i \in 1..n : parts[i] = Member(i - 1)
    BY <2>1, <2>2
  <2>4. parts \in Seq(T) /\ Len(parts) = n
    <3>1. n \in Nat
      BY <1>1
    <3>2. parts \in Seq(T)
      BY <2>3, <3>1, SeqDef
    <3>3. DOMAIN parts = 1..n
      BY <2>3
    <3>4. QED
      BY <3>1, <3>2, <3>3, LenProperties
  <2>5. QED
    BY <2>3, <2>4 DEF T
<1> HIDE DEF parts
<1>6. PICK f \in [0..n -> Seq(Cells)] : Stages(parts, f)
  BY <1>5, Flattening
<1>7. /\ f[0] = <<>> /\ FlattenSeq(parts) = f[n]
      /\ \A i \in 1..n : f[i] = f[i - 1] \o parts[i]
  BY <1>5, <1>6 DEF Stages
<1> DEFINE o == [i \in 0..n |-> Len(f[i])]
<1>8. \A i \in 0..n : f[i] \in Seq(Cells) /\ o[i] = Len(f[i]) /\ o[i] \in Nat
  BY <1>6
<1>9. o[0] = 0 /\ \A i \in 1..n : o[i] = o[i - 1] + members[i]
  <2>1. o[0] = 0
    BY <1>1, <1>7, <1>8
  <2>2. ASSUME NEW i \in 1..n PROVE o[i] = o[i - 1] + members[i]
    <3> DEFINE h == i - 1
    <3>1. i \in 0..n /\ h \in 0..n
      BY <1>1
    <3>2. f[i] = f[h] \o parts[i] /\ parts[i] = Member(h) /\ Len(Member(h)) = members[i]
      BY <1>2, <1>5, <1>7
    <3> HIDE DEF h, o
    <3>3. f[h] \in Seq(Cells) /\ parts[i] \in Seq(Cells)
      BY <1>5, <1>8, <3>1
    <3>4. Len(f[i]) = Len(f[h]) + Len(parts[i])
      <4> DEFINE u == f[h]
                 v == parts[i]
      <4>1. u \in Seq(Cells) /\ v \in Seq(Cells) /\ f[i] = u \o v
        BY <3>2, <3>3
      <4> HIDE DEF u, v
      <4>2. Len(u \o v) = Len(u) + Len(v)
        BY <4>1, ConcatProperties, Zenon
      <4>3. QED
        BY <4>1, <4>2 DEF u, v
    <3>5. o[i] = o[h] + members[i]
      BY <1>8, <3>1, <3>2, <3>4
    <3>6. QED
      BY <3>5 DEF h
  <2>3. QED
    BY <2>1, <2>2
<1>10. o = [i \in 0..n |-> o[i]]
  OBVIOUS
<1> HIDE DEF o
<1> DEFINE m == o[n]
<1>11. f[n] \in Seq(Cells) /\ Len(f[n]) = m /\ m \in Nat
  BY <1>1, <1>8
<1> HIDE DEF m
<1>12. /\ Len(File) = m + n + 4
       /\ \A k \in 1..(n + 4) : File[m + k] = t[k]
  <2> DEFINE s == f[n]
  <2>1. s \in Seq(Cells) /\ Len(s) = m /\ File = s \o t
    BY <1>4, <1>7, <1>11
  <2> HIDE DEF s
  <2>4. Len(s) = m /\ Len(t) = n + 4 /\ m \in Nat /\ n \in Nat
    BY <1>1, <1>11, <2>1
  <2>2. Len(s \o t) = Len(s) + Len(t)
        /\ \A k \in 1..(Len(s) + Len(t)) : (s \o t)[k] = IF k <= Len(s) THEN s[k] ELSE t[k - Len(s)]
    BY <1>1, <2>1, ConcatProperties, Zenon
  <2>3. File = s \o t /\ Len(File) = m + n + 4
    BY <2>1, <2>2, <2>4
  <2>5. ASSUME NEW k \in 1..(n + 4) PROVE File[m + k] = t[k]
    <3> DEFINE i == m + k
    <3>1. i \in 1..(Len(s) + Len(t)) /\ ~(i <= Len(s)) /\ i - Len(s) = k
      BY <2>4
    <3> HIDE DEF i
    <3>2. File[i] = t[k]
      BY <2>1, <2>2, <3>1
    <3>3. QED
      BY <3>2 DEF i
  <2>6. QED
    BY <2>3, <2>5
<1>13. \A i \in 1..n : File[m + i].word = members[i]
  BY <1>1, <1>12
<1>14. /\ File[m + n + 1].word = BLOCK_SIZE /\ File[m + n + 2].word = LastBlockSize
       /\ File[m + n + 3].word = n /\ File[m + n + 4].word = MAGIC
  <2>1. \A j \in 1..4 : n + j \in 1..(n + 4) /\ m + (n + j) = m + n + j
    BY <1>1, <1>11
  <2>2. \A j \in 1..4 : File[m + n + j] = t[n + j]
    BY <1>12, <2>1
  <2>3. QED
    BY <1>1, <2>2
<1> DEFINE g == CHOOSE h : Adds(n, m, h)
<1>15. Adds(n, m, o)
  <2>1. \A i \in 0..n : o[i] = IF i = 0 THEN 0 ELSE o[i - 1] + File[m + i].word
    BY <1>1, <1>9, <1>13
  <2>2. o = [i \in 0..n |-> IF i = 0 THEN 0 ELSE o[i - 1] + File[m + i].word]
    BY <1>10, <2>1, Zenon
  <2>3. QED
    BY <2>2, Zenon DEF Adds
<1>16. g = o
  <2>1. Adds(n, m, g)
    BY <1>15
  <2> HIDE DEF g
  <2>2. g = [i \in 0..n |-> IF i = 0 THEN 0 ELSE g[i - 1] + File[m + i].word]
    BY <2>1, Zenon DEF Adds
  <2>3. \A i \in 0..n : g[i] = IF i = 0 THEN 0 ELSE g[i - 1] + File[m + i].word
    BY <2>2, Zenon
  <2> DEFINE P == {i \in 0..n : g[i] = o[i]}
  <2>4. 0 \in P
    BY <1>1, <1>9, <2>3
  <2>5. ASSUME NEW i \in 0..(n - 1), i \in P PROVE i + 1 \in P
    <3> DEFINE j == i + 1
    <3>1. j \in 1..n /\ j \in 0..n /\ j - 1 = i /\ j # 0
      BY <1>1
    <3> HIDE DEF j
    <3>2. g[j] = g[i] + members[j] /\ o[j] = o[i] + members[j]
      BY <1>9, <1>13, <2>3, <3>1
    <3>3. j \in P
      BY <2>5, <3>1, <3>2
    <3>4. QED
      BY <3>3 DEF j
  <2> HIDE DEF P
  <2>6. 0..n \subseteq P
    BY <1>1, <2>4, <2>5, UpTo
  <2>7. \A i \in 0..n : g[i] = o[i]
    BY <2>6 DEF P
  <2>8. g = [i \in 0..n |-> g[i]]
    BY <2>2, Zenon
  <2>9. QED
    BY <1>10, <2>7, <2>8, Zenon
<1>17. ReadTrailer = {[offsets |-> o, blockSize |-> BLOCK_SIZE, size |-> size]}
  <2> DEFINE footAt == Len(File) - FOOTER
             count == File[footAt + 3].word
             tableAt == footAt - count
             c == CHOOSE h : Adds(count, tableAt, h)
             total == IF count = 0 THEN 0
                      ELSE (count - 1) * File[footAt + 1].word + File[footAt + 2].word
  <2>1. ReadTrailer = IF \/ Len(File) < FOOTER
                         \/ File[Len(File)].word # MAGIC
                         \/ tableAt < 0
                         \/ c[count] # tableAt
                      THEN {}
                      ELSE {[offsets |-> c, blockSize |-> File[footAt + 1].word, size |-> total]}
    BY Zenon DEF ReadTrailer, Adds
  <2>2. footAt = m + n
    BY <1>1, <1>11, <1>12 DEF FOOTER
  <2>3. count = n
    BY <1>14, <2>2
  <2>4. tableAt = m
    BY <1>1, <1>11, <2>2, <2>3
  <2>5. c = g
    BY <2>3, <2>4
  <2>6. total = size
    <3>1. File[footAt + 1].word = BLOCK_SIZE /\ File[footAt + 2].word = LastBlockSize
      BY <1>14, <2>2
    <3>2. size \in Nat
      BY DEF Stored
    <3> HIDE DEF footAt, count
    <3>3. QED
      BY <1>1, <2>3, <3>1, <3>2, BlocksCover
  <2>7. Len(File) >= FOOTER /\ File[Len(File)].word = MAGIC
    BY <1>1, <1>11, <1>12, <1>14 DEF FOOTER
  <2>8. File[footAt + 1].word = BLOCK_SIZE
    BY <1>14, <2>2
  <2>9. m >= 0 /\ c[count] = tableAt
    <3>1. c[count] = o[n]
      BY <1>16, <2>3, <2>5
    <3>2. QED
      BY <1>11, <2>4, <3>1 DEF m
  <2> HIDE DEF footAt, count, tableAt, c, total, g
  <2>10. ~(Len(File) < FOOTER) /\ ~(tableAt < 0)
    BY <1>1, <1>11, <1>12, <2>4, <2>7, <2>9 DEF FOOTER
  <2>11. QED
    BY <1>16, <2>1, <2>5, <2>6, <2>7, <2>8, <2>9, <2>10
<1>18. ASSUME NEW b \in 0..(n - 1) PROVE SubSeq(File, o[b] + 1, o[b + 1]) = Member(b)
  <2> DEFINE i == b + 1
  <2>1. i \in 1..n /\ i \in 0..n /\ i - 1 = b /\ b \in 0..n
    BY <1>1
  <2> HIDE DEF i
  <2>2. SubSeq(f[n] \o t, Len(f[i - 1]) + 1, Len(f[i])) = parts[i]
    <3>1. f \in [0..Len(parts) -> Seq(Cells)] /\ i \in 1..Len(parts)
      BY <1>5, <1>6, <2>1
    <3>2. SubSeq(f[Len(parts)] \o t, Len(f[i - 1]) + 1, Len(f[i])) = parts[i]
      BY <1>1, <1>5, <1>6, <3>1, PartIsThere
    <3>3. QED
      BY <1>5, <3>2
  <2>3. SubSeq(File, o[b] + 1, o[i]) = Member(b)
    BY <1>4, <1>5, <1>7, <1>8, <2>1, <2>2
  <2>4. QED
    BY <2>3 DEF i
<1>19. QED
  BY <1>1, <1>17, <1>18
-----------------------------------------------------------------------------
\* The bytes asked for are those of the range, which may be empty only for a
\* payload that is.
Resolved ==
    /\ range.start \in Nat /\ range.end \in Int
    /\ range.end <= size - 1
    /\ range.start <= range.end \/ (header = NoHeader /\ range.start = 0)
    /\ Requested = range.start..range.end

\* The blocks before the next one have been delivered, and with the next one
\* a pull makes progress.
Delivered ==
    IF encoding = "raw" THEN body = <<>>
    ELSE /\ block \in Nat
         /\ range.start < (block + 1) * BLOCK_SIZE
         /\ body = Plain(range.start, Least(range.end, block * BLOCK_SIZE - 1))

(***************************************************************************)
(* RangeIsExact says what a body holds and not which block comes next; it  *)
(* follows from a body that is, after every pull, the range up to the next *)
(* block.                                                                  *)
(***************************************************************************)
BlockInv ==
    /\ Stored
    /\ header \in Headers
    /\ status = "idle" => body = <<>>
    /\ torn /\ encoding = "gzip" => status \in {"idle", "absent"}
    /\ ~torn =>
        /\ status \in {"idle", "reading", "closed", "unsatisfiable"}
        /\ status = "unsatisfiable" => header # NoHeader /\ Requested = {} /\ body = <<>>
        /\ status \in {"reading", "closed"} => Resolved
        /\ status = "reading" => Delivered
        /\ status = "closed" => body = Plain(range.start, range.end)

(* A response that delivered the range up to some byte, or all of it, is   *)
(* exact.                                                                  *)
LEMMA BlockInvIsExact == BlockInv => RangeIsExact
<1> SUFFICES ASSUME BlockInv, status # "idle", ~torn PROVE RangeIsExact
  BY DEF BlockInv, RangeIsExact
<1>1. status \in {"reading", "closed", "unsatisfiable"}
  BY DEF BlockInv
<1>2. CASE status = "unsatisfiable"
  <2>1. Range(body) = {} /\ DOMAIN body = {}
    BY <1>2 DEF BlockInv, Range
  <2>2. QED
    BY <1>2, <2>1, Zenon DEF BlockInv, RangeIsExact
<1>3. CASE status \in {"reading", "closed"}
  <2>1. Resolved
    BY <1>3 DEF BlockInv
  <2>2. size \in Nat /\ BLOCK_SIZE \in Nat
    BY BlockAssumption DEF BlockInv, Stored
  <2>3. header # NoHeader => Requested # {}
    BY <2>1 DEF Resolved
  <2>4. PICK to \in Int : body = Plain(range.start, to) /\ to <= range.end /\ (status = "closed" => to = range.end)
    <3>1. CASE status = "closed"
      BY <2>1, <3>1 DEF BlockInv, Resolved
    <3>2. CASE status = "reading" /\ encoding = "raw"
      <4>1. body = <<>>
        BY <3>2 DEF BlockInv, Delivered
      <4> DEFINE none == Least(range.start - 1, range.end)
      <4>2. none \in Int /\ none <= range.end /\ none - range.start + 1 <= 0
        BY <2>1 DEF Resolved, Least
      <4>3. Greatest(0, none - range.start + 1) = 0
        BY <2>1, <4>2 DEF Greatest, Resolved
      <4> HIDE DEF none
      <4>4. Plain(range.start, none) = <<>>
        <5>1. range.start \in Int
          BY <2>1 DEF Resolved
        <5>2. Plain(range.start, none) \in Seq(Int) /\ Len(Plain(range.start, none)) = 0
          BY <4>2, <4>3, <5>1, PlainIsSeq
        <5>3. QED
          BY <5>2, EmptySeq
      <4>5. QED
        BY <3>2, <4>1, <4>2, <4>4
    <3>3. CASE status = "reading" /\ encoding # "raw"
      <4> DEFINE last == Least(range.end, block * BLOCK_SIZE - 1)
      <4>1. block \in Nat /\ body = Plain(range.start, last)
        BY <3>3 DEF BlockInv, Delivered
      <4>2. block * BLOCK_SIZE \in Int
        BY <2>2, <4>1
      <4>3. last \in Int /\ last <= range.end
        BY <2>1, <4>2 DEF Resolved, Least
      <4> HIDE DEF last
      <4>4. QED
        BY <3>3, <4>1, <4>3
    <3>4. QED
      BY <1>3, <3>1, <3>2, <3>3
  <2>5. range.start \in Int
    BY <2>1 DEF Resolved
  <2>6. Range(body) = range.start..to /\ \A i, j \in DOMAIN body : i < j => body[i] < body[j]
    BY <2>4, <2>5, PlainIsInOrder
  <2>7. Range(body) \subseteq Requested
    BY <2>1, <2>4, <2>6 DEF Resolved
  <2>8. ASSUME NEW p \in Requested \ Range(body) PROVE status # "closed" /\ \A q \in Range(body) : q < p
    <3>1. p \in range.start..range.end /\ p \notin range.start..to
      BY <2>1, <2>6 DEF Resolved
    <3>2. p > to /\ to # range.end
      BY <2>1, <2>4, <3>1 DEF Resolved
    <3>3. QED
      BY <2>4, <2>6, <3>1, <3>2
  <2>9. QED
    BY <1>1, <1>3, <2>3, <2>6, <2>7, <2>8, Zenon DEF RangeIsExact
<1>4. QED
  BY <1>1, <1>2, <1>3
-----------------------------------------------------------------------------
LEMMA BlockInitInv == BlockInit => BlockInv
<1> SUFFICES ASSUME BlockInit PROVE BlockInv
  OBVIOUS
<1>1. Stored /\ status = "idle" /\ body = <<>> /\ header = NoHeader
  BY DEF BlockInit, Stored
<1>2. header \in Headers
  BY <1>1 DEF Headers
<1>3. QED
  BY <1>1, <1>2 DEF BlockInv

(* What parseRange makes of a header is what the header asks for. *)
LEMMA ParseRangeIsRequested ==
    ASSUME header \in Headers, header # NoHeader, size \in Nat
    PROVE  \/ ParseRange(header, size) = {} /\ Requested = {}
           \/ \E r : /\ ParseRange(header, size) = {r}
                     /\ r.start \in Nat /\ r.end \in Int
                     /\ r.start <= r.end /\ r.end <= size - 1
                     /\ Requested = r.start..r.end
<1>1. CASE header = Unusable
  <2>1. header.kind = "unusable"
    BY <1>1 DEF Unusable
  <2>2. ParseRange(header, size) = {}
    BY <2>1 DEF ParseRange
  <2>3. Requested = {}
    BY <1>1 DEF Requested
  <2>4. QED
    BY <2>2, <2>3
<1>2. CASE header # Unusable
  <2>1. /\ header.kind = "bytes"
        /\ header.first = Blank \/ header.first \in Nat
        /\ header.last = Blank \/ header.last \in Nat
    BY <1>2, BlockAssumption DEF Headers
  <2> DEFINE start == IF header.first # Blank THEN header.first
                      ELSE IF header.last = Blank THEN size ELSE Greatest(0, size - header.last)
             end == IF header.first = Blank \/ header.last = Blank THEN size - 1 ELSE Least(size - 1, header.last)
             r == [start |-> start, end |-> end]
  <2>2. start \in Nat /\ end \in Int /\ end <= size - 1
    BY <2>1 DEF Greatest, Least, Blank
  <2>3. Requested = start..end
    <3>1. Requested = {p \in 0..(size - 1) :
                          IF header.first = Blank THEN header.last # Blank /\ p >= size - header.last
                          ELSE p >= header.first /\ (header.last = Blank \/ p <= header.last)}
      BY <1>2 DEF Requested
    <3>2. QED
      BY <2>1, <3>1 DEF Greatest, Least, Blank
  <2>4. ParseRange(header, size) = IF start > end THEN {} ELSE {r}
    BY <2>1 DEF ParseRange
  <2>5. r.start = start /\ r.end = end
    OBVIOUS
  <2> HIDE DEF start, end, r
  <2>6. CASE start > end
    BY <2>2, <2>3, <2>4, <2>6
  <2>7. CASE start <= end
    <3>1. ~(start > end)
      BY <2>2, <2>7
    <3>2. ParseRange(header, size) = {r}
      BY <2>4, <3>1
    <3>3. QED
      BY <2>2, <2>3, <2>5, <2>7, <3>2
  <2>8. QED
    BY <2>2, <2>6, <2>7
<1>3. QED
  BY <1>1, <1>2

(* getBlob starts with nothing delivered and the range asked for. *)
LEMMA GetBlobKeepsInv == ASSUME BlockInv, NEW h \in Headers, GetBlob(h) PROVE BlockInv'
<1>1. /\ status = "idle" /\ header' = h /\ body = <<>>
      /\ UNCHANGED <<size, members, encoding, torn, body>>
  BY DEF GetBlob, BlockInv
<1>2. Stored /\ Stored' /\ header' \in Headers /\ size \in Nat /\ BLOCK_SIZE \in Nat \ {0}
  BY <1>1, BlockAssumption DEF BlockInv, Stored, Blocks
<1>3. CASE torn
  <2>1. ASSUME encoding = "gzip" PROVE status' = "absent"
    <3>1. Len(File) < FOOTER
      BY <1>3 DEF File, FOOTER
    <3>2. ReadTrailer = {}
      BY <3>1, Zenon DEF ReadTrailer
    <3>3. ~Resolves
      BY <2>1, <3>2 DEF Resolves
    <3>4. QED
      BY <3>3 DEF GetBlob
  <2>2. status' # "idle"
    BY DEF GetBlob
  <2>3. QED
    BY <1>1, <1>2, <1>3, <2>1, <2>2 DEF BlockInv
<1>4. CASE ~torn
  <2>1. Resolves /\ ObjectSize = size
    <3>1. CASE encoding = "raw"
      <4>1. File = Plain(0, size - 1) /\ size - 1 \in Int
        BY <1>2, <1>4, <3>1 DEF File
      <4>2. Greatest(0, size - 1 - 0 + 1) = size
        BY <1>2 DEF Greatest
      <4>3. Len(File) = size
        <5> DEFINE to == size - 1
        <5>1. to \in Int /\ 0 \in Int /\ Greatest(0, to - 0 + 1) = size
          BY <1>2, <4>2
        <5> HIDE DEF to
        <5>2. Len(Plain(0, to)) = size
          BY <5>1, PlainIsSeq
        <5>3. QED
          BY <4>1, <5>2 DEF to
      <4>4. QED
        BY <3>1, <4>3 DEF Resolves, ObjectSize
    <3>2. CASE encoding = "gzip"
      <4>1. PICK o : ReadTrailer = {[offsets |-> o, blockSize |-> BLOCK_SIZE, size |-> size]}
        BY <1>2, <1>4, <3>2, Container
      <4>2. Index = [offsets |-> o, blockSize |-> BLOCK_SIZE, size |-> size]
        BY <4>1 DEF Index
      <4>3. Index.size = size
        BY <4>2
      <4>4. QED
        BY <3>2, <4>1, <4>3 DEF Resolves, ObjectSize
    <3>3. QED
      BY <1>2, <3>1, <3>2 DEF Stored
  <2> DEFINE asked == IF h = NoHeader THEN {[start |-> 0, end |-> size - 1]} ELSE ParseRange(h, size)
  <2>2. \/ asked = {} /\ status' = "unsatisfiable"
        \/ range' \in asked /\ status' = "reading" /\ block' = range'.start \div BLOCK_SIZE
    BY <2>1 DEF GetBlob
  <2>3. \/ asked = {} /\ h # NoHeader /\ Requested' = {}
        \/ /\ asked # {}
           /\ \A r \in asked : /\ r.start \in Nat /\ r.end \in Int
                               /\ r.end <= size - 1
                               /\ r.start <= r.end \/ (h = NoHeader /\ r.start = 0)
                               /\ Requested' = r.start..r.end
    <3>1. CASE h = NoHeader
      <4>1. Requested' = 0..(size - 1)
        BY <1>1, <3>1 DEF Requested
      <4> DEFINE all == [start |-> 0, end |-> size - 1]
      <4>2. asked = {all} /\ all.start = 0 /\ all.end = size - 1
        BY <3>1
      <4> HIDE DEF asked, all
      <4>3. asked # {} /\ \A r \in asked : r.start = 0 /\ r.end = size - 1
        BY <4>2
      <4>4. QED
        BY <1>2, <3>1, <4>1, <4>3
    <3>2. CASE h # NoHeader
      <4>1. (header \in Headers /\ header # NoHeader /\ size \in Nat =>
               \/ ParseRange(header, size) = {} /\ Requested = {}
               \/ \E r : /\ ParseRange(header, size) = {r}
                         /\ r.start \in Nat /\ r.end \in Int
                         /\ r.start <= r.end /\ r.end <= size - 1
                         /\ Requested = r.start..r.end)'
        BY ParseRangeIsRequested, PTL
      <4>2. size' = size /\ header' = h /\ ParseRange(h, size)' = ParseRange(h, size)
        BY <1>1 DEF ParseRange
      <4>3. QED
        BY <1>1, <1>2, <3>2, <4>1, <4>2
    <3>3. QED
      BY <3>1, <3>2
  <2> HIDE DEF asked
  <2>4. CASE asked = {} /\ status' = "unsatisfiable"
    <3>1. h # NoHeader /\ Requested' = {}
      BY <2>3, <2>4
    <3>2. QED
      BY <1>1, <1>2, <1>4, <2>4, <3>1 DEF BlockInv
  <2>5. CASE range' \in asked /\ status' = "reading" /\ block' = range'.start \div BLOCK_SIZE
    <3>1. Resolved'
      BY <1>1, <2>3, <2>5 DEF Resolved
    <3>2. Delivered'
      <4> DEFINE a == range'.start
                 b == block'
      <4>1. a \in Nat /\ range'.end \in Int
        BY <3>1 DEF Resolved
      <4>2. b = a \div BLOCK_SIZE
        BY <2>5
      <4> HIDE DEF a, b
      <4>3. b \in Int /\ a % BLOCK_SIZE \in 0..(BLOCK_SIZE - 1) /\ a = BLOCK_SIZE * b + (a % BLOCK_SIZE)
        BY <1>2, <4>1, <4>2, Division
      <4>12. BLOCK_SIZE * 0 <= a
        BY <1>2, <4>1
      <4>4. b \in Nat
        BY <1>2, <4>1, <4>2, <4>3, <4>12, WithinQuotient
      <4>5. b * BLOCK_SIZE = BLOCK_SIZE * b /\ (b + 1) * BLOCK_SIZE = BLOCK_SIZE * b + BLOCK_SIZE /\ BLOCK_SIZE * b \in Int
        BY <1>2, <4>4
      <4>6. a < (b + 1) * BLOCK_SIZE /\ b * BLOCK_SIZE - 1 < a
        BY <1>2, <4>1, <4>3, <4>5
      <4> DEFINE to == Least(range'.end, b * BLOCK_SIZE - 1)
      <4>7. to \in Int /\ to - a + 1 <= 0
        BY <4>1, <4>5, <4>6 DEF Least
      <4> HIDE DEF to
      <4>8. Plain(a, to) = <<>>
        <5>1. Greatest(0, to - a + 1) = 0
          BY <4>1, <4>7 DEF Greatest
        <5>2. a \in Int
          BY <4>1
        <5>3. Plain(a, to) \in Seq(Int) /\ Len(Plain(a, to)) = 0
          BY <4>7, <5>1, <5>2, PlainIsSeq
        <5>4. QED
          BY <5>3, EmptySeq
      <4>9. body' = <<>> /\ encoding' = encoding
        BY <1>1
      <4>10. body' = Plain(a, to)
        BY <4>8, <4>9
      <4>11. QED
        BY <4>4, <4>6, <4>9, <4>10 DEF Delivered, a, b, to
    <3>3. QED
      BY <1>1, <1>2, <1>4, <2>5, <3>1, <3>2 DEF BlockInv
  <2>6. QED
    BY <2>2, <2>4, <2>5
<1>5. QED
  BY <1>3, <1>4

(* An uncompressed object is read in one piece. *)
LEMMA ReadsRawKeepsInv == ASSUME BlockInv, ReadsRaw PROVE BlockInv'
<1>1. /\ status = "reading" /\ encoding = "raw" /\ status' = "closed"
      /\ UNCHANGED <<size, members, encoding, torn, header, range, block>>
  BY DEF ReadsRaw
<1>2. Stored' /\ header' \in Headers /\ size \in Nat
  BY <1>1 DEF BlockInv, Stored, Blocks
<1>3. CASE torn
  BY <1>1, <1>2, <1>3 DEF BlockInv
<1>4. CASE ~torn
  <2>1. Resolved /\ Resolved'
    BY <1>1, <1>4 DEF BlockInv, Resolved, Requested
  <2> DEFINE a == range.start
             b == range.end
  <2>2. a \in Nat /\ b \in Int /\ b <= size - 1 /\ (a <= b \/ a = 0)
    BY <2>1 DEF Resolved
  <2>3. body' = SubSeq(Plain(0, size - 1), a + 1, b + 1)
    BY <1>1, <1>4 DEF ReadsRaw, File
  <2> HIDE DEF a, b
  <2>4. body' = Plain(a, b)
    <3>1. CASE b + 1 < a + 1
      <4>1. SubSeq(Plain(0, size - 1), a + 1, b + 1) = <<>>
        BY <2>2, <3>1, SubSeqEmpty
      <4>2. Greatest(0, b - a + 1) = 0 /\ a \in Int
        BY <2>2, <3>1 DEF Greatest
      <4>3. Plain(a, b) \in Seq(Int) /\ Len(Plain(a, b)) = 0
        BY <2>2, <4>2, PlainIsSeq
      <4>4. QED
        BY <2>3, <4>1, <4>3, EmptySeq
    <3>2. CASE a <= b
      <4> DEFINE j == b + 1
                 n == size - 1
      <4>1. j \in Nat /\ a <= j /\ n \in Int /\ j <= n - 0 + 1 /\ 0 \in Int
        BY <1>2, <2>2, <3>2
      <4>2. 0 + a = a /\ 0 + j - 1 = b
        BY <2>2
      <4> HIDE DEF j, n
      <4>3. SubSeq(Plain(0, n), a + 1, j) = Plain(0 + a, 0 + j - 1)
        BY <2>2, <4>1, PieceOfPlain
      <4>4. QED
        BY <2>3, <4>2, <4>3 DEF j, n
    <3>3. QED
      BY <2>2, <3>1, <3>2
  <2>5. QED
    BY <1>1, <1>2, <1>4, <2>1, <2>4 DEF BlockInv, a, b
<1>5. QED
  BY <1>3, <1>4

(* A pull delivers the range up to the end of its block, and something.     *)
LEMMA PullKeepsInv == ASSUME BlockInv, Pull PROVE BlockInv'
<1>1. /\ status = "reading" /\ encoding = "gzip"
      /\ UNCHANGED <<size, members, encoding, torn, header, range>>
  BY DEF Pull
<1>2. ~torn /\ ~torn'
  BY <1>1 DEF BlockInv, Stored
<1>3. Stored /\ Stored' /\ header' \in Headers /\ size \in Nat /\ BLOCK_SIZE \in Nat \ {0}
  BY <1>1, BlockAssumption DEF BlockInv, Stored, Blocks
<1>4. Resolved /\ Resolved' /\ Delivered
  BY <1>1, <1>2 DEF BlockInv, Resolved, Requested
<1> DEFINE a == range.start
           z == range.end
           m == block * BLOCK_SIZE
<1>5. a \in Nat /\ z \in Int /\ z <= size - 1 /\ (a <= z \/ a = 0)
  BY <1>4 DEF Resolved
<1>6. block \in Nat /\ a < (block + 1) * BLOCK_SIZE /\ body = Plain(a, Least(z, m - 1))
  BY <1>1, <1>4 DEF Delivered
<1>7. m \in Nat /\ m = BLOCK_SIZE * block /\ (block + 1) * BLOCK_SIZE = m + BLOCK_SIZE
  BY <1>3, <1>6
<1>8. block <= z \div BLOCK_SIZE <=> m <= z
  BY <1>3, <1>5, <1>6, <1>7, WithinQuotient
<1>9. PICK o : /\ ReadTrailer = {[offsets |-> o, blockSize |-> BLOCK_SIZE, size |-> size]}
               /\ \A b \in 0..(Blocks(size) - 1) : SubSeq(File, o[b] + 1, o[b + 1]) = Member(b)
  BY <1>1, <1>2, <1>3, Container
<1>10. Index.offsets = o /\ Index.blockSize = BLOCK_SIZE
  <2>1. Index = [offsets |-> o, blockSize |-> BLOCK_SIZE, size |-> size]
    BY <1>9 DEF Index
  <2>2. QED
    BY <2>1
<1>11. CASE block > z \div BLOCK_SIZE
  <2>1. status' = "closed" /\ body' = body
    BY <1>10, <1>11 DEF Pull
  <2>2. z \div BLOCK_SIZE \in Int
    BY <1>3, <1>5, Division
  <2> HIDE DEF a, z, m
  <2>3. m > z
    BY <1>5, <1>6, <1>7, <1>8, <1>11, <2>2
  <2>4. Least(z, m - 1) = z
    BY <1>5, <1>7, <2>3 DEF Least
  <2>5. body' = Plain(range'.start, range'.end)
    BY <1>1, <1>6, <2>1, <2>4 DEF a, z
  <2>6. QED
    BY <1>1, <1>2, <1>3, <1>4, <2>1, <2>5 DEF BlockInv
<1>12. CASE ~(block > z \div BLOCK_SIZE)
  <2>1. m <= z
    <3>1. z \div BLOCK_SIZE \in Int
      BY <1>3, <1>5, Division
    <3> HIDE DEF z, m
    <3>2. QED
      BY <1>6, <1>8, <1>12, <3>1
  <2>2. block \in 0..(Len(members) - 1) /\ block \in 0..(Blocks(size) - 1)
    <3>1. BLOCK_SIZE * block < size
      BY <1>3, <1>5, <1>7, <2>1
    <3>2. block < Blocks(size) /\ Blocks(size) \in Nat
      BY <1>3, <1>6, <3>1, BlocksCover
    <3>3. Len(members) = Blocks(size)
      BY <1>1, <1>3, TrailerIsSeq
    <3>4. QED
      BY <1>6, <3>2, <3>3
  <2> DEFINE plain == Gunzip(SubSeq(File, Index.offsets[block] + 1, Index.offsets[block + 1]))
             head == Greatest(0, a - m)
             to == Least(size, m + BLOCK_SIZE) - 1
             tail == Least(to - m + 1, z - m + 1)
             last == m + tail - 1
  <2>3. plain = Plain(m, to)
    <3>1. plain = BlockPlain(block)
      BY <1>1, <1>3, <1>9, <1>10, <2>2, MembersDecode
    <3>2. BlockPlain(block) = Plain(m, to)
      BY <1>7 DEF BlockPlain
    <3>3. QED
      BY <3>1, <3>2
  <2>4. to \in Int /\ m <= to /\ to <= m + BLOCK_SIZE - 1
        /\ (to = m + BLOCK_SIZE - 1 \/ to = size - 1)
    <3> HIDE DEF m, z
    <3>1. QED
      BY <1>3, <1>5, <1>7, <2>1 DEF Least
  <2>5. Len(plain) = to - m + 1
    <3>1. Greatest(0, to - m + 1) = to - m + 1
      <4> HIDE DEF to, m
      <4>1. QED
        BY <1>7, <2>4 DEF Greatest
    <3> HIDE DEF to, m, plain
    <3>2. m \in Int /\ to \in Int
      BY <1>7, <2>4
    <3>3. Len(Plain(m, to)) = to - m + 1
      BY <3>1, <3>2, PlainIsSeq
    <3>4. QED
      BY <2>3, <3>3
  <2>6. /\ block' = block + 1
        /\ body' = body \o SubSeq(plain, head + 1, tail)
        /\ status' = IF tail > head THEN "reading" ELSE "starved"
    <3>1. TailOf(plain) = tail
      BY <1>10, <2>5 DEF TailOf
    <3>2. QED
      BY <1>10, <1>12, <3>1 DEF Pull
  <2> HIDE DEF a, z, m, plain, to
  <2>7. head \in Nat /\ tail \in Nat /\ head < tail /\ tail <= to - m + 1
    BY <1>3, <1>5, <1>6, <1>7, <2>1, <2>4 DEF Greatest, Least
  <2>8. m + head = Greatest(m, a) /\ last = Least(z, m + BLOCK_SIZE - 1) /\ last \in Int
    BY <1>3, <1>5, <1>7, <2>1, <2>4, <2>7 DEF Greatest, Least
  <2> HIDE DEF head, tail
  <2>9. SubSeq(plain, head + 1, tail) = Plain(Greatest(m, a), last)
    <3>1. m \in Int /\ head <= tail
      BY <1>7, <2>7
    <3>2. SubSeq(Plain(m, to), head + 1, tail) = Plain(m + head, m + tail - 1)
      BY <2>4, <2>7, <3>1, PieceOfPlain
    <3>3. QED
      BY <2>3, <2>8, <3>2
  <2>10. last = m + tail - 1
    OBVIOUS
  <2> HIDE DEF last
  <2>11. body' = Plain(a, last)
    <3>1. Least(z, m - 1) = m - 1
      BY <1>5, <1>7, <2>1 DEF Least
    <3>2. body' = Plain(a, m - 1) \o Plain(Greatest(m, a), last)
      BY <1>6, <2>6, <2>9, <3>1
    <3>3. CASE a <= m
      <4>1. Greatest(m, a) = m
        BY <1>5, <1>7, <3>3 DEF Greatest
      <4>2. a \in Int /\ m \in Int /\ m <= last + 1
        BY <1>5, <1>7, <2>7, <2>8, <2>10
      <4>3. QED
        BY <2>8, <3>2, <3>3, <4>1, <4>2, PlainJoins
    <3>4. CASE a > m
      <4>1. Greatest(m, a) = a
        BY <1>5, <1>7, <3>4 DEF Greatest
      <4> DEFINE n == m - 1
      <4>2. a \in Int /\ n \in Int /\ Greatest(0, n - a + 1) = 0
        BY <1>5, <1>7, <3>4 DEF Greatest
      <4> HIDE DEF n
      <4>3. Plain(a, n) \in Seq(Int) /\ Len(Plain(a, n)) = 0
        BY <4>2, PlainIsSeq
      <4>4. Plain(a, n) = <<>>
        BY <4>3, EmptySeq
      <4>5. Plain(a, last) \in Seq(Int)
        BY <2>8, <4>2, PlainIsSeq
      <4>6. <<>> \o Plain(a, last) = Plain(a, last)
        BY <4>5, ConcatEmptySeq
      <4>7. QED
        BY <3>2, <4>1, <4>4, <4>6 DEF n
    <3>5. QED
      BY <1>5, <1>7, <3>3, <3>4
  <2>12. Delivered'
    <3>1. block' \in Nat /\ block' * BLOCK_SIZE = m + BLOCK_SIZE
      BY <1>3, <1>6, <1>7, <2>6
    <3>2. (block' + 1) * BLOCK_SIZE = block' * BLOCK_SIZE + BLOCK_SIZE
      BY <1>3, <3>1
    <3> DEFINE y == block' * BLOCK_SIZE
    <3>7. y = m + BLOCK_SIZE /\ (block' + 1) * BLOCK_SIZE = y + BLOCK_SIZE
      BY <3>1, <3>2
    <3>8. range'.start = a /\ range'.end = z
      BY <1>1 DEF a, z
    <3> HIDE DEF y
    <3>3. range'.start < (block' + 1) * BLOCK_SIZE
      BY <1>3, <1>5, <1>6, <1>7, <3>7, <3>8
    <3>4. body' = Plain(range'.start, Least(range'.end, block' * BLOCK_SIZE - 1))
      <4>1. y - 1 = m + BLOCK_SIZE - 1
        BY <1>3, <1>7, <3>7
      <4>2. last = Least(z, y - 1)
        BY <2>8, <4>1
      <4>3. QED
        BY <2>11, <3>8, <4>2 DEF y
    <3>5. encoding' # "raw"
      BY <1>1
    <3>6. QED
      BY <3>1, <3>3, <3>4, <3>5 DEF Delivered
  <2>13. status' = "reading"
    BY <2>6, <2>7
  <2>14. QED
    BY <1>1, <1>2, <1>3, <1>4, <2>12, <2>13 DEF BlockInv
<1>13. QED
  BY <1>11, <1>12

LEMMA BlockStepInv == BlockInv /\ [BlockNext]_blockVars => BlockInv'
<1> SUFFICES ASSUME BlockInv, [BlockNext]_blockVars PROVE BlockInv'
  OBVIOUS
<1>1. CASE \E h \in Headers : GetBlob(h)
  BY <1>1, GetBlobKeepsInv
<1>2. CASE ReadsRaw
  BY <1>2, ReadsRawKeepsInv
<1>3. CASE Pull
  BY <1>3, PullKeepsInv
<1>4. CASE UNCHANGED blockVars
  BY <1>4 DEF blockVars, BlockInv, Stored, Blocks, Resolved, Requested, Delivered
<1>5. QED
  BY <1>1, <1>2, <1>3, <1>4 DEF BlockNext

(* In every reachable state what a body holds fits the block that is next. *)
THEOREM BlockInvIsInvariant == BlockSpec => []BlockInv
<1> QED
  BY BlockInitInv, BlockStepInv, PTL DEF BlockSpec

(* For every block size, payload and range, whatever the blocks compress   *)
(* to: the bytes asked for and no others, in order, and an end.            *)
THEOREM RangesAreExact == BlockSpec => []RangeIsExact
<1> QED
  BY BlockInvIsInvariant, BlockInvIsExact, PTL
-----------------------------------------------------------------------------
Chars == {"CR", "LF", "d", "t"}

(* A sequence that is not empty has a front and a last element, ... *)
LEMMA FrontAndLast ==
    ASSUME NEW S, NEW s \in Seq(S), s # <<>>
    PROVE  Front(s) \in Seq(S) /\ Last(s) \in S /\ s = Append(Front(s), Last(s))
<1> DEFINE n == Len(s)
           u == SubSeq(s, 1, n - 1)
           v == Append(u, s[n])
<1>1. n \in Nat \ {0}
  BY EmptySeq
<1>2. s[n] \in S
  BY <1>1
<1> HIDE DEF n
<1>3. Len(s) = n
  BY DEF n
<1>4. u \in Seq(S) /\ Len(u) = n - 1 /\ \A k \in 1..(n - 1) : u[k] = s[k]
  BY <1>1, <1>3
<1> HIDE DEF u
<1>5. v \in Seq(S) /\ Len(v) = n /\ \A k \in 1..n : v[k] = s[k]
  BY <1>1, <1>2, <1>4
<1> HIDE DEF v
<1>6. v = s
  BY <1>3, <1>5, SeqEqual
<1>7. QED
  BY <1>2, <1>4, <1>6 DEF Front, Last, u, v, n

(* ... which are what was appended to and what was. *)
LEMMA FrontOfAppend ==
    ASSUME NEW S, NEW s \in Seq(S), NEW e \in S
    PROVE  /\ Append(s, e) \in Seq(S) /\ Append(s, e) # <<>>
           /\ Front(Append(s, e)) = s /\ Last(Append(s, e)) = e
<1> DEFINE t == Append(s, e)
           n == Len(s)
<1>1. n \in Nat /\ t \in Seq(S) /\ Len(t) = n + 1 /\ t[n + 1] = e /\ \A k \in 1..n : t[k] = s[k]
  OBVIOUS
<1>2. t # <<>>
  BY AppendProperties
<1> HIDE DEF t
<1> DEFINE u == SubSeq(t, 1, n)
<1>3. u \in Seq(S) /\ Len(u) = n /\ \A k \in 1..n : u[k] = t[k]
  BY <1>1
<1> HIDE DEF u
<1>4. u = s
  BY <1>1, <1>3, SeqEqual DEF n
<1>5. Len(t) - 1 = n
  BY <1>1
<1>6. QED
  BY <1>1, <1>2, <1>4, <1>5 DEF Front, Last, t, u

-----------------------------------------------------------------------------
(* Lines, character by character. *)

Texts == Seq(Chars)
Lists == Seq(Texts)
LineLists == Lists \ {<<>>}

LEMMA AddCharIs ==
    ASSUME NEW A, NEW front \in Seq(Seq(A)), NEW line \in Seq(A)
    PROVE  /\ AddChar(Append(front, line), "LF") = Append(Append(front, line), <<>>)
           /\ Append(Append(front, line), <<>>) \in Seq(Seq(A))
           /\ \A c \in A \ {"LF"} : /\ AddChar(Append(front, line), c) = Append(front, Append(line, c))
                                    /\ Append(front, Append(line, c)) \in Seq(Seq(A))
<1> DEFINE B == Seq(A)
           s == Append(front, line)
           n == Len(front)
<1>1. line \in B /\ front \in Seq(B) /\ <<>> \in B /\ \A c \in A : Append(line, c) \in B
  OBVIOUS
<1> HIDE DEF B
<1>2. n \in Nat /\ s \in Seq(B) /\ Len(s) = n + 1 /\ s[n + 1] = line /\ \A k \in 1..n : s[k] = front[k]
  BY <1>1
<1>3. Append(s, <<>>) \in Seq(B)
  BY <1>1, <1>2
<1>4. AddChar(s, "LF") = Append(s, <<>>)
  BY DEF AddChar
<1> HIDE DEF s
<1>5. ASSUME NEW c \in A \ {"LF"} PROVE AddChar(s, c) = Append(front, Append(line, c)) /\ Append(front, Append(line, c)) \in Seq(B)
  <2> DEFINE l == Append(line, c)
             u == [s EXCEPT ![n + 1] = l]
             v == Append(front, l)
  <2>1. AddChar(s, c) = u
    BY <1>2 DEF AddChar
  <2>2. l \in B
    BY <1>1
  <2> HIDE DEF l
  <2>3. v \in Seq(B) /\ Len(v) = n + 1 /\ v[n + 1] = l /\ \A k \in 1..n : v[k] = front[k]
    BY <1>1, <2>2
  <2>4. u \in Seq(B) /\ Len(u) = n + 1 /\ u[n + 1] = l /\ \A k \in 1..n : u[k] = front[k]
    <3> DEFINE m == n + 1
    <3>1. m \in 1..Len(s) /\ Len(s) = m /\ \A k \in 1..n : k \in 1..m /\ k # m
      BY <1>2
    <3> HIDE DEF m
    <3>2. [s EXCEPT ![m] = l] \in Seq(B) /\ Len([s EXCEPT ![m] = l]) = Len(s)
          /\ \A j \in 1..Len(s) : [s EXCEPT ![m] = l][j] = IF j = m THEN l ELSE s[j]
      BY <1>2, <2>2, <3>1, ExceptSeq
    <3>3. QED
      BY <1>2, <3>1, <3>2 DEF m
  <2> HIDE DEF u, v
  <2>5. \A k \in 1..(n + 1) : u[k] = v[k]
    BY <1>2, <2>3, <2>4
  <2>6. u = v
    BY <2>3, <2>4, <2>5, SeqEqual
  <2>7. QED
    BY <2>1, <2>3, <2>6 DEF l, v
<1>6. QED
  BY <1>3, <1>4, <1>5 DEF s, B

LEMMA AddCharTypes ==
    ASSUME NEW lines \in LineLists, NEW c \in Chars
    PROVE  AddChar(lines, c) \in LineLists
<1>1. PICK front \in Lists, line \in Texts : lines = Append(front, line)
  BY FrontAndLast DEF LineLists, Lists
<1>2. front \in Seq(Seq(Chars)) /\ line \in Seq(Chars)
  BY DEF Lists, Texts
<1>3. CASE c = "LF"
  <2>1. AddChar(lines, c) = Append(lines, <<>>) /\ Append(lines, <<>>) \in Lists
    BY <1>1, <1>2, <1>3, AddCharIs DEF Lists, Texts
  <2>2. Append(lines, <<>>) # <<>>
    <3>1. lines \in Seq(Texts) /\ <<>> \in Texts
      BY DEF LineLists, Lists, Texts
    <3>2. QED
      BY <3>1, FrontOfAppend
  <2>3. QED
    BY <2>1, <2>2 DEF LineLists
<1>4. CASE c # "LF"
  <2>1. AddChar(lines, c) = Append(front, Append(line, c)) /\ Append(line, c) \in Texts
    BY <1>1, <1>2, <1>4, AddCharIs DEF Texts
  <2>2. Append(front, Append(line, c)) \in Lists /\ Append(front, Append(line, c)) # <<>>
    <3>1. front \in Seq(Texts)
      BY DEF Lists
    <3>2. QED
      BY <2>1, <3>1, FrontOfAppend DEF Lists
  <2>3. QED
    BY <2>1, <2>2 DEF LineLists
<1>5. QED
  BY <1>3, <1>4

LineStart == << <<>> >>
LineStep == [c \in Chars |-> [lines \in LineLists |-> AddChar(lines, c)]]
LineStates(data, f) ==
    f = [n \in 0..Len(data) |-> IF n = 0 THEN LineStart ELSE AddChar(f[n - 1], data[n])]

LEMMA LineStepTypes == LineStart \in LineLists /\ LineStep \in [Chars -> [LineLists -> LineLists]]
<1>1. LineStart \in LineLists
  <2>1. <<>> \in Seq(Chars)
    OBVIOUS
  <2> DEFINE T == Seq(Chars)
             e == <<>>
  <2> HIDE DEF T, e
  <2>2. << e >> \in Seq(T) /\ << e >> # <<>>
    BY <2>1 DEF T, e
  <2>3. QED
    BY <2>2 DEF LineStart, LineLists, Lists, Texts, T, e
<1>2. \A c \in Chars : \A lines \in LineLists : AddChar(lines, c) \in LineLists
  BY AddCharTypes
<1>3. QED
  BY <1>1, <1>2 DEF LineStep

LEMMA LinesFold == ASSUME NEW data \in Texts PROVE FoldOf(LineLists, LineStart, LineStep, data, Lines(data))
<1> DEFINE n == Len(data)
           g == CHOOSE h : LineStates(data, h)
           steps == [k \in 1..n |-> LineStep[data[k]]]
<1>1. n \in Nat /\ data \in Seq(Chars) /\ \A k \in 1..n : data[k] \in Chars
  BY DEF Texts
<1>2. PICK f : Goes(LineLists, LineStart, n, steps, f)
  BY <1>1, LineStepTypes, FoldExists
<1> HIDE DEF n
<1>3. f \in [0..n -> LineLists] /\ f[0] = LineStart /\ \A k \in 1..n : f[k] = LineStep[data[k]][f[k - 1]]
  BY <1>2 DEF Goes
<1>4. \A k \in 1..n : f[k] = AddChar(f[k - 1], data[k])
  <2> TAKE k \in 1..n
  <2>1. k - 1 \in 0..n
    BY <1>1
  <2>2. f[k - 1] \in LineLists /\ data[k] \in Chars
    BY <1>1, <1>3, <2>1
  <2>3. QED
    BY <1>3, <2>2 DEF LineStep
<1>5. LineStates(data, f)
  <2>1. f = [k \in 0..n |-> f[k]]
    BY <1>3
  <2>2. \A k \in 0..n : f[k] = IF k = 0 THEN LineStart ELSE AddChar(f[k - 1], data[k])
    BY <1>1, <1>3, <1>4
  <2>3. f = [k \in 0..n |-> IF k = 0 THEN LineStart ELSE AddChar(f[k - 1], data[k])]
    BY <2>1, <2>2, Zenon
  <2>4. QED
    BY <2>3, Zenon DEF LineStates, n
<1>6. LineStates(data, g)
  BY <1>5
<1>7. Lines(data) = g[n]
  BY DEF Lines, LineStates, LineStart, n
<1> HIDE DEF g
<1>8. \A k \in 0..n : g[k] = IF k = 0 THEN LineStart ELSE AddChar(g[k - 1], data[k])
  <2>1. g = [k \in 0..n |-> IF k = 0 THEN LineStart ELSE AddChar(g[k - 1], data[k])]
    BY <1>6, Zenon DEF LineStates, n
  <2>2. QED
    BY <2>1, Zenon
<1>9. g[0] = f[0] /\ \A k \in 1..n : g[k - 1] = f[k - 1] => g[k] = f[k]
  BY <1>1, <1>3, <1>4, <1>8
<1>10. Alike(n, g, f)
  BY <1>1, <1>9, OneRecursion
<1>11. Lines(data) = f[n]
  BY <1>1, <1>7, <1>10 DEF Alike
<1>12. QED
  BY <1>3, <1>11 DEF FoldOf, n

LEMMA LinesStep ==
    /\ Lines(<<>>) = << <<>> >>
    /\ \A data \in Texts : \A c \in Chars : Lines(data) \in LineLists /\ Lines(Append(data, c)) = AddChar(Lines(data), c)
<1>1. Lines(<<>>) = LineStart
  <2>1. <<>> \in Texts
    BY DEF Texts
  <2>2. QED
    BY <2>1, LinesFold, FoldStart
<1>2. ASSUME NEW data \in Texts, NEW c \in Chars PROVE Lines(data) \in LineLists /\ Lines(Append(data, c)) = AddChar(Lines(data), c)
  <2>1. Append(data, c) \in Texts /\ data \in Seq(Chars)
    BY DEF Texts
  <2>2. Lines(Append(data, c)) = LineStep[c][Lines(data)]
    BY <2>1, LinesFold, FoldStep
  <2>3. Lines(data) \in LineLists
    BY <2>1, LinesFold DEF FoldOf
  <2>4. QED
    BY <2>2, <2>3 DEF LineStep
<1>3. QED
  BY <1>1, <1>2 DEF LineStart
-----------------------------------------------------------------------------
\* The parts h makes of the elements of s, one after the other.
Spread(h, s) == FlattenSeq([i \in DOMAIN s |-> h[s[i]]])

LEMMA SpreadStep ==
    ASSUME NEW A, NEW S, NEW h \in [A -> Seq(S)]
    PROVE  /\ Spread(h, <<>>) = <<>>
           /\ \A s \in Seq(A) : Spread(h, s) \in Seq(S)
           /\ \A s \in Seq(A) : \A c \in A : Spread(h, Append(s, c)) = Spread(h, s) \o h[c]
<1> DEFINE B == Seq(S)
           Parts(s) == [i \in DOMAIN s |-> h[s[i]]]
<1>1. ASSUME NEW s \in Seq(A) PROVE Parts(s) \in Seq(B) /\ Len(Parts(s)) = Len(s)
  <2>1. Len(s) \in Nat /\ DOMAIN s = 1..Len(s) /\ \A i \in 1..Len(s) : s[i] \in A
    OBVIOUS
  <2>2. \A i \in 1..Len(s) : h[s[i]] \in B
    BY <2>1
  <2>3. Parts(s) = [i \in 1..Len(s) |-> h[s[i]]]
    BY <2>1
  <2> HIDE DEF B, Parts
  <2>4. QED
    BY <2>1, <2>2, <2>3
<1>2. Spread(h, <<>>) = <<>>
  <2>1. [i \in DOMAIN <<>> |-> h[<<>>[i]]] = <<>>
    OBVIOUS
  <2>2. QED
    BY <2>1, FlattenNone DEF Spread
<1>3. ASSUME NEW s \in Seq(A), NEW c \in A PROVE Spread(h, s) \in Seq(S) /\ Spread(h, Append(s, c)) = Spread(h, s) \o h[c]
  <2> DEFINE t == Append(s, c)
             n == Len(s)
             u == Parts(s)
             v == Parts(t)
             e == h[c]
  <2>1. n \in Nat /\ t \in Seq(A) /\ Len(t) = n + 1 /\ t[n + 1] = c /\ \A i \in 1..n : t[i] = s[i]
    OBVIOUS
  <2>2. DOMAIN s = 1..n /\ DOMAIN t = 1..(n + 1)
    BY <2>1
  <2>3. e \in B
    OBVIOUS
  <2>4. u \in Seq(B) /\ Len(u) = n /\ v \in Seq(B) /\ Len(v) = n + 1
    BY <1>1, <2>1
  <2> HIDE DEF t
  <2>5. \A i \in 1..n : v[i] = u[i]
    BY <2>1, <2>2
  <2>6. v[n + 1] = e
    <3>1. n + 1 \in DOMAIN t
      BY <2>1, <2>2
    <3>2. QED
      BY <2>1, <3>1
  <2> HIDE DEF u, v, e, B, n, Parts
  <2>7. Append(u, e) \in Seq(B) /\ Len(Append(u, e)) = n + 1 /\ Append(u, e)[n + 1] = e
        /\ \A i \in 1..n : Append(u, e)[i] = u[i]
    BY <2>3, <2>4
  <2> DEFINE w == Append(u, e)
  <2> HIDE DEF w
  <2>8. w \in Seq(B) /\ Len(w) = n + 1 /\ \A i \in 1..(n + 1) : w[i] = v[i]
    BY <2>1, <2>5, <2>6, <2>7 DEF w
  <2>9. w = v
    BY <2>4, <2>8, SeqEqual
  <2>10. u \in Seq(Seq(S)) /\ e \in Seq(S)
    BY <2>3, <2>4 DEF B
  <2>11. FlattenSeq(u) \in Seq(S) /\ FlattenSeq(Append(u, e)) = FlattenSeq(u) \o e
    BY <2>10, FlattenMore
  <2>12. Spread(h, s) = FlattenSeq(u) /\ Spread(h, t) = FlattenSeq(v)
    BY Zenon DEF Spread, u, v, Parts
  <2>13. QED
    BY <2>9, <2>11, <2>12 DEF w, t, e
<1>4. ASSUME NEW s \in Seq(A) PROVE Spread(h, s) \in Seq(S)
  <2> DEFINE P == {s1 \in Seq(A) : Spread(h, s1) \in Seq(S)}
  <2>1. <<>> \in P
    <3>1. <<>> \in Seq(A) /\ <<>> \in Seq(S)
      OBVIOUS
    <3>2. Spread(h, <<>>) \in Seq(S)
      BY <1>2, <3>1
    <3>3. QED
      BY <3>1, <3>2
  <2>2. \A s1 \in Seq(A) : \A c \in A : s1 \in P => Append(s1, c) \in P
    <3> TAKE s1 \in Seq(A)
    <3> TAKE c \in A
    <3>1. Spread(h, s1) \in Seq(S) /\ Spread(h, Append(s1, c)) = Spread(h, s1) \o h[c] /\ h[c] \in Seq(S)
      BY <1>3
    <3>2. Spread(h, Append(s1, c)) \in Seq(S)
      BY <3>1, ConcatProperties
    <3>3. Append(s1, c) \in Seq(A)
      OBVIOUS
    <3>4. QED
      BY <3>2, <3>3
  <2> HIDE DEF P
  <2>3. s \in P
    BY <2>1, <2>2, EverySeq
  <2>4. QED
    BY <2>3 DEF P
<1>5. QED
  BY <1>2, <1>3, <1>4

-----------------------------------------------------------------------------
(* What is read of lines: DataOf and Join, line by line. *)

DataPart == [line \in Texts |-> IF IsData(line) THEN << Tail(line) >> ELSE <<>>]
JoinPart == [line \in Texts |-> <<"LF">> \o line]

LEMMA PartTypes == DataPart \in [Texts -> Seq(Texts)] /\ JoinPart \in [Texts -> Seq(Chars)]
<1>1. ASSUME NEW line \in Texts PROVE (IF IsData(line) THEN << Tail(line) >> ELSE <<>>) \in Seq(Texts)
  <2>1. CASE IsData(line)
    <3>1. line \in Seq(Chars) /\ line # <<>>
      BY <2>1 DEF IsData, Texts
    <3>2. Tail(line) \in Texts
      BY <3>1, HeadTailProperties DEF Texts
    <3>3. QED
      BY <2>1, <3>2
  <2>2. CASE ~IsData(line)
    BY <2>2
  <2>3. QED
    BY <2>1, <2>2
<1>2. ASSUME NEW line \in Texts PROVE <<"LF">> \o line \in Seq(Chars)
  <2>1. line \in Seq(Chars) /\ <<"LF">> \in Seq(Chars)
    BY DEF Texts, Chars
  <2>2. QED
    BY <2>1, ConcatProperties
<1>3. QED
  BY <1>1, <1>2 DEF DataPart, JoinPart

LEMMA DataOfStep ==
    /\ DataOf(<<>>) = <<>>
    /\ \A lines \in Lists : DataOf(lines) \in Lists
    /\ \A lines \in Lists : \A line \in Texts :
           DataOf(Append(lines, line)) = IF IsData(line) THEN Append(DataOf(lines), Tail(line)) ELSE DataOf(lines)
<1>1. ASSUME NEW lines \in Lists PROVE DataOf(lines) = Spread(DataPart, lines)
  <2>1. lines \in Seq(Texts)
    BY DEF Lists
  <2>2. \A i \in DOMAIN lines : lines[i] \in Texts
    BY <2>1
  <2>3. [i \in DOMAIN lines |-> IF IsData(lines[i]) THEN << Tail(lines[i]) >> ELSE <<>>]
          = [i \in DOMAIN lines |-> DataPart[lines[i]]]
    BY <2>2 DEF DataPart
  <2>4. QED
    BY <2>3, Zenon DEF DataOf, Spread
<1>2. <<>> \in Lists
  BY DEF Lists
<1>3. DataOf(<<>>) = <<>>
  BY <1>1, <1>2, PartTypes, SpreadStep
<1>7. /\ \A lines \in Seq(Texts) : Spread(DataPart, lines) \in Seq(Texts)
      /\ Spread(DataPart, <<>>) = <<>>
      /\ \A lines \in Seq(Texts) : \A line \in Texts : Spread(DataPart, Append(lines, line)) = Spread(DataPart, lines) \o DataPart[line]
  BY PartTypes, SpreadStep
<1>4. \A lines \in Lists : DataOf(lines) \in Lists
  BY <1>1, <1>7 DEF Lists
<1>5. ASSUME NEW lines \in Lists, NEW line \in Texts
      PROVE  DataOf(Append(lines, line)) = IF IsData(line) THEN Append(DataOf(lines), Tail(line)) ELSE DataOf(lines)
  <2>1. lines \in Seq(Texts) /\ Append(lines, line) \in Lists /\ Append(lines, line) \in Seq(Texts)
    BY DEF Lists
  <2>2. Spread(DataPart, Append(lines, line)) = Spread(DataPart, lines) \o DataPart[line]
    BY <1>7, <2>1
  <2>3. DataOf(Append(lines, line)) = DataOf(lines) \o DataPart[line]
    BY <1>1, <2>1, <2>2
  <2>4. DataOf(lines) \in Seq(Texts)
    BY <1>4 DEF Lists
  <2>5. CASE IsData(line)
    <3>1. Tail(line) \in Texts
      <4>1. line \in Seq(Chars) /\ line # <<>>
        BY <2>5 DEF IsData, Texts
      <4>2. QED
        BY <4>1, HeadTailProperties DEF Texts
    <3>2. DataPart[line] = << Tail(line) >>
      BY <2>5 DEF DataPart
    <3>3. QED
      BY <2>3, <2>4, <2>5, <3>1, <3>2, AppendIsConcat
  <2>6. CASE ~IsData(line)
    <3>1. DataPart[line] = <<>>
      BY <2>6 DEF DataPart
    <3>2. QED
      BY <2>3, <2>4, <2>6, <3>1, ConcatEmptySeq
  <2>7. QED
    BY <2>5, <2>6
<1>6. QED
  BY <1>3, <1>4, <1>5

LEMMA JoinIs ==
    /\ \A lines \in Lists : Spread(JoinPart, lines) \in Texts
    /\ Spread(JoinPart, <<>>) = <<>>
    /\ \A lines \in Lists : Join(lines) = Tail(Spread(JoinPart, lines))
    /\ \A lines \in Lists : \A line \in Texts :
           Spread(JoinPart, Append(lines, line)) = Spread(JoinPart, lines) \o (<<"LF">> \o line)
<1>1. ASSUME NEW lines \in Lists PROVE Join(lines) = Tail(Spread(JoinPart, lines))
  <2>1. lines \in Seq(Texts)
    BY DEF Lists
  <2>2. \A i \in DOMAIN lines : lines[i] \in Texts
    BY <2>1
  <2>3. [i \in DOMAIN lines |-> <<"LF">> \o lines[i]] = [i \in DOMAIN lines |-> JoinPart[lines[i]]]
    BY <2>2 DEF JoinPart
  <2>4. QED
    BY <2>3, Zenon DEF Join, Spread
<1>2. /\ \A lines \in Seq(Texts) : Spread(JoinPart, lines) \in Seq(Chars)
      /\ Spread(JoinPart, <<>>) = <<>>
      /\ \A lines \in Seq(Texts) : \A line \in Texts : Spread(JoinPart, Append(lines, line)) = Spread(JoinPart, lines) \o JoinPart[line]
  BY PartTypes, SpreadStep
<1>3. \A line \in Texts : JoinPart[line] = <<"LF">> \o line
  BY DEF JoinPart
<1>4. QED
  BY <1>1, <1>2, <1>3 DEF Lists, Texts

LEMMA EventTypes == ASSUME NEW data \in Lists PROVE Event(data) \in Lists
<1>1. CASE data = <<>>
  <2>1. <<>> \in Lists
    BY DEF Lists
  <2>2. QED
    BY <1>1, <2>1 DEF Event
<1>2. CASE data # <<>>
  <2>1. PICK front \in Lists, line \in Texts : data = Append(front, line)
    BY <1>2, FrontAndLast DEF Lists
  <2> DEFINE s == Spread(JoinPart, front)
             t == <<"LF">> \o line
  <2>2. s \in Seq(Chars) /\ Spread(JoinPart, data) = s \o t
    BY <2>1, JoinIs DEF Texts
  <2>3. t \in Seq(Chars) /\ t # <<>>
    <3>1. line \in Seq(Chars) /\ <<"LF">> \in Seq(Chars) /\ <<"LF">> # <<>>
      BY DEF Texts, Chars
    <3>2. QED
      BY <3>1, ConcatProperties, ConcatEqualIffEmpty
  <2> HIDE DEF s, t
  <2>4. s \o t \in Seq(Chars) /\ s \o t # <<>>
    BY <2>2, <2>3, ConcatProperties, ConcatEqualIffEmpty
  <2>5. Tail(s \o t) \in Texts
    BY <2>4, HeadTailProperties DEF Texts
  <2>6. Join(data) \in Texts
    BY <2>2, <2>5, JoinIs
  <2>7. QED
    BY <1>2, <2>6 DEF Event, Lists
<1>3. QED
  BY <1>1, <1>2
-----------------------------------------------------------------------------
(* Frames cut out of a text, character by character. *)

Cuts == [decoded : Lists, rest : Texts]

LEMMA FrameTypes == ASSUME NEW raw \in Texts PROVE Lines(raw) \in LineLists /\ ParseFrame(raw) \in Lists
<1>1. Lines(raw) \in LineLists
  <2>1. "LF" \in Chars
    BY DEF Chars
  <2>2. QED
    BY <2>1, LinesStep
<1>2. DataOf(Lines(raw)) \in Lists
  BY <1>1, DataOfStep DEF LineLists
<1>3. QED
  BY <1>1, <1>2, EventTypes DEF ParseFrame

LEMMA CutCharTypes == ASSUME NEW cut \in Cuts, NEW c \in Chars PROVE CutChar(cut, c) \in Cuts
<1>1. cut.decoded \in Lists /\ cut.rest \in Texts /\ cut.rest \in Seq(Chars)
  BY DEF Cuts, Texts
<1>2. CASE c = "LF" /\ cut.rest # <<>> /\ Last(cut.rest) = "LF"
  <2>1. Front(cut.rest) \in Texts
    BY <1>1, <1>2, FrontAndLast DEF Texts
  <2>2. ParseFrame(Front(cut.rest)) \in Lists
    BY <2>1, FrameTypes
  <2>3. cut.decoded \o ParseFrame(Front(cut.rest)) \in Lists
    BY <1>1, <2>2, ConcatProperties DEF Lists
  <2>4. <<>> \in Texts
    BY DEF Texts
  <2>5. QED
    BY <1>2, <2>3, <2>4 DEF CutChar, Cuts
<1>3. CASE ~(c = "LF" /\ cut.rest # <<>> /\ Last(cut.rest) = "LF")
  <2>1. Append(cut.rest, c) \in Texts
    BY <1>1 DEF Texts
  <2>2. CutChar(cut, c) = [cut EXCEPT !.rest = Append(@, c)]
    BY <1>3 DEF CutChar
  <2>3. QED
    BY <2>1, <2>2 DEF Cuts
<1>4. QED
  BY <1>2, <1>3

CutStart == [decoded |-> <<>>, rest |-> <<>>]
CutStep == [c \in Chars |-> [cut \in Cuts |-> CutChar(cut, c)]]
CutStates(text, f) ==
    f = [n \in 0..Len(text) |-> IF n = 0 THEN CutStart ELSE CutChar(f[n - 1], text[n])]

LEMMA CutStepTypes == CutStart \in Cuts /\ CutStep \in [Chars -> [Cuts -> Cuts]]
<1>1. CutStart \in Cuts
  BY DEF CutStart, Cuts, Lists, Texts
<1>2. \A c \in Chars : \A cut \in Cuts : CutChar(cut, c) \in Cuts
  BY CutCharTypes
<1>3. QED
  BY <1>1, <1>2 DEF CutStep

LEMMA CutFold == ASSUME NEW text \in Texts PROVE FoldOf(Cuts, CutStart, CutStep, text, Cut(text))
<1> DEFINE n == Len(text)
           g == CHOOSE h : CutStates(text, h)
           steps == [k \in 1..n |-> CutStep[text[k]]]
<1>1. n \in Nat /\ text \in Seq(Chars) /\ \A k \in 1..n : text[k] \in Chars
  BY DEF Texts
<1>2. PICK f : Goes(Cuts, CutStart, n, steps, f)
  BY <1>1, CutStepTypes, FoldExists
<1> HIDE DEF n
<1>3. f \in [0..n -> Cuts] /\ f[0] = CutStart /\ \A k \in 1..n : f[k] = CutStep[text[k]][f[k - 1]]
  BY <1>2 DEF Goes
<1>4. \A k \in 1..n : f[k] = CutChar(f[k - 1], text[k])
  <2> TAKE k \in 1..n
  <2>1. k - 1 \in 0..n
    BY <1>1
  <2>2. f[k - 1] \in Cuts /\ text[k] \in Chars
    BY <1>1, <1>3, <2>1
  <2>3. QED
    BY <1>3, <2>2 DEF CutStep
<1>5. CutStates(text, f)
  <2>1. f = [k \in 0..n |-> f[k]]
    BY <1>3
  <2>2. \A k \in 0..n : f[k] = IF k = 0 THEN CutStart ELSE CutChar(f[k - 1], text[k])
    BY <1>1, <1>3, <1>4
  <2>3. f = [k \in 0..n |-> IF k = 0 THEN CutStart ELSE CutChar(f[k - 1], text[k])]
    BY <2>1, <2>2, Zenon
  <2>4. QED
    BY <2>3, Zenon DEF CutStates, n
<1>6. CutStates(text, g)
  BY <1>5
<1>7. Cut(text) = g[n]
  BY DEF Cut, CutStates, CutStart, n
<1> HIDE DEF g
<1>8. \A k \in 0..n : g[k] = IF k = 0 THEN CutStart ELSE CutChar(g[k - 1], text[k])
  <2>1. g = [k \in 0..n |-> IF k = 0 THEN CutStart ELSE CutChar(g[k - 1], text[k])]
    BY <1>6, Zenon DEF CutStates, n
  <2>2. QED
    BY <2>1, Zenon
<1>9. g[0] = f[0] /\ \A k \in 1..n : g[k - 1] = f[k - 1] => g[k] = f[k]
  BY <1>1, <1>3, <1>4, <1>8
<1>10. Alike(n, g, f)
  BY <1>1, <1>9, OneRecursion
<1>11. Cut(text) = f[n]
  BY <1>1, <1>7, <1>10 DEF Alike
<1>12. QED
  BY <1>3, <1>11 DEF FoldOf, n

LEMMA CutSteps ==
    /\ Cut(<<>>) = CutStart
    /\ \A text \in Texts : \A c \in Chars : Cut(text) \in Cuts /\ Cut(Append(text, c)) = CutChar(Cut(text), c)
<1>1. Cut(<<>>) = CutStart
  <2>1. <<>> \in Texts
    BY DEF Texts
  <2>2. QED
    BY <2>1, CutFold, FoldStart
<1>2. ASSUME NEW text \in Texts, NEW c \in Chars PROVE Cut(text) \in Cuts /\ Cut(Append(text, c)) = CutChar(Cut(text), c)
  <2>1. Append(text, c) \in Texts /\ text \in Seq(Chars)
    BY DEF Texts
  <2>2. Cut(Append(text, c)) = CutStep[c][Cut(text)]
    BY <2>1, CutFold, FoldStep
  <2>3. Cut(text) \in Cuts
    BY <2>1, CutFold DEF FoldOf
  <2>4. QED
    BY <2>2, <2>3 DEF CutStep
<1>3. QED
  BY <1>1, <1>2

-----------------------------------------------------------------------------
(* The format, character by character. *)

Reads == [line : Texts, data : Lists, cr : BOOLEAN, events : Lists]

LEMMA ReadCharTypes == ASSUME NEW state \in Reads, NEW c \in Chars PROVE ReadChar(state, c) \in Reads
<1> DEFINE continued == [state EXCEPT !.cr = (c = "CR")]
           data == IF IsData(state.line) THEN Append(state.data, Tail(state.line)) ELSE state.data
<1>1. state.line \in Texts /\ state.data \in Lists /\ state.events \in Lists /\ continued \in Reads
      /\ continued.line = state.line /\ continued.events = state.events
  BY DEF Reads
<1>2. data \in Lists
  <2>1. CASE IsData(state.line)
    <3>1. Tail(state.line) \in Texts
      BY <1>1, <2>1, HeadTailProperties DEF IsData, Texts
    <3>2. QED
      BY <1>1, <2>1, <3>1 DEF Lists
  <2>2. QED
    BY <1>1, <2>1
<1>3. Append(state.line, c) \in Texts /\ <<>> \in Texts /\ <<>> \in Lists
  BY <1>1 DEF Texts, Lists
<1>4. state.events \o Event(state.data) \in Lists
  BY <1>1, EventTypes, ConcatProperties DEF Lists
<1>5. ReadChar(state, c) =
        IF c = "LF" /\ state.cr THEN continued
        ELSE IF c \notin {"CR", "LF"} THEN [continued EXCEPT !.line = Append(@, c)]
        ELSE IF state.line # <<>> THEN [continued EXCEPT !.line = <<>>, !.data = data]
        ELSE [continued EXCEPT !.data = <<>>, !.events = @ \o Event(state.data)]
  BY DEF ReadChar
<1> HIDE DEF continued, data
<1>6. [continued EXCEPT !.line = Append(@, c)] \in Reads
  BY <1>1, <1>3 DEF Reads
<1>7. [continued EXCEPT !.line = <<>>, !.data = data] \in Reads
  BY <1>1, <1>2, <1>3 DEF Reads
<1>8. [continued EXCEPT !.data = <<>>, !.events = @ \o Event(state.data)] \in Reads
  BY <1>1, <1>3, <1>4 DEF Reads
<1>9. QED
  BY <1>1, <1>5, <1>6, <1>7, <1>8

ReadStart == [line |-> <<>>, data |-> <<>>, cr |-> FALSE, events |-> <<>>]
ReadStep == [c \in Chars |-> [state \in Reads |-> ReadChar(state, c)]]
ReadStates(text, f) ==
    f = [n \in 0..Len(text) |-> IF n = 0 THEN ReadStart ELSE ReadChar(f[n - 1], text[n])]

LEMMA ReadStepTypes == ReadStart \in Reads /\ ReadStep \in [Chars -> [Reads -> Reads]]
<1>1. ReadStart \in Reads
  BY DEF ReadStart, Reads, Lists, Texts
<1>2. \A c \in Chars : \A state \in Reads : ReadChar(state, c) \in Reads
  BY ReadCharTypes
<1>3. QED
  BY <1>1, <1>2 DEF ReadStep

LEMMA ReadFold == ASSUME NEW text \in Texts PROVE FoldOf(Reads, ReadStart, ReadStep, text, ReadText(text))
<1> DEFINE n == Len(text)
           g == CHOOSE h : ReadStates(text, h)
           steps == [k \in 1..n |-> ReadStep[text[k]]]
<1>1. n \in Nat /\ text \in Seq(Chars) /\ \A k \in 1..n : text[k] \in Chars
  BY DEF Texts
<1>2. PICK f : Goes(Reads, ReadStart, n, steps, f)
  BY <1>1, ReadStepTypes, FoldExists
<1> HIDE DEF n
<1>3. f \in [0..n -> Reads] /\ f[0] = ReadStart /\ \A k \in 1..n : f[k] = ReadStep[text[k]][f[k - 1]]
  BY <1>2 DEF Goes
<1>4. \A k \in 1..n : f[k] = ReadChar(f[k - 1], text[k])
  <2> TAKE k \in 1..n
  <2>1. k - 1 \in 0..n
    BY <1>1
  <2>2. f[k - 1] \in Reads /\ text[k] \in Chars
    BY <1>1, <1>3, <2>1
  <2>3. QED
    BY <1>3, <2>2 DEF ReadStep
<1>5. ReadStates(text, f)
  <2>1. f = [k \in 0..n |-> f[k]]
    BY <1>3
  <2>2. \A k \in 0..n : f[k] = IF k = 0 THEN ReadStart ELSE ReadChar(f[k - 1], text[k])
    BY <1>1, <1>3, <1>4
  <2>3. f = [k \in 0..n |-> IF k = 0 THEN ReadStart ELSE ReadChar(f[k - 1], text[k])]
    BY <2>1, <2>2, Zenon
  <2>4. QED
    BY <2>3, Zenon DEF ReadStates, n
<1>6. ReadStates(text, g)
  BY <1>5
<1>7. ReadText(text) = g[n]
  BY DEF ReadText, ReadStates, ReadStart, n
<1> HIDE DEF g
<1>8. \A k \in 0..n : g[k] = IF k = 0 THEN ReadStart ELSE ReadChar(g[k - 1], text[k])
  <2>1. g = [k \in 0..n |-> IF k = 0 THEN ReadStart ELSE ReadChar(g[k - 1], text[k])]
    BY <1>6, Zenon DEF ReadStates, n
  <2>2. QED
    BY <2>1, Zenon
<1>9. g[0] = f[0] /\ \A k \in 1..n : g[k - 1] = f[k - 1] => g[k] = f[k]
  BY <1>1, <1>3, <1>4, <1>8
<1>10. Alike(n, g, f)
  BY <1>1, <1>9, OneRecursion
<1>11. ReadText(text) = f[n]
  BY <1>1, <1>7, <1>10 DEF Alike
<1>12. QED
  BY <1>3, <1>11 DEF FoldOf, n

LEMMA ReadSteps ==
    /\ ReadText(<<>>) = ReadStart
    /\ \A text \in Texts : \A c \in Chars : ReadText(text) \in Reads /\ ReadText(Append(text, c)) = ReadChar(ReadText(text), c)
<1>1. ReadText(<<>>) = ReadStart
  <2>1. <<>> \in Texts
    BY DEF Texts
  <2>2. QED
    BY <2>1, ReadFold, FoldStart
<1>2. ASSUME NEW text \in Texts, NEW c \in Chars PROVE ReadText(text) \in Reads /\ ReadText(Append(text, c)) = ReadChar(ReadText(text), c)
  <2>1. Append(text, c) \in Texts /\ text \in Seq(Chars)
    BY DEF Texts
  <2>2. ReadText(Append(text, c)) = ReadStep[c][ReadText(text)]
    BY <2>1, ReadFold, FoldStep
  <2>3. ReadText(text) \in Reads
    BY <2>1, ReadFold DEF FoldOf
  <2>4. QED
    BY <2>2, <2>3 DEF ReadStep
<1>3. QED
  BY <1>1, <1>2

LEMMA ReadCr ==
    /\ ReadText(<<>>) = ReadStart
    /\ \A text \in Texts : ReadText(text) \in Reads
    /\ \A text \in Texts : \A c \in Chars : ReadText(Append(text, c)).cr = (c = "CR")
<1>1. \A text \in Texts : ReadText(text) \in Reads
  <2>1. "LF" \in Chars
    BY DEF Chars
  <2>2. QED
    BY <2>1, ReadSteps
<1>2. ASSUME NEW state \in Reads, NEW c \in Chars PROVE ReadChar(state, c).cr = (c = "CR")
  BY DEF ReadChar, Reads
<1>3. QED
  BY <1>1, <1>2, ReadSteps

-----------------------------------------------------------------------------
(* The last of the lines so far, and the lines before it. *)
LEMMA LineEnds ==
    ASSUME NEW text \in Texts
    PROVE  /\ Lines(text) \in LineLists /\ Front(Lines(text)) \in Lists /\ Last(Lines(text)) \in Texts
           /\ Lines(text) = Append(Front(Lines(text)), Last(Lines(text)))
           /\ Front(Lines(Append(text, "LF"))) = Lines(text)
           /\ Last(Lines(Append(text, "LF"))) = <<>>
           /\ \A c \in Chars \ {"LF"} :
                  /\ Front(Lines(Append(text, c))) = Front(Lines(text))
                  /\ Last(Lines(Append(text, c))) = Append(Last(Lines(text)), c)
<1> DEFINE lines == Lines(text)
           front == Front(lines)
           line == Last(lines)
<1>0. "LF" \in Chars
  BY DEF Chars
<1>1. lines \in LineLists
  BY FrameTypes
<1>2. front \in Seq(Texts) /\ line \in Texts /\ lines = Append(front, line)
  BY <1>1, FrontAndLast DEF LineLists, Lists
<1>3. Lines(Append(text, "LF")) = AddChar(lines, "LF") /\ \A c \in Chars : Lines(Append(text, c)) = AddChar(lines, c)
  BY <1>0, LinesStep
<1> HIDE DEF lines, front, line
<1>4. front \in Seq(Seq(Chars)) /\ line \in Seq(Chars)
  BY <1>2 DEF Texts
<1>5. AddChar(lines, "LF") = Append(lines, <<>>)
  BY <1>2, <1>4, AddCharIs
<1>6. Front(Append(lines, <<>>)) = lines /\ Last(Append(lines, <<>>)) = <<>>
  <2>1. lines \in Seq(Texts) /\ <<>> \in Texts
    BY <1>1 DEF LineLists, Lists, Texts
  <2>2. QED
    BY <2>1, FrontOfAppend
<1>7. ASSUME NEW c \in Chars \ {"LF"}
      PROVE  Front(AddChar(lines, c)) = front /\ Last(AddChar(lines, c)) = Append(line, c)
  <2>1. AddChar(lines, c) = Append(front, Append(line, c)) /\ Append(line, c) \in Texts
    BY <1>2, <1>4, AddCharIs DEF Texts
  <2> DEFINE l == Append(line, c)
  <2> HIDE DEF l
  <2>2. l \in Texts /\ AddChar(lines, c) = Append(front, l)
    BY <2>1 DEF l
  <2>3. Front(Append(front, l)) = front /\ Last(Append(front, l)) = l
    BY <1>2, <2>2, FrontOfAppend
  <2>4. QED
    BY <2>2, <2>3 DEF l
<1>8. QED
  BY <1>1, <1>2, <1>3, <1>5, <1>6, <1>7 DEF lines, front, line, Lists

LEMMA NoLineYet == Front(Lines(<<>>)) = <<>> /\ Last(Lines(<<>>)) = <<>>
<1> DEFINE none == <<>>
           line == <<>>
<1>1. none \in Seq(Texts) /\ line \in Texts
  BY DEF Texts
<1>2. Lines(<<>>) = Append(none, line)
  BY LinesStep
<1> HIDE DEF none, line
<1>3. Front(Append(none, line)) = none /\ Last(Append(none, line)) = line
  BY <1>1, FrontOfAppend
<1>4. QED
  BY <1>2, <1>3 DEF none, line

(***************************************************************************)
(* What the decoder holds back and what the format has read so far fit: no *)
(* CR and no whole frame is held, and the lines held are the line and the  *)
(* data the format is collecting.                                          *)
(***************************************************************************)
Fits(rest, state) ==
    /\ rest \in Texts
    /\ \A i \in DOMAIN rest : rest[i] # "CR"
    /\ Cut(rest) = [decoded |-> <<>>, rest |-> rest]
    /\ state.line = Last(Lines(rest))
    /\ state.data = DataOf(Front(Lines(rest)))

LEMMA NothingFits == Fits(<<>>, ReadText(<<>>))
<1>1. <<>> \in Texts /\ DOMAIN <<>> = {}
  BY DEF Texts
<1>2. Cut(<<>>) = [decoded |-> <<>>, rest |-> <<>>]
  BY CutSteps DEF CutStart
<1>3. ReadText(<<>>).line = <<>> /\ ReadText(<<>>).data = <<>>
  BY ReadSteps DEF ReadStart
<1>4. QED
  BY <1>1, <1>2, <1>3, NoLineYet, DataOfStep DEF Fits

\* A line ending of either kind is one LF to the decoder.
Ending(c) == IF c = "CR" THEN "LF" ELSE c

LEMMA HoldsOneMore ==
    ASSUME NEW rest \in Texts, \A i \in DOMAIN rest : rest[i] # "CR",
           Cut(rest) = [decoded |-> <<>>, rest |-> rest],
           NEW x \in Chars \ {"CR"}, ~(x = "LF" /\ rest # <<>> /\ Last(rest) = "LF")
    PROVE  /\ Append(rest, x) \in Texts
           /\ \A i \in DOMAIN Append(rest, x) : Append(rest, x)[i] # "CR"
           /\ Cut(Append(rest, x)) = [decoded |-> <<>>, rest |-> Append(rest, x)]
<1>1. rest \in Seq(Chars)
  BY DEF Texts
<1>2. Append(rest, x) \in Texts
  BY <1>1 DEF Texts
<1>3. \A i \in DOMAIN Append(rest, x) : Append(rest, x)[i] # "CR"
  BY <1>1
<1>4. Cut(Append(rest, x)) = CutChar(Cut(rest), x)
  BY CutSteps
<1> DEFINE cut == [decoded |-> <<>>, rest |-> rest]
<1>5. cut.rest = rest
  OBVIOUS
<1>6. CutChar(cut, x) = [cut EXCEPT !.rest = Append(@, x)]
  BY <1>5 DEF CutChar
<1>7. [cut EXCEPT !.rest = Append(@, x)] = [decoded |-> <<>>, rest |-> Append(rest, x)]
  OBVIOUS
<1>8. QED
  BY <1>2, <1>3, <1>4, <1>6, <1>7

(* One character more: decoder and format make the same of it. *)
LEMMA OneMore ==
    ASSUME NEW before \in Lists, NEW cut \in Cuts, NEW state \in Reads, NEW c \in Chars,
           Fits(cut.rest, state), before \o cut.decoded = state.events,
           ~(c = "LF" /\ state.cr)
    PROVE  /\ Fits(CutChar(cut, Ending(c)).rest, ReadChar(state, c))
           /\ before \o CutChar(cut, Ending(c)).decoded = ReadChar(state, c).events
<1> DEFINE rest == cut.rest
           x == Ending(c)
           next == ReadChar(state, c)
           then == CutChar(cut, x)
           continued == [state EXCEPT !.cr = (c = "CR")]
<1>1. rest \in Texts /\ rest \in Seq(Chars) /\ cut.decoded \in Lists
  BY DEF Cuts, Texts
<1>2. /\ \A i \in DOMAIN rest : rest[i] # "CR"
      /\ Cut(rest) = [decoded |-> <<>>, rest |-> rest]
      /\ state.line = Last(Lines(rest))
      /\ state.data = DataOf(Front(Lines(rest)))
  BY DEF Fits
<1>3. x \in Chars \ {"CR"} /\ (x = "LF" <=> c \in {"CR", "LF"}) /\ (x # "LF" => x = c)
  BY DEF Ending, Chars
<1>4. state.line \in Texts /\ state.data \in Lists
      /\ continued.line = state.line /\ continued.data = state.data /\ continued.events = state.events
      /\ continued \in Reads
  BY DEF Reads
<1> HIDE DEF rest, x
<1>5. CASE x # "LF"
  <2>1. next = [continued EXCEPT !.line = Append(@, c)]
    BY <1>3, <1>5 DEF ReadChar
  <2>2. then = [cut EXCEPT !.rest = Append(@, x)]
    BY <1>5 DEF CutChar
  <2> HIDE DEF next, then, continued
  <2>3. next.line = Append(state.line, c) /\ next.data = state.data /\ next.events = state.events
    BY <1>4, <2>1 DEF Reads
  <2>4. then.rest = Append(rest, x) /\ then.decoded = cut.decoded
    BY <2>2 DEF rest, Cuts
  <2>5. Append(rest, x) \in Texts /\ (\A i \in DOMAIN Append(rest, x) : Append(rest, x)[i] # "CR")
        /\ Cut(Append(rest, x)) = [decoded |-> <<>>, rest |-> Append(rest, x)]
    BY <1>1, <1>2, <1>3, <1>5, HoldsOneMore
  <2>6. Front(Lines(Append(rest, x))) = Front(Lines(rest)) /\ Last(Lines(Append(rest, x))) = Append(Last(Lines(rest)), x)
    BY <1>1, <1>3, <1>5, LineEnds
  <2>7. Fits(then.rest, next)
    BY <1>2, <1>3, <1>5, <2>3, <2>4, <2>5, <2>6 DEF Fits
  <2>8. QED
    BY <2>3, <2>4, <2>7 DEF then, next, x
<1>6. CASE x = "LF" /\ rest # <<>> /\ Last(rest) = "LF"
  <2> DEFINE front == Front(rest)
  <2>1. front \in Texts /\ rest = Append(front, "LF")
    BY <1>1, <1>6, FrontAndLast DEF Texts
  <2>2. Front(Lines(rest)) = Lines(front) /\ Last(Lines(rest)) = <<>>
    BY <2>1, LineEnds
  <2>3. then = [decoded |-> cut.decoded \o ParseFrame(front), rest |-> <<>>]
    BY <1>6 DEF CutChar, rest
  <2>4. next = [continued EXCEPT !.data = <<>>, !.events = @ \o Event(state.data)]
    BY <1>2, <1>3, <1>6, <2>2 DEF ReadChar
  <2>5. ParseFrame(front) = Event(state.data)
    BY <1>2, <2>2 DEF ParseFrame
  <2> HIDE DEF next, then, continued, front
  <2>6. next.line = <<>> /\ next.data = <<>> /\ next.events = state.events \o Event(state.data)
    BY <1>2, <1>4, <2>2, <2>4 DEF Reads
  <2>7. then.rest = <<>> /\ then.decoded = cut.decoded \o Event(state.data)
    BY <2>3, <2>5
  <2>8. Fits(then.rest, next)
    <3>1. ReadText(<<>>).line = <<>> /\ ReadText(<<>>).data = <<>>
      BY ReadSteps DEF ReadStart
    <3>2. QED
      BY <2>6, <2>7, <3>1, NothingFits DEF Fits
  <2>9. before \o then.decoded = next.events
    <3>1. Event(state.data) \in Lists
      BY <1>4, EventTypes
    <3>2. before \o (cut.decoded \o Event(state.data)) = (before \o cut.decoded) \o Event(state.data)
      <4>1. before \in Seq(Texts) /\ cut.decoded \in Seq(Texts) /\ Event(state.data) \in Seq(Texts)
        BY <1>1, <3>1 DEF Lists
      <4> DEFINE u == cut.decoded
                 v == Event(state.data)
      <4>2. u \in Seq(Texts) /\ v \in Seq(Texts) /\ before \in Seq(Texts)
        BY <4>1
      <4> HIDE DEF u, v
      <4>3. before \o (u \o v) = (before \o u) \o v
        BY <4>2, ConcatAssociative
      <4>4. QED
        BY <4>3 DEF u, v
    <3>3. QED
      BY <2>6, <2>7, <3>2
  <2>10. QED
    BY <2>8, <2>9 DEF then, next, x
<1>7. CASE x = "LF" /\ ~(rest # <<>> /\ Last(rest) = "LF")
  <2>1. then = [cut EXCEPT !.rest = Append(@, x)]
    BY <1>7 DEF CutChar, rest
  <2>2. then.rest = Append(rest, x) /\ then.decoded = cut.decoded
    BY <2>1 DEF rest, Cuts
  <2>3. Append(rest, x) \in Texts /\ (\A i \in DOMAIN Append(rest, x) : Append(rest, x)[i] # "CR")
        /\ Cut(Append(rest, x)) = [decoded |-> <<>>, rest |-> Append(rest, x)]
    BY <1>1, <1>2, <1>3, <1>7, HoldsOneMore
  <2>4. Front(Lines(Append(rest, x))) = Lines(rest) /\ Last(Lines(Append(rest, x))) = <<>>
    BY <1>1, <1>7, LineEnds
  <2>5. next.line = <<>> /\ next.data = DataOf(Lines(rest)) /\ next.events = state.events
    <3>1. CASE rest = <<>>
      <4>1. state.line = <<>> /\ state.data = <<>>
        BY <1>2, <3>1, NoLineYet, DataOfStep
      <4>2. next = [continued EXCEPT !.data = <<>>, !.events = @ \o Event(state.data)]
        BY <1>3, <1>7, <4>1 DEF ReadChar
      <4> HIDE DEF next, continued
      <4>3. next.line = <<>> /\ next.data = <<>> /\ next.events = state.events \o <<>>
        BY <1>4, <4>1, <4>2 DEF Event, Reads
      <4>4. state.events \o <<>> = state.events
        BY ConcatEmptySeq DEF Reads, Lists
      <4>5. DataOf(Lines(rest)) = <<>>
        <5>1. <<>> \in Texts /\ <<>> \in Lists /\ ~IsData(<<>>)
          BY DEF Texts, Lists, IsData
        <5>2. Lines(<<>>) = Append(<<>>, <<>>)
          BY LinesStep
        <5>3. QED
          BY <3>1, <5>1, <5>2, DataOfStep
      <4>6. QED
        BY <4>3, <4>4, <4>5
    <3>2. CASE rest # <<>>
      <4>1. PICK r \in Texts, b \in Chars : rest = Append(r, b) /\ b = Last(rest)
        BY <1>1, <3>2, FrontAndLast DEF Texts
      <4>2. b \in Chars \ {"LF"}
        BY <1>7, <3>2, <4>1
      <4>3. state.line = Append(Last(Lines(r)), b) /\ Last(Lines(r)) \in Seq(Chars)
        BY <1>2, <4>1, <4>2, LineEnds DEF Texts
      <4>4. state.line # <<>>
        BY <4>1, <4>3, AppendProperties
      <4>5. next = [continued EXCEPT !.line = <<>>,
                                     !.data = IF IsData(state.line) THEN Append(state.data, Tail(state.line)) ELSE state.data]
        BY <1>3, <1>7, <4>4 DEF ReadChar
      <4> HIDE DEF next, continued
      <4>6. next.line = <<>> /\ next.events = state.events
            /\ next.data = IF IsData(state.line) THEN Append(state.data, Tail(state.line)) ELSE state.data
        BY <1>4, <4>5 DEF Reads
      <4>7. Lines(rest) = Append(Front(Lines(rest)), state.line) /\ Front(Lines(rest)) \in Lists
        BY <1>1, <1>2, LineEnds
      <4>8. DataOf(Lines(rest)) = IF IsData(state.line) THEN Append(state.data, Tail(state.line)) ELSE state.data
        BY <1>2, <1>4, <4>7, DataOfStep
      <4>9. QED
        BY <4>6, <4>8
    <3>3. QED
      BY <3>1, <3>2
  <2> HIDE DEF next, then, continued
  <2>6. Fits(then.rest, next)
    BY <2>2, <2>3, <2>4, <2>5 DEF Fits
  <2>7. QED
    BY <2>2, <2>5, <2>6 DEF then, next, x
<1>8. QED
  BY <1>5, <1>6, <1>7

-----------------------------------------------------------------------------
(* Line endings made one, character by character. *)

NormalPart(text, i) ==
    IF text[i] = "LF" /\ i > 1 /\ text[i - 1] = "CR" THEN <<>>
    ELSE IF text[i] = "CR" THEN <<"LF">> ELSE <<text[i]>>

LEMMA NormalPartIs ==
    ASSUME NEW text, NEW n \in Nat, NEW c, text[n + 1] = c
    PROVE  NormalPart(text, n + 1) = IF c = "LF" /\ n > 0 /\ text[n] = "CR" THEN <<>>
                                     ELSE IF c = "CR" THEN <<"LF">> ELSE <<c>>
<1> DEFINE j == n + 1
<1>1. j - 1 = n /\ (j > 1 <=> n > 0) /\ text[j] = c
  OBVIOUS
<1> HIDE DEF j
<1>2. NormalPart(text, j) = IF c = "LF" /\ n > 0 /\ text[n] = "CR" THEN <<>>
                            ELSE IF c = "CR" THEN <<"LF">> ELSE <<c>>
  BY <1>1, Zenon DEF NormalPart
<1>3. QED
  BY <1>2 DEF j

\* The second half of a CRLF.
Swallowed(text, c) == c = "LF" /\ text # <<>> /\ Last(text) = "CR"

LEMMA NormalStep ==
    /\ Normal(<<>>) = <<>>
    /\ \A text \in Texts : Normal(text) \in Texts
    /\ \A text \in Texts : \A c \in Chars :
           Normal(Append(text, c)) = IF Swallowed(text, c) THEN Normal(text) ELSE Append(Normal(text), Ending(c))
<1> DEFINE Parts(text) == [i \in DOMAIN text |-> NormalPart(text, i)]
<1>1. \A text : Normal(text) = FlattenSeq(Parts(text))
  BY Zenon DEF Normal, NormalPart
<1>2. Normal(<<>>) = <<>>
  <2>1. Parts(<<>>) = <<>>
    OBVIOUS
  <2>2. QED
    BY <1>1, <2>1, FlattenNone
<1>3. ASSUME NEW text \in Texts PROVE Parts(text) \in Lists /\ Len(Parts(text)) = Len(text)
  <2>1. Len(text) \in Nat /\ DOMAIN text = 1..Len(text) /\ \A i \in 1..Len(text) : text[i] \in Chars
    BY DEF Texts
  <2>2. \A i \in 1..Len(text) : NormalPart(text, i) \in Texts
    <3> TAKE i \in 1..Len(text)
    <3>1. <<>> \in Texts /\ <<"LF">> \in Texts /\ << text[i] >> \in Texts
      BY <2>1 DEF Texts, Chars
    <3>2. QED
      BY <3>1 DEF NormalPart
  <2>3. Parts(text) = [i \in 1..Len(text) |-> NormalPart(text, i)]
    BY <2>1
  <2> HIDE DEF Parts
  <2>4. QED
    BY <2>1, <2>2, <2>3 DEF Lists
<1>4. \A text \in Texts : Normal(text) \in Texts
  <2> TAKE text \in Texts
  <2>1. Parts(text) \in Seq(Seq(Chars)) /\ <<>> \in Seq(Chars)
    BY <1>3 DEF Lists, Texts
  <2> HIDE DEF Parts
  <2>2. FlattenSeq(Parts(text)) \in Seq(Chars)
    BY <2>1, FlattenMore
  <2>3. QED
    BY <1>1, <2>2 DEF Texts
<1>5. ASSUME NEW text \in Texts, NEW c \in Chars
      PROVE  Normal(Append(text, c)) = IF Swallowed(text, c) THEN Normal(text) ELSE Append(Normal(text), Ending(c))
  <2> DEFINE more == Append(text, c)
             n == Len(text)
             u == Parts(text)
             v == Parts(more)
             e == NormalPart(more, n + 1)
             w == Append(u, e)
  <2>1. n \in Nat /\ text \in Seq(Chars) /\ more \in Texts /\ Len(more) = n + 1 /\ more[n + 1] = c
        /\ \A i \in 1..n : more[i] = text[i]
    BY DEF Texts
  <2>2. u \in Lists /\ v \in Lists /\ Len(u) = n /\ Len(v) = n + 1
    BY <1>3, <2>1
  <2>3. DOMAIN text = 1..n /\ DOMAIN more = 1..(n + 1)
    BY <2>1 DEF Texts
  <2> HIDE DEF more, n
  <2>4. \A i \in 1..n : v[i] = u[i]
    <3> TAKE i \in 1..n
    <3>1. more[i] = text[i] /\ i \in 1..(n + 1) /\ (i > 1 => i - 1 \in 1..n)
      BY <2>1
    <3>2. i > 1 => more[i - 1] = text[i - 1]
      BY <2>1, <3>1
    <3>3. NormalPart(more, i) = NormalPart(text, i)
      BY <3>1, <3>2 DEF NormalPart
    <3>4. QED
      BY <2>3, <3>1, <3>3
  <2>5. v[n + 1] = e
    <3>1. n + 1 \in DOMAIN more
      BY <2>1, <2>3
    <3>2. QED
      BY <3>1
  <2>6. e = IF Swallowed(text, c) THEN <<>> ELSE << Ending(c) >>
    <3>1. more[n + 1] = c
      BY <2>1
    <3>2. text # <<>> <=> n > 0
      BY <2>1, EmptySeq DEF n
    <3>3. n > 0 => more[n] = Last(text)
      BY <2>1 DEF Last, n
    <3>6. e = IF c = "LF" /\ n > 0 /\ more[n] = "CR" THEN <<>> ELSE IF c = "CR" THEN <<"LF">> ELSE <<c>>
      BY <2>1, NormalPartIs
    <3>7. (c = "LF" /\ n > 0 /\ more[n] = "CR") <=> Swallowed(text, c)
      BY <3>2, <3>3 DEF Swallowed
    <3> HIDE DEF e
    <3>8. QED
      BY <3>6, <3>7 DEF Ending
  <2>7. e \in Texts
    <3>1. Ending(c) \in Chars
      BY DEF Ending, Chars
    <3>2. <<>> \in Texts /\ << Ending(c) >> \in Texts
      BY <3>1 DEF Texts
    <3> HIDE DEF e
    <3>3. QED
      BY <2>6, <3>2
  <2> HIDE DEF u, v, e, Parts
  <2>8. w \in Lists /\ Len(w) = n + 1 /\ w[n + 1] = e /\ \A i \in 1..n : w[i] = u[i]
    BY <2>1, <2>2, <2>7 DEF Lists
  <2> HIDE DEF w
  <2>9. \A i \in 1..(n + 1) : w[i] = v[i]
    BY <2>1, <2>4, <2>5, <2>8
  <2>10. w = v
    BY <2>2, <2>8, <2>9, SeqEqual DEF Lists
  <2>11. FlattenSeq(u) \in Seq(Chars) /\ FlattenSeq(Append(u, e)) = FlattenSeq(u) \o e
    <3>1. u \in Seq(Seq(Chars)) /\ e \in Seq(Chars)
      BY <2>2, <2>7 DEF Lists, Texts
    <3>2. QED
      BY <3>1, FlattenMore
  <2>12. Normal(text) = FlattenSeq(u) /\ Normal(more) = FlattenSeq(v)
    BY <1>1, Zenon DEF u, v
  <2>13. Normal(more) = Normal(text) \o e
    BY <2>10, <2>11, <2>12 DEF w
  <2>14. Normal(text) \in Seq(Chars)
    BY <2>11, <2>12
  <2>15. CASE Swallowed(text, c)
    BY <2>6, <2>13, <2>14, <2>15, ConcatEmptySeq DEF more
  <2>16. CASE ~Swallowed(text, c)
    <3>1. Ending(c) \in Chars /\ e = << Ending(c) >>
      BY <2>6, <2>16 DEF Ending, Chars
    <3>2. Append(Normal(text), Ending(c)) = Normal(text) \o << Ending(c) >>
      BY <2>14, <3>1, AppendIsConcat
    <3>3. QED
      BY <2>13, <2>16, <3>1, <3>2 DEF more
  <2>17. QED
    BY <2>15, <2>16
<1>6. QED
  BY <1>2, <1>4, <1>5

(* A text without CR stays as it is. *)
LEMMA AlreadyNormal ==
    ASSUME NEW rest \in Texts, \A i \in DOMAIN rest : rest[i] # "CR"
    PROVE  Normal(rest) = rest
<1> DEFINE Clean(s) == \A i \in DOMAIN s : s[i] # "CR"
           P == {s \in Texts : Clean(s) => Normal(s) = s}
<1>1. <<>> \in P
  <2>1. <<>> \in Texts
    BY DEF Texts
  <2>2. QED
    BY <2>1, NormalStep
<1>2. \A s \in Texts : \A c \in Chars : s \in P => Append(s, c) \in P
  <2> TAKE s \in Texts
  <2> TAKE c \in Chars
  <2>1. Append(s, c) \in Texts
    BY DEF Texts
  <2>2. ASSUME s \in P, Clean(Append(s, c)) PROVE Normal(Append(s, c)) = Append(s, c)
    <3> DEFINE n == Len(s)
               t == Append(s, c)
    <3>1. n \in Nat /\ DOMAIN s = 1..n /\ DOMAIN t = 1..(n + 1) /\ t[n + 1] = c /\ \A i \in 1..n : t[i] = s[i]
      BY DEF Texts
    <3> HIDE DEF n, t
    <3>2. Clean(t)
      BY <2>2 DEF t
    <3>3. Clean(s) /\ c # "CR"
      <4>1. \A i \in 1..n : i \in 1..(n + 1)
        BY <3>1
      <4>2. n + 1 \in 1..(n + 1)
        BY <3>1
      <4>3. QED
        BY <3>1, <3>2, <4>1, <4>2
    <3>4. Normal(s) = s /\ Ending(c) = c
      BY <2>2, <3>3 DEF Ending
    <3>5. ~Swallowed(s, c)
      <4>1. s # <<>> => Last(s) # "CR"
        <5>1. s # <<>> => n \in 1..n
          BY <3>1, EmptySeq DEF n, Texts
        <5>2. QED
          BY <3>1, <3>3, <5>1 DEF Last, n
      <4>2. QED
        BY <4>1 DEF Swallowed
    <3>6. QED
      BY <3>4, <3>5, NormalStep
  <2> HIDE DEF Clean
  <2>3. QED
    BY <2>1, <2>2
<1> HIDE DEF P
<1>3. rest \in P
  <2>1. rest \in Seq(Chars)
    BY DEF Texts
  <2>2. QED
    BY <1>1, <1>2, <2>1, EverySeq DEF Texts
<1>4. QED
  BY <1>3 DEF P

-----------------------------------------------------------------------------
\* After old, new does not begin in the middle of a CRLF.
Whole(old, new) == ReadText(old).cr => new = <<>> \/ Head(new) # "LF"

\* With rest held from old, the decoder makes of new what the format does.
GoesOn(before, rest, old, new) ==
    /\ Fits(Cut(Normal(rest \o new)).rest, ReadText(old \o new))
    /\ before \o Cut(Normal(rest \o new)).decoded = ReadText(old \o new).events

(* A chunk after what is held back: the decoder has then emitted what the  *)
(* format has, and what it holds fits again.                               *)
LEMMA ChunkFits ==
    ASSUME NEW before \in Lists, NEW old \in Texts, NEW rest \in Texts,
           Fits(rest, ReadText(old)), before = ReadText(old).events,
           NEW new \in Texts, Whole(old, new)
    PROVE  GoesOn(before, rest, old, new)
<1> DEFINE CutOf(s) == Cut(Normal(rest \o s))
           StateOf(s) == ReadText(old \o s)
           Good(s) == /\ Fits(CutOf(s).rest, StateOf(s)) /\ before \o CutOf(s).decoded = StateOf(s).events
                      /\ s # <<>> => StateOf(s).cr = (Last(s) = "CR")
           P == {s \in Texts : Whole(old, s) => Good(s)}
<1>1. \A s \in Texts : rest \o s \in Texts /\ old \o s \in Texts
  BY ConcatProperties DEF Texts
<1>2. \A s \in Texts : CutOf(s) \in Cuts /\ StateOf(s) \in Reads
  <2>1. \A t \in Texts : Normal(t) \in Texts
    BY NormalStep
  <2>2. \A t \in Texts : Cut(t) \in Cuts
    <3>1. "LF" \in Chars
      BY DEF Chars
    <3>2. QED
      BY <3>1, CutSteps
  <2>3. \A t \in Texts : ReadText(t) \in Reads
    BY ReadCr
  <2>4. QED
    BY <1>1, <2>1, <2>2, <2>3
<1>3. rest \o <<>> = rest /\ old \o <<>> = old
  BY ConcatEmptySeq DEF Texts
<1>4. <<>> \in P
  <2>1. Normal(rest) = rest /\ Cut(rest) = [decoded |-> <<>>, rest |-> rest]
    BY AlreadyNormal DEF Fits
  <2>2. Cut(Normal(rest \o <<>>)).rest = rest /\ Cut(Normal(rest \o <<>>)).decoded = <<>>
    BY <1>3, <2>1
  <2>3. before \o <<>> = before
    BY ConcatEmptySeq DEF Lists
  <2>4. Good(<<>>)
    BY <1>3, <2>2, <2>3
  <2>5. <<>> \in Texts
    BY DEF Texts
  <2> HIDE DEF Good
  <2>6. QED
    BY <2>4, <2>5
<1>5. ASSUME NEW s \in Texts, NEW c \in Chars, s \in P PROVE Append(s, c) \in P
  <2> DEFINE t == Append(s, c)
             hold == rest \o s
             cut == CutOf(s)
             state == StateOf(s)
  <2>1. t \in Texts /\ t # <<>> /\ Last(t) = c /\ Head(t) = IF s = <<>> THEN c ELSE Head(s)
    <3>1. s \in Seq(Chars)
      BY DEF Texts
    <3>2. t \in Seq(Chars) /\ t # <<>> /\ Last(t) = c
      BY <3>1, FrontOfAppend
    <3>3. Head(t) = IF s = <<>> THEN c ELSE Head(s)
      BY <3>1, HeadTailAppend
    <3>4. QED
      BY <3>2, <3>3 DEF Texts
  <2>2. rest \o t = Append(hold, c) /\ old \o t = Append(old \o s, c)
    BY DEF Texts
  <2>3. hold \in Texts /\ old \o s \in Texts /\ cut \in Cuts /\ state \in Reads /\ Normal(hold) \in Texts
    BY <1>1, <1>2, NormalStep
  <2>4. StateOf(t) = ReadChar(state, c) /\ StateOf(t).cr = (c = "CR")
    BY <2>2, <2>3, ReadSteps, ReadCr
  <2>5. Normal(rest \o t) = IF Swallowed(hold, c) THEN Normal(hold) ELSE Append(Normal(hold), Ending(c))
    BY <2>2, <2>3, NormalStep
  <2>6. Ending(c) \in Chars
    BY DEF Ending, Chars
  <2>7. CutOf(t) = IF Swallowed(hold, c) THEN cut ELSE CutChar(cut, Ending(c))
    BY <2>3, <2>5, <2>6, CutSteps
  <2>8. s # <<>> => hold # <<>> /\ Last(hold) = Last(s)
    <3>1. ASSUME s # <<>> PROVE hold # <<>> /\ Last(hold) = Last(s)
      <4>1. PICK r \in Texts : s = Append(r, Last(s)) /\ Last(s) \in Chars
        BY <3>1, FrontAndLast DEF Texts
      <4> DEFINE b == Last(s)
      <4>2. b \in Chars /\ s = Append(r, b)
        BY <4>1
      <4> HIDE DEF b
      <4>3. rest \o Append(r, b) = Append(rest \o r, b) /\ rest \o r \in Texts
        BY <1>1, <4>2 DEF Texts
      <4>4. Append(rest \o r, b) # <<>> /\ Last(Append(rest \o r, b)) = b
        BY <4>2, <4>3, FrontOfAppend DEF Texts
      <4>5. QED
        BY <4>2, <4>3, <4>4 DEF b
    <3>2. QED
      BY <3>1
  <2>9. s = <<>> => ~Swallowed(hold, c)
    <3>1. ASSUME s = <<>>, rest # <<>> PROVE Last(rest) # "CR"
      <4>1. Len(rest) \in DOMAIN rest
        BY <3>1, EmptySeq DEF Texts
      <4>2. QED
        BY <4>1 DEF Fits, Last
    <3>2. s = <<>> => hold = rest
      BY <1>3
    <3> HIDE DEF hold
    <3>3. QED
      BY <3>1, <3>2 DEF Swallowed
  <2> HIDE DEF CutOf, StateOf, hold, cut, state, t
  <2>10. ASSUME Whole(old, t) PROVE Good(t)
    <3>1. Whole(old, s)
      BY <2>1, <2>10 DEF Whole
    <3>2. Good(s)
      BY <1>5, <3>1
    <3>3. Fits(cut.rest, state) /\ before \o cut.decoded = state.events /\ (s # <<>> => state.cr = (Last(s) = "CR"))
      BY <3>2 DEF cut, state
    <3>4. Swallowed(hold, c) => c = "LF" /\ state.cr
      BY <2>8, <2>9, <3>3 DEF Swallowed
    <3>5. c = "LF" /\ state.cr => Swallowed(hold, c)
      <4>1. CASE s = <<>>
        <5>1. state = ReadText(old)
          BY <1>3, <4>1 DEF state, StateOf
        <5>2. state.cr => c # "LF"
          BY <2>1, <2>10, <4>1, <5>1 DEF Whole
        <5>3. QED
          BY <5>2
      <4>2. CASE s # <<>>
        BY <2>8, <3>3, <4>2 DEF Swallowed
      <4>3. QED
        BY <4>1, <4>2
    <3>6. CASE Swallowed(hold, c)
      <4>1. StateOf(t) = [state EXCEPT !.cr = FALSE]
        <5>1. c = "LF" /\ state.cr
          BY <3>4, <3>6
        <5>2. ReadChar(state, c) = [state EXCEPT !.cr = (c = "CR")]
          BY <5>1 DEF ReadChar
        <5>3. QED
          BY <2>4, <5>1, <5>2
      <4>2. StateOf(t).line = state.line /\ StateOf(t).data = state.data /\ StateOf(t).events = state.events
        BY <2>3, <4>1 DEF Reads
      <4>3. CutOf(t) = cut
        BY <2>7, <3>6
      <4>4. Fits(CutOf(t).rest, StateOf(t))
        BY <3>3, <4>2, <4>3 DEF Fits
      <4>5. QED
        BY <2>1, <2>4, <3>3, <4>2, <4>3, <4>4
    <3>7. CASE ~Swallowed(hold, c)
      <4>1. ~(c = "LF" /\ state.cr)
        BY <3>5, <3>7
      <4>2. /\ Fits(CutChar(cut, Ending(c)).rest, ReadChar(state, c))
            /\ before \o CutChar(cut, Ending(c)).decoded = ReadChar(state, c).events
        BY <2>3, <3>3, <4>1, OneMore
      <4>3. QED
        BY <2>1, <2>4, <2>7, <3>7, <4>2
    <3>8. QED
      BY <3>6, <3>7
  <2> HIDE DEF Good
  <2>11. QED
    BY <2>1, <2>10 DEF t
<1> HIDE DEF P
<1>6. new \in P
  <2>1. new \in Seq(Chars) /\ \A s \in Seq(Chars) : \A c \in Chars : s \in P => Append(s, c) \in P
    BY <1>5 DEF Texts
  <2>2. QED
    BY <1>4, <2>1, EverySeq
<1>7. Good(new)
  BY <1>6 DEF P
<1>8. QED
  BY <1>7 DEF GoesOn

-----------------------------------------------------------------------------
(* What our own frames say. *)

\* A line without a line ending.
PlainLines == Seq(Seq({"t"}))

OwnData == Seq({"LF", "t"})

LEMMA OwnLines == ASSUME NEW data \in OwnData PROVE data \in Texts /\ Lines(data) \in PlainLines /\ Lines(data) # <<>>
<1>1. ASSUME NEW s \in OwnData PROVE s \in Texts
  BY SeqMonotonic DEF OwnData, Texts, Chars
<1> DEFINE P == {s \in OwnData : Lines(s) \in PlainLines}
<1>2. <<>> \in P
  <2> DEFINE T == Seq({"t"})
             e == <<>>
  <2>1. e \in T /\ <<>> \in OwnData
    BY DEF OwnData
  <2> HIDE DEF T, e
  <2>2. << e >> \in Seq(T)
    BY <2>1
  <2>3. Lines(<<>>) \in PlainLines
    BY <2>2, LinesStep DEF PlainLines, T, e
  <2>4. QED
    BY <2>1, <2>3
<1>3. ASSUME NEW s \in OwnData, NEW c \in {"LF", "t"}, s \in P PROVE Append(s, c) \in P
  <2>1. Append(s, c) \in OwnData
    BY DEF OwnData
  <2>2. s \in Texts /\ c \in Chars
    BY <1>1 DEF Chars
  <2>3. Lines(Append(s, c)) = AddChar(Lines(s), c) /\ Lines(s) # <<>>
    BY <2>2, LinesStep DEF LineLists
  <2> DEFINE A == {"t"}
             T == Seq(A)
  <2>4. Lines(s) \in Seq(T)
    BY <1>3 DEF PlainLines
  <2>0. "t" \in A /\ "LF" \notin A
    OBVIOUS
  <2> HIDE DEF A, T
  <2>5. PICK front \in Seq(T), line \in T : Lines(s) = Append(front, line)
    BY <2>3, <2>4, FrontAndLast
  <2>6. front \in Seq(Seq(A)) /\ line \in Seq(A)
    BY <2>5 DEF T
  <2> DEFINE r == Append(front, line)
  <2>7. CASE c = "LF"
    <3>1. AddChar(r, c) = Append(r, <<>>) /\ Append(r, <<>>) \in Seq(Seq(A))
      BY <2>6, <2>7, AddCharIs
    <3> HIDE DEF r
    <3>2. AddChar(r, c) \in Seq(Seq(A))
      BY <3>1
    <3>3. QED
      BY <2>1, <2>3, <2>5, <3>2 DEF PlainLines, A, r
  <2>8. CASE c = "t"
    <3>1. c \in A \ {"LF"}
      BY <2>0, <2>8
    <3>2. AddChar(r, c) = Append(front, Append(line, c)) /\ Append(front, Append(line, c)) \in Seq(Seq(A))
      BY <2>6, <3>1, AddCharIs
    <3> HIDE DEF r
    <3>3. AddChar(r, c) \in Seq(Seq(A))
      BY <3>2
    <3>4. QED
      BY <2>1, <2>3, <2>5, <3>3 DEF PlainLines, A, r
  <2>9. QED
    BY <2>7, <2>8
<1> HIDE DEF P
<1>4. data \in P
  <2>1. data \in Seq({"LF", "t"}) /\ \A s \in Seq({"LF", "t"}) : \A c \in {"LF", "t"} : s \in P => Append(s, c) \in P
    BY <1>3 DEF OwnData
  <2>2. QED
    BY <1>2, <2>1, EverySeq
<1>5. data \in Texts
  BY <1>1
<1>6. Lines(data) # <<>>
  BY <1>5, FrameTypes DEF LineLists
<1>7. QED
  BY <1>4, <1>5, <1>6 DEF P

(* The receiver joins what the sender split. *)
LEMMA JoinsLines == ASSUME NEW data \in Texts PROVE Join(Lines(data)) = data
<1> DEFINE J(lines) == Spread(JoinPart, lines)
           P == {s \in Texts : J(Lines(s)) = <<"LF">> \o s}
<1>1. <<>> \in P
  <2> DEFINE none == <<>>
             line == <<>>
  <2>1. none \in Lists /\ line \in Texts /\ <<>> \in Texts
    BY DEF Lists, Texts
  <2>2. Lines(<<>>) = Append(none, line)
    BY LinesStep
  <2> HIDE DEF line
  <2>3. J(Append(none, line)) = J(none) \o (<<"LF">> \o line)
    BY <2>1, JoinIs
  <2>4. J(none) = <<>>
    BY JoinIs
  <2>5. <<"LF">> \o line \in Seq(Chars)
    BY <2>1 DEF Texts, Chars
  <2>6. <<>> \o (<<"LF">> \o line) = <<"LF">> \o line
    BY <2>5, ConcatEmptySeq
  <2> HIDE DEF J
  <2>7. J(Lines(<<>>)) = <<"LF">> \o line
    BY <2>2, <2>3, <2>4, <2>6
  <2>8. QED
    BY <2>1, <2>7 DEF line
<1>2. ASSUME NEW s \in Texts, NEW c \in Chars, s \in P PROVE Append(s, c) \in P
  <2> DEFINE front == Front(Lines(s))
             line == Last(Lines(s))
             lf == <<"LF">>
  <2>1. Lines(s) = Append(front, line) /\ front \in Lists /\ line \in Texts /\ Lines(s) \in Lists
    BY LineEnds DEF LineLists
  <2>2. Lines(Append(s, c)) = AddChar(Lines(s), c) /\ Append(s, c) \in Texts
    BY LinesStep DEF Texts
  <2> HIDE DEF front, line
  <2>3. J(Lines(s)) = J(front) \o (lf \o line) /\ J(front) \in Seq(Chars)
    BY <2>1, JoinIs DEF Texts
  <2>4. front \in Seq(Seq(Chars)) /\ line \in Seq(Chars) /\ lf \in Seq(Chars) /\ s \in Seq(Chars)
    BY <2>1 DEF Lists, Texts, Chars
  <2>5. J(Lines(s)) = lf \o s
    BY <1>2
  <2> HIDE DEF lf
  <2>6. J(Lines(Append(s, c))) = Append(J(Lines(s)), c)
    <3>1. CASE c = "LF"
      <4>1. Lines(Append(s, c)) = Append(Lines(s), <<>>)
        BY <2>1, <2>2, <2>4, <3>1, AddCharIs
      <4> DEFINE e == <<>>
      <4>2. e \in Texts
        BY DEF Texts
      <4> HIDE DEF e
      <4>3. J(Append(Lines(s), e)) = J(Lines(s)) \o (<<"LF">> \o e)
        BY <2>1, <4>2, JoinIs
      <4>4. <<"LF">> \o e = <<c>> /\ c \in Chars
        BY <3>1 DEF e
      <4>5. J(Lines(s)) \in Seq(Chars)
        BY <2>1, JoinIs DEF Texts
      <4> HIDE DEF J
      <4>6. J(Lines(s)) \o <<c>> = Append(J(Lines(s)), c)
        BY <4>4, <4>5, AppendIsConcat
      <4>7. QED
        BY <4>1, <4>3, <4>4, <4>6 DEF e
    <3>2. CASE c # "LF"
      <4> DEFINE more == Append(line, c)
      <4>1. Lines(Append(s, c)) = Append(front, more) /\ more \in Texts /\ more \in Seq(Chars)
        BY <2>1, <2>2, <2>4, <3>2, AddCharIs DEF Texts
      <4>2. lf \o more = Append(lf \o line, c) /\ lf \o line \in Seq(Chars)
        BY <2>4
      <4> HIDE DEF more
      <4>3. J(Append(front, more)) = J(front) \o (lf \o more)
        BY <2>1, <4>1, JoinIs DEF lf
      <4> DEFINE u == J(front)
                 v == lf \o line
      <4>4. u \in Seq(Chars) /\ v \in Seq(Chars)
        BY <2>3, <4>2
      <4> HIDE DEF u, v
      <4>5. u \o Append(v, c) = Append(u \o v, c)
        BY <4>4
      <4>6. QED
        BY <2>3, <4>1, <4>2, <4>3, <4>5 DEF u, v
    <3>3. QED
      BY <3>1, <3>2
  <2> HIDE DEF J
  <2>7. Append(lf \o s, c) = lf \o Append(s, c)
    <3>1. lf \in Seq(Chars) /\ s \in Seq(Chars) /\ c \in Chars
      BY <2>4
    <3> HIDE DEF P
    <3>2. QED
      BY <3>1
  <2>8. J(Lines(Append(s, c))) = lf \o Append(s, c)
    BY <2>5, <2>6, <2>7
  <2>9. QED
    BY <2>2, <2>8 DEF lf
<1> HIDE DEF P
<1>3. data \in P
  <2>1. data \in Seq(Chars) /\ \A s \in Seq(Chars) : \A c \in Chars : s \in P => Append(s, c) \in P
    BY <1>2 DEF Texts
  <2>2. <<>> \in P
    BY <1>1
  <2>3. QED
    BY <2>1, <2>2, EverySeq
<1>4. J(Lines(data)) = <<"LF">> \o data
  BY <1>3 DEF P
<1>5. Lines(data) \in Lists
  BY FrameTypes DEF LineLists
<1>6. Join(Lines(data)) = Tail(<<"LF">> \o data)
  BY <1>4, <1>5, JoinIs
<1>7. Tail(<<"LF">> \o data) = data
  <2>1. data \in Seq(Chars) /\ <<"LF">> \in Seq(Chars)
    BY DEF Texts, Chars
  <2> DEFINE t == <<"LF">> \o data
  <2>2. t \in Seq(Chars) /\ Len(t) = 1 + Len(data) /\ \A i \in 1..Len(data) : t[i + 1] = data[i]
    BY <2>1
  <2>3. t # <<>>
    BY <2>1, <2>2, EmptySeq
  <2> HIDE DEF t
  <2>4. Tail(t) \in Seq(Chars) /\ Len(Tail(t)) = Len(data) /\ \A i \in 1..Len(data) : Tail(t)[i] = data[i]
    BY <2>1, <2>2, <2>3
  <2>5. Tail(t) = data
    BY <2>1, <2>4, SeqEqual
  <2>6. QED
    BY <2>5 DEF t
<1>8. QED
  BY <1>6, <1>7

(* What the format has read of a text that stands between two characters. *)
Reading(text, line, data, events) ==
    /\ text \in Texts /\ line \in Texts /\ data \in Lists /\ events \in Lists
    /\ ReadText(text) = [line |-> line, data |-> data, cr |-> FALSE, events |-> events]

LEMMA ReadsOn ==
    ASSUME NEW text, NEW line, NEW data, NEW events, Reading(text, line, data, events)
    PROVE  /\ \A c \in {"d", "t"} : Reading(Append(text, c), Append(line, c), data, events)
           /\ line = <<>> => Reading(Append(text, "LF"), <<>>, <<>>, events \o Event(data))
           /\ \A l \in Texts : line = <<"d">> \o l => Reading(Append(text, "LF"), <<>>, Append(data, l), events)
<1> DEFINE state == [line |-> line, data |-> data, cr |-> FALSE, events |-> events]
<1>1. text \in Texts /\ line \in Texts /\ data \in Lists /\ events \in Lists /\ ReadText(text) = state
  BY DEF Reading
<1>2. <<>> \in Texts /\ <<>> \in Lists
  BY DEF Texts, Lists
<1>3. \A c \in Chars : Append(text, c) \in Texts /\ Append(line, c) \in Texts
                       /\ ReadText(Append(text, c)) = ReadChar(state, c)
  <2> TAKE c \in Chars
  <2> HIDE DEF state
  <2>1. Append(text, c) \in Texts /\ Append(line, c) \in Texts
    BY <1>1 DEF Texts
  <2>2. ReadText(Append(text, c)) = ReadChar(ReadText(text), c)
    BY <1>1, ReadSteps
  <2>3. QED
    BY <1>1, <2>1, <2>2
<1>4. ASSUME NEW c \in {"d", "t"} PROVE Reading(Append(text, c), Append(line, c), data, events)
  <2>1. c \in Chars
    BY DEF Chars
  <2>2. ReadChar(state, c) = [line |-> Append(line, c), data |-> data, cr |-> FALSE, events |-> events]
    BY DEF ReadChar
  <2>3. QED
    BY <1>1, <1>3, <2>1, <2>2 DEF Reading
<1>5. ASSUME line = <<>> PROVE Reading(Append(text, "LF"), <<>>, <<>>, events \o Event(data))
  <2>1. ReadChar(state, "LF") = [line |-> <<>>, data |-> <<>>, cr |-> FALSE, events |-> events \o Event(data)]
    BY <1>5 DEF ReadChar
  <2>2. "LF" \in Chars
    BY DEF Chars
  <2>3. events \o Event(data) \in Lists
    BY <1>1, EventTypes, ConcatProperties DEF Lists
  <2>4. QED
    BY <1>2, <1>3, <2>1, <2>2, <2>3 DEF Reading
<1>6. ASSUME NEW l \in Texts, line = <<"d">> \o l PROVE Reading(Append(text, "LF"), <<>>, Append(data, l), events)
  <2>1. line # <<>> /\ Head(line) = "d" /\ Tail(line) = l
    <3>1. l \in Seq(Chars) /\ <<"d">> \in Seq(Chars) /\ line \in Seq(Chars)
      BY <1>1 DEF Texts, Chars
    <3>2. Len(line) = 1 + Len(l) /\ line[1] = "d" /\ \A i \in 1..Len(l) : line[i + 1] = l[i]
      BY <1>6, <3>1
    <3>3. line # <<>>
      BY <3>1, <3>2, EmptySeq
    <3>4. Tail(line) \in Seq(Chars) /\ Len(Tail(line)) = Len(l) /\ \A i \in 1..Len(l) : Tail(line)[i] = l[i]
      BY <3>1, <3>2, <3>3
    <3>5. Tail(line) = l
      BY <3>1, <3>4, SeqEqual
    <3>6. QED
      BY <3>1, <3>2, <3>3, <3>5
  <2>2. ReadChar(state, "LF") = [line |-> <<>>, data |-> Append(data, l), cr |-> FALSE, events |-> events]
    BY <2>1 DEF ReadChar, IsData
  <2>3. "LF" \in Chars
    BY DEF Chars
  <2>4. Append(data, l) \in Lists
    BY <1>1 DEF Lists
  <2>5. QED
    BY <1>1, <1>2, <1>3, <2>2, <2>3, <2>4 DEF Reading
<1>7. QED
  BY <1>4, <1>5, <1>6

Unbroken == Seq({"t"})

\* A data line, as frame writes it.
LinePart == [line \in Unbroken |-> <<"d">> \o line \o <<"LF">>]

LEMMA LinePartTypes ==
    /\ LinePart \in [Unbroken -> Seq(Chars)]
    /\ \A line \in Unbroken : /\ line \in Texts /\ <<"d">> \o line \in Texts
                           /\ LinePart[line] = Append(<<"d">> \o line, "LF")
<1>1. ASSUME NEW line \in Unbroken
      PROVE  line \in Texts /\ <<"d">> \o line \in Texts /\ <<"d">> \o line \o <<"LF">> \in Seq(Chars)
             /\ <<"d">> \o line \o <<"LF">> = Append(<<"d">> \o line, "LF")
  <2>1. line \in Seq(Chars)
    BY SeqMonotonic DEF Unbroken, Chars
  <2>2. <<"d">> \in Seq(Chars) /\ "LF" \in Chars
    BY DEF Chars
  <2> DEFINE u == <<"d">> \o line
  <2>3. u \in Seq(Chars)
    BY <2>1, <2>2, ConcatProperties
  <2> HIDE DEF u
  <2>4. Append(u, "LF") = u \o <<"LF">> /\ Append(u, "LF") \in Seq(Chars)
    BY <2>2, <2>3, AppendIsConcat
  <2>5. QED
    BY <2>1, <2>3, <2>4 DEF u, Texts
<1>2. QED
  BY <1>1 DEF LinePart

LEMMA ReadsLine ==
    ASSUME NEW text, NEW data, NEW events, Reading(text, <<>>, data, events), NEW line \in Unbroken
    PROVE  Reading(text \o LinePart[line], <<>>, Append(data, line), events)
<1> DEFINE P == {l \in Unbroken : Reading(text \o (<<"d">> \o l), <<"d">> \o l, data, events)}
<1>1. text \in Texts /\ text \in Seq(Chars) /\ "d" \in Chars /\ "t" \in Chars /\ "LF" \in Chars
  BY DEF Reading, Texts, Chars
<1>2. <<>> \in P
  <2>1. Reading(Append(text, "d"), Append(<<>>, "d"), data, events)
    BY ReadsOn
  <2>2. Append(<<>>, "d") = <<"d">> \o <<>> /\ Append(text, "d") = text \o (<<"d">> \o <<>>)
    <3>1. <<"d">> \o <<>> = <<"d">> /\ Append(<<>>, "d") = <<"d">>
      OBVIOUS
    <3>2. Append(text, "d") = text \o <<"d">>
      BY <1>1, AppendIsConcat
    <3>3. QED
      BY <3>1, <3>2
  <2>3. <<>> \in Unbroken
    BY DEF Unbroken
  <2>4. QED
    BY <2>1, <2>2, <2>3
<1>3. ASSUME NEW l \in Unbroken, NEW c \in {"t"}, l \in P PROVE Append(l, c) \in P
  <2> DEFINE u == <<"d">> \o l
  <2>1. Reading(text \o u, u, data, events)
    BY <1>3
  <2>2. u \in Seq(Chars) /\ l \in Seq(Chars) /\ <<"d">> \in Seq(Chars) /\ c \in Chars
    BY <1>1, LinePartTypes DEF Texts
  <2>3. Append(u, c) = <<"d">> \o Append(l, c)
    BY <2>2
  <2> HIDE DEF u
  <2>4. Append(text \o u, c) = text \o Append(u, c)
    <3>1. text \in Seq(Chars) /\ u \in Seq(Chars) /\ c \in Chars
      BY <1>1, <2>2
    <3> HIDE DEF P
    <3>2. QED
      BY <3>1
  <2>5. Reading(Append(text \o u, c), Append(u, c), data, events)
    BY <2>1, ReadsOn
  <2>6. Append(l, c) \in Unbroken
    BY DEF Unbroken
  <2>7. QED
    BY <2>3, <2>4, <2>5, <2>6
<1> HIDE DEF P
<1>4. line \in P
  <2>1. line \in Seq({"t"}) /\ \A s \in Seq({"t"}) : \A c \in {"t"} : s \in P => Append(s, c) \in P
    BY <1>3 DEF Unbroken
  <2>2. QED
    BY <1>2, <2>1, EverySeq
<1> DEFINE u == <<"d">> \o line
<1>5. Reading(text \o u, u, data, events) /\ line \in Texts /\ u \in Seq(Chars)
  BY <1>4, LinePartTypes DEF P, Texts
<1>6. LinePart[line] = Append(u, "LF") /\ u = <<"d">> \o line
  BY LinePartTypes
<1> HIDE DEF u
<1>7. Reading(Append(text \o u, "LF"), <<>>, Append(data, line), events)
  BY <1>5, <1>6, ReadsOn
<1>8. Append(text \o u, "LF") = text \o Append(u, "LF")
  BY <1>1, <1>5
<1>9. QED
  BY <1>6, <1>7, <1>8

LEMMA ReadsLines ==
    ASSUME NEW text, NEW events, Reading(text, <<>>, <<>>, events), NEW lines \in Seq(Unbroken)
    PROVE  Reading(text \o Spread(LinePart, lines), <<>>, lines, events) /\ Spread(LinePart, lines) \in Texts
<1> DEFINE W(s) == Spread(LinePart, s)
           P == {s \in Seq(Unbroken) : Reading(text \o W(s), <<>>, s, events)}
<1>1. text \in Seq(Chars)
  BY DEF Reading, Texts
<1>2. /\ W(<<>>) = <<>>
      /\ \A s \in Seq(Unbroken) : W(s) \in Seq(Chars)
      /\ \A s \in Seq(Unbroken) : \A c \in Unbroken : W(Append(s, c)) = W(s) \o LinePart[c]
  BY LinePartTypes, SpreadStep
<1>3. <<>> \in P
  <2>1. text \o <<>> = text
    BY <1>1, ConcatEmptySeq
  <2>2. <<>> \in Seq(Unbroken)
    OBVIOUS
  <2> HIDE DEF W
  <2>3. QED
    BY <1>2, <2>1, <2>2
<1>4. ASSUME NEW s \in Seq(Unbroken), NEW c \in Unbroken, s \in P PROVE Append(s, c) \in P
  <2> DEFINE u == LinePart[c]
             w == W(s)
  <2>1. Reading(text \o w, <<>>, s, events) /\ W(Append(s, c)) = w \o u
    BY <1>2, <1>4
  <2>2. w \in Seq(Chars) /\ u \in Seq(Chars)
    BY <1>2, LinePartTypes
  <2> HIDE DEF w, W
  <2>3. Reading((text \o w) \o u, <<>>, Append(s, c), events)
    BY <2>1, ReadsLine
  <2> HIDE DEF u
  <2>4. (text \o w) \o u = text \o (w \o u)
    BY <1>1, <2>2, ConcatAssociative
  <2>5. Append(s, c) \in Seq(Unbroken)
    OBVIOUS
  <2>6. QED
    BY <2>1, <2>3, <2>4, <2>5
<1> HIDE DEF P, W
<1>5. lines \in P
  BY <1>3, <1>4, EverySeq
<1>6. QED
  BY <1>2, <1>5 DEF P, W, Texts

(* A frame of our own reads as one event, its data. *)
LEMMA ReadsFrame ==
    ASSUME NEW text, NEW events, Reading(text, <<>>, <<>>, events), NEW data \in OwnData
    PROVE  Reading(text \o Frame(data), <<>>, <<>>, Append(events, data))
<1> DEFINE lines == Lines(data)
           w == Spread(LinePart, lines)
<1>1. data \in Texts /\ lines \in Seq(Unbroken) /\ lines # <<>>
  BY OwnLines DEF PlainLines, Unbroken
<1>2. Frame(data) = Append(w, "LF")
  <2>1. \A i \in DOMAIN lines : lines[i] \in Unbroken
    BY <1>1
  <2>2. [i \in DOMAIN lines |-> <<"d">> \o lines[i] \o <<"LF">>] = [i \in DOMAIN lines |-> LinePart[lines[i]]]
    BY <2>1 DEF LinePart
  <2>3. QED
    BY <2>2, Zenon DEF Frame, Spread
<1>3. Event(lines) = <<data>>
  BY <1>1, JoinsLines DEF Event
<1>4. Reading(text \o w, <<>>, lines, events) /\ w \in Seq(Chars)
  BY <1>1, ReadsLines DEF Texts
<1> HIDE DEF lines, w
<1>5. Reading(Append(text \o w, "LF"), <<>>, <<>>, events \o Event(lines))
  BY <1>4, ReadsOn
<1>6. Append(text \o w, "LF") = text \o Append(w, "LF")
  <2>1. text \in Seq(Chars) /\ "LF" \in Chars
    BY DEF Reading, Texts, Chars
  <2>2. QED
    BY <1>4, <2>1
<1>7. events \o <<data>> = Append(events, data)
  <2>1. events \in Seq(Texts)
    BY DEF Reading, Lists
  <2>2. QED
    BY <1>1, <2>1, AppendIsConcat
<1>8. QED
  BY <1>2, <1>3, <1>5, <1>6, <1>7

FramePart == [data \in OwnData |-> Frame(data)]

(* All of our own frames read as the data framed, and end in LF. *)
LEMMA ReadsOwn ==
    ASSUME NEW events \in Seq(OwnData)
    PROVE  LET text == FlattenSeq([i \in DOMAIN events |-> Frame(events[i])])
           IN  Reading(text, <<>>, <<>>, events) /\ (text = <<>> \/ Last(text) = "LF")
<1> DEFINE W(s) == Spread(FramePart, s)
           Ends(s) == s = <<>> \/ Last(s) = "LF"
           P == {s \in Seq(OwnData) : Reading(W(s), <<>>, <<>>, s) /\ Ends(W(s))}
<1>1. Reading(<<>>, <<>>, <<>>, <<>>)
  <2>1. <<>> \in Texts /\ <<>> \in Lists
    BY DEF Texts, Lists
  <2>2. QED
    BY <2>1, ReadSteps DEF Reading, ReadStart
<1>2. \A data \in OwnData : Frame(data) \in Seq(Chars) /\ Frame(data) # <<>> /\ Last(Frame(data)) = "LF"
  <2> TAKE data \in OwnData
  <2> DEFINE lines == Lines(data)
             w == Spread(LinePart, lines)
  <2>1. lines \in Seq(Unbroken)
    BY OwnLines DEF PlainLines, Unbroken
  <2>2. Frame(data) = Append(w, "LF")
    <3>1. \A i \in DOMAIN lines : lines[i] \in Unbroken
      BY <2>1
    <3>2. [i \in DOMAIN lines |-> <<"d">> \o lines[i] \o <<"LF">>] = [i \in DOMAIN lines |-> LinePart[lines[i]]]
      BY <3>1 DEF LinePart
    <3>3. QED
      BY <3>2, Zenon DEF Frame, Spread
  <2>3. w \in Seq(Chars) /\ "LF" \in Chars
    BY <1>1, <2>1, ReadsLines DEF Texts, Chars
  <2> HIDE DEF w
  <2>4. Append(w, "LF") \in Seq(Chars) /\ Append(w, "LF") # <<>> /\ Last(Append(w, "LF")) = "LF"
    BY <2>3, FrontOfAppend
  <2>5. QED
    BY <2>2, <2>4
<1>3. FramePart \in [OwnData -> Seq(Chars)]
  BY <1>2 DEF FramePart
<1>4. /\ W(<<>>) = <<>>
      /\ \A s \in Seq(OwnData) : W(s) \in Seq(Chars)
      /\ \A s \in Seq(OwnData) : \A data \in OwnData : W(Append(s, data)) = W(s) \o FramePart[data]
  BY <1>3, SpreadStep
<1>5. <<>> \in P
  <2>1. <<>> \in Seq(OwnData)
    OBVIOUS
  <2> HIDE DEF W
  <2>2. QED
    BY <1>1, <1>4, <2>1
<1>6. ASSUME NEW s \in Seq(OwnData), NEW data \in OwnData, s \in P PROVE Append(s, data) \in P
  <2> DEFINE w == W(s)
             u == Frame(data)
             v == Append(s, data)
  <2>1. Reading(w, <<>>, <<>>, s) /\ W(v) = w \o u
    BY <1>4, <1>6 DEF FramePart
  <2>2. w \in Seq(Chars) /\ u \in Seq(Chars) /\ u # <<>> /\ Last(u) = "LF"
    BY <1>2, <1>4
  <2> HIDE DEF w, W
  <2>3. Reading(w \o u, <<>>, <<>>, v)
    BY <2>1, ReadsFrame
  <2> HIDE DEF u
  <2>4. Last(w \o u) = "LF"
    <3>1. Len(u) > 0 /\ Len(w \o u) = Len(w) + Len(u)
      BY <2>2, EmptySeq
    <3>2. (w \o u)[Len(w) + Len(u)] = u[Len(u)]
      BY <2>2, <3>1
    <3>3. QED
      BY <2>2, <3>1, <3>2 DEF Last
  <2>5. v \in Seq(OwnData)
    OBVIOUS
  <2> HIDE DEF v
  <2>6. QED
    BY <2>1, <2>3, <2>4, <2>5 DEF v
<1> HIDE DEF P, W
<1>7. events \in P
  BY <1>5, <1>6, EverySeq
<1>8. W(events) = FlattenSeq([i \in DOMAIN events |-> Frame(events[i])])
  <2>1. \A i \in DOMAIN events : events[i] \in OwnData
    OBVIOUS
  <2>2. [i \in DOMAIN events |-> Frame(events[i])] = [i \in DOMAIN events |-> FramePart[events[i]]]
    BY <2>1 DEF FramePart
  <2>3. QED
    BY <2>2, Zenon DEF W, Spread
<1>9. QED
  BY <1>7, <1>8 DEF P

-----------------------------------------------------------------------------
(* What is not deferred of a text. *)
Kept(text) == SubSeq(text, 1, Len(text) - Len(Deferred(text)))

(* What has been taken and decoded so far: the buffer is a rest that fits  *)
(* what the format has read, and a deferred CR; and the text of our own is *)
(* made of frames.                                                         *)
SseInv ==
    LET got == SubSeq(wire, 1, taken)
        rest == SubSeq(buffer, 1, Len(buffer) - Len(Deferred(got)))
    IN  /\ wire \in Texts /\ taken \in 0..Len(wire)
        /\ \/ own = <<>>
           \/ own \in Seq(OwnData) /\ wire = FlattenSeq([i \in DOMAIN own |-> Frame(own[i])])
        /\ buffer = rest \o Deferred(got)
        /\ Fits(rest, ReadText(Kept(got)))
        /\ decoded = ReadText(Kept(got)).events

Regroups(s, t, u) == (s \o t) \o u = s \o (t \o u)

LEMMA Together ==
    ASSUME NEW s \in Texts, NEW t \in Texts, NEW u \in Texts
    PROVE  s \o t \in Texts /\ Regroups(s, t, u)
<1>1. s \in Seq(Chars) /\ t \in Seq(Chars) /\ u \in Seq(Chars)
  BY DEF Texts
<1>2. (s \o t) \o u = s \o (t \o u)
  BY <1>1, ConcatAssociative
<1>3. s \o t \in Seq(Chars)
  BY <1>1, ConcatProperties
<1>4. QED
  BY <1>2, <1>3 DEF Texts, Regroups

LEMMA HeadStays ==
    ASSUME NEW s \in Texts, NEW t \in Texts, s # <<>>
    PROVE  Head(s \o t) = Head(s) /\ s \o t # <<>>
<1>1. s \in Seq(Chars) /\ t \in Seq(Chars) /\ Len(s) \in Nat \ {0}
  BY EmptySeq DEF Texts
<1>2. (s \o t)[1] = s[1]
  BY <1>1
<1>3. s \o t # <<>>
  BY <1>1, ConcatEqualIffEmpty
<1>4. QED
  BY <1>1, <1>2

(* A longer beginning of a text is a shorter one and a chunk. *)
LEMMA ChunkAfter ==
    ASSUME NEW s \in Texts, NEW i \in Nat, NEW n \in Nat \ {0}, i + n <= Len(s)
    PROVE  /\ SubSeq(s, 1, i) \in Texts /\ SubSeq(s, i + 1, i + n) \in Texts /\ SubSeq(s, i + 1, i + n) # <<>>
           /\ SubSeq(s, 1, i + n) = SubSeq(s, 1, i) \o SubSeq(s, i + 1, i + n)
<1> DEFINE got == SubSeq(s, 1, i)
           chunk == SubSeq(s, i + 1, i + n)
           more == SubSeq(s, 1, i + n)
           both == got \o chunk
<1>1. s \in Seq(Chars) /\ Len(s) \in Nat
  BY DEF Texts
<1>2. got \in Seq(Chars) /\ Len(got) = i /\ \A j \in 1..i : got[j] = s[j]
  BY <1>1
<1>3. chunk \in Seq(Chars) /\ Len(chunk) = n /\ \A j \in 1..n : chunk[j] = s[i + j]
  BY <1>1
<1>4. more \in Seq(Chars) /\ Len(more) = i + n /\ \A j \in 1..(i + n) : more[j] = s[j]
  BY <1>1
<1> HIDE DEF got, chunk, more
<1>5. chunk # <<>>
  <2>1. Len(chunk) # 0
    BY <1>3
  <2>2. QED
    BY <1>3, <2>1, EmptySeq
<1>6. both \in Seq(Chars) /\ Len(both) = i + n /\ (\A j \in 1..i : both[j] = got[j])
      /\ \A j \in 1..n : both[i + j] = chunk[j]
  <2>1. both \in Seq(Chars) /\ Len(both) = Len(got) + Len(chunk)
    BY <1>2, <1>3, ConcatProperties
  <2>2. \A j \in 1..i : both[j] = got[j]
    BY <1>2, <1>3
  <2>3. \A j \in 1..n : both[i + j] = chunk[j]
    <3> TAKE j \in 1..n
    <3> DEFINE m == i + j
               h == Len(got)
               r == Len(chunk)
    <3>1. m \in 1..(h + r) /\ m > h /\ m - h = j
      BY <1>2, <1>3
    <3> HIDE DEF m
    <3>2. both[m] = IF m <= h THEN got[m] ELSE chunk[m - h]
      BY <1>2, <1>3, <3>1, ConcatProperties, Zenon
    <3>3. h = i
      BY <1>2
    <3> HIDE DEF h, r
    <3>4. both[m] = chunk[j]
      BY <3>1, <3>2, <3>3
    <3>5. QED
      BY <3>4 DEF m
  <2>4. QED
    BY <1>2, <1>3, <2>1, <2>2, <2>3
<1> HIDE DEF both
<1>7. ASSUME NEW j \in 1..(i + n) PROVE both[j] = more[j]
  <2>1. CASE j <= i
    BY <1>2, <1>4, <1>6, <2>1
  <2>2. CASE j > i
    <3> DEFINE m == j - i
    <3>1. m \in 1..n /\ i + m = j
      BY <2>2
    <3> HIDE DEF m
    <3>2. both[i + m] = chunk[m] /\ chunk[m] = s[i + m]
      BY <1>3, <1>6, <3>1
    <3>3. QED
      BY <1>4, <3>1, <3>2
  <2>3. QED
    BY <2>1, <2>2
<1>8. both = more
  BY <1>4, <1>6, <1>7, SeqEqual
<1>9. QED
  BY <1>2, <1>3, <1>5, <1>8 DEF both, got, chunk, more, Texts

LEMMA DropsEnd ==
    ASSUME NEW s \in Texts, NEW t \in Texts
    PROVE  s \o t \in Texts /\ SubSeq(s \o t, 1, Len(s \o t) - Len(t)) = s
<1> DEFINE u == s \o t
           m == Len(s)
           v == SubSeq(u, 1, m)
<1>1. m \in Nat /\ Len(t) \in Nat /\ s \in Seq(Chars) /\ t \in Seq(Chars)
  BY DEF Texts
<1>2. u \in Seq(Chars) /\ Len(u) = m + Len(t) /\ \A i \in 1..m : u[i] = s[i]
  BY <1>1, ConcatProperties
<1>3. Len(u) - Len(t) = m
  BY <1>1, <1>2
<1> HIDE DEF u
<1>4. v \in Seq(Chars) /\ Len(v) = m /\ \A i \in 1..m : v[i] = u[i]
  BY <1>1, <1>2
<1> HIDE DEF v
<1>5. v = s
  BY <1>1, <1>2, <1>4, SeqEqual DEF m
<1>6. QED
  BY <1>2, <1>3, <1>5 DEF u, v, Texts

LEMMA KeptIs ==
    ASSUME NEW text \in Texts
    PROVE  /\ Deferred(text) \in Texts /\ Kept(text) \in Texts /\ text = Kept(text) \o Deferred(text)
           /\ Deferred(text) = <<>> => Kept(text) = text
<1>1. CASE text # <<>> /\ Last(text) = "CR"
  <2>1. Front(text) \in Seq(Chars) /\ text = Append(Front(text), "CR") /\ "CR" \in Chars
    BY <1>1, FrontAndLast DEF Texts, Chars
  <2> DEFINE f == Front(text)
             d == <<"CR">>
  <2>2. Deferred(text) = d /\ d \in Texts /\ d # <<>>
    BY <1>1 DEF Deferred, Texts, Chars
  <2> HIDE DEF f
  <2>3. f \in Seq(Chars) /\ f \in Texts /\ text = f \o d
    BY <2>1, AppendIsConcat DEF f, Texts
  <2> HIDE DEF d
  <2>4. Kept(text) = f
    BY <2>2, <2>3, DropsEnd DEF Kept
  <2>5. QED
    BY <2>2, <2>3, <2>4
<1>2. CASE ~(text # <<>> /\ Last(text) = "CR")
  <2>1. Deferred(text) = <<>>
    BY <1>2 DEF Deferred
  <2> DEFINE e == <<>>
  <2>2. e \in Texts /\ Deferred(text) = e /\ text \o e = text
    BY <2>1, ConcatEmptySeq DEF Texts
  <2> HIDE DEF e
  <2>3. Kept(text) = text
    BY <2>2, DropsEnd DEF Kept
  <2>4. QED
    BY <2>2, <2>3
<1>3. QED
  BY <1>1, <1>2

(* What is deferred depends on the end of the text alone. *)
LEMMA KeptOfConcat ==
    ASSUME NEW s \in Texts, NEW t \in Texts, t # <<>>
    PROVE  s \o t \in Texts /\ Deferred(s \o t) = Deferred(t) /\ Kept(s \o t) = s \o Kept(t)
<1> DEFINE u == s \o t
<1>1. s \in Seq(Chars) /\ t \in Seq(Chars) /\ u \in Seq(Chars) /\ Len(t) \in Nat \ {0} /\ Len(s) \in Nat
  BY ConcatProperties, EmptySeq DEF Texts
<1>2. Len(u) = Len(s) + Len(t) /\ u[Len(s) + Len(t)] = t[Len(t)]
  BY <1>1
<1> HIDE DEF u
<1>3. u # <<>> /\ Last(u) = Last(t)
  BY <1>1, <1>2, EmptySeq DEF Last
<1>4. Deferred(u) = Deferred(t)
  BY <1>3 DEF Deferred
<1>5. Kept(t) \in Texts /\ Deferred(t) \in Texts /\ t = Kept(t) \o Deferred(t)
  BY KeptIs
<1> DEFINE k == Kept(t)
           d == Deferred(t)
<1>6. k \in Texts /\ d \in Texts /\ t = k \o d
  BY <1>5
<1> HIDE DEF k, d
<1>7. u = (s \o k) \o d /\ s \o k \in Texts
  <2>1. k \in Texts /\ d \in Texts
    BY <1>6
  <2>2. Regroups(s, k, d) /\ s \o k \in Texts
    BY <2>1, Together
  <2>3. (s \o k) \o d = s \o (k \o d)
    BY <2>2, Zenon DEF Regroups
  <2>4. u = s \o (k \o d)
    BY <1>6 DEF u
  <2>5. QED
    BY <2>2, <2>3, <2>4
<1>8. SubSeq(u, 1, Len(u) - Len(d)) = s \o k
  BY <1>6, <1>7, DropsEnd
<1>9. QED
  BY <1>1, <1>4, <1>8 DEF Kept, k, d, u, Texts

LEMMA SseStarts == SseInit => SseInv
<1> SUFFICES ASSUME SseInit PROVE SseInv
  OBVIOUS
<1>1. taken = 0 /\ buffer = <<>> /\ decoded = <<>>
  BY DEF SseInit
<1>2. /\ wire \in Texts
      /\ \/ own = <<>>
         \/ own \in Seq(OwnData) /\ wire = FlattenSeq([i \in DOMAIN own |-> Frame(own[i])])
  <2>1. \A S, n : n \in Nat => BoundedSeq(S, n) \subseteq Seq(S)
    BY DEF BoundedSeq, SeqOf
  <2>2. CASE wire \in BoundedSeq({"CR", "LF", "d", "t"}, MaxText) /\ own = <<>>
    <3> DEFINE C == {"CR", "LF", "d", "t"}
    <3>1. wire \in BoundedSeq(C, MaxText) /\ MaxText \in Nat /\ C = Chars
      BY <2>2, SseAssumption DEF Chars
    <3> HIDE DEF C
    <3>2. wire \in Seq(C)
      BY <2>1, <3>1
    <3>3. QED
      BY <2>2, <3>1, <3>2, Zenon DEF Texts
  <2>3. CASE own \in BoundedSeq(BoundedSeq({"LF", "t"}, MaxData), MaxOwn) /\ wire = FlattenSeq([i \in DOMAIN own |-> Frame(own[i])])
    <3> DEFINE B == BoundedSeq({"LF", "t"}, MaxData)
    <3>1. B \subseteq OwnData
      BY <2>1, SseAssumption DEF OwnData
    <3> HIDE DEF B
    <3>2. own \in Seq(B)
      BY <2>1, <2>3, SseAssumption DEF B
    <3>3. own \in Seq(OwnData)
      BY <3>1, <3>2, SeqMonotonic
    <3>4. wire \in Texts
      BY <2>3, <3>3, ReadsOwn DEF Reading
    <3>5. QED
      BY <2>3, <3>3, <3>4
  <2>4. QED
    BY <2>2, <2>3 DEF SseInit
<1>3. SubSeq(wire, 1, 0) = <<>> /\ Len(wire) \in Nat
  BY <1>2 DEF Texts
<1>4. Deferred(<<>>) = <<>> /\ Kept(<<>>) = <<>>
  BY DEF Deferred, Kept
<1>5. SubSeq(<<>>, 1, Len(<<>>) - Len(<<>>)) = <<>> /\ <<>> \o <<>> = <<>>
  OBVIOUS
<1>6. ReadText(<<>>).events = <<>>
  BY ReadSteps DEF ReadStart
<1> DEFINE none == <<>>
<1>7. /\ SubSeq(wire, 1, taken) = none /\ Deferred(none) = none /\ Kept(none) = none
      /\ SubSeq(none, 1, Len(none) - Len(none)) = none /\ none \o none = none
      /\ Fits(none, ReadText(none)) /\ ReadText(none).events = none
      /\ buffer = none /\ decoded = none /\ taken \in 0..Len(wire)
  BY <1>1, <1>3, <1>4, <1>5, <1>6, NothingFits
<1> HIDE DEF none
<1>8. QED
  BY <1>2, <1>7, Zenon DEF SseInv

(* Transform keeps the invariant. *)
LEMMA SseSteps == SseInv /\ [Transform]_sseVars => SseInv'
<1> SUFFICES ASSUME SseInv, [Transform]_sseVars PROVE SseInv'
  OBVIOUS
<1>1. CASE UNCHANGED sseVars
  BY <1>1 DEF SseInv, sseVars
<1>2. CASE Transform
  <2> DEFINE got == SubSeq(wire, 1, taken)
             d == Deferred(got)
             k == Kept(got)
             rest == SubSeq(buffer, 1, Len(buffer) - Len(d))
  <2>1. wire \in Texts /\ wire \in Seq(Chars) /\ taken \in 0..Len(wire) /\ Len(wire) \in Nat /\ buffer = rest \o d
        /\ Fits(rest, ReadText(k)) /\ decoded = ReadText(k).events
    <3>1. wire \in Texts /\ taken \in 0..Len(wire) /\ buffer = rest \o d
          /\ Fits(rest, ReadText(k)) /\ decoded = ReadText(k).events
      BY Zenon DEF SseInv
    <3>2. wire \in Seq(Chars) /\ Len(wire) \in Nat
      BY <3>1 DEF Texts
    <3> HIDE DEF got, d, k, rest
    <3>3. QED
      BY <3>1, <3>2
  <2>2. PICK n \in 1..(Len(wire) - taken) :
          LET text == buffer \o SubSeq(wire, taken + 1, taken + n)
              deferred == Deferred(text)
              cut == Cut(Normal(SubSeq(text, 1, Len(text) - Len(deferred))))
          IN  /\ taken' = taken + n
              /\ buffer' = cut.rest \o deferred
              /\ decoded' = decoded \o cut.decoded
              /\ UNCHANGED <<wire, own>>
    BY <1>2 DEF Transform
  <2> DEFINE chunk == SubSeq(wire, taken + 1, taken + n)
             text == buffer \o chunk
             cut == Cut(Normal(Kept(text)))
             tail == d \o chunk
             more == SubSeq(wire, 1, taken + n)
  <2>3. buffer' = cut.rest \o Deferred(text) /\ decoded' = decoded \o cut.decoded
        /\ taken' = taken + n /\ wire' = wire /\ own' = own
    BY <2>2 DEF Kept
  <2>4. got \in Texts /\ chunk \in Texts /\ chunk # <<>> /\ more = got \o chunk /\ taken + n \in 0..Len(wire)
    <3>1. n \in Nat \ {0} /\ taken \in Nat /\ taken + n <= Len(wire) /\ taken + n \in 0..Len(wire)
      BY <2>1
    <3>2. QED
      BY <2>1, <3>1, ChunkAfter
  <2>5. d \in Texts /\ k \in Texts /\ got = k \o d /\ (d = <<>> => k = got) /\ rest \in Texts
    BY <2>1, <2>4, KeptIs DEF Fits
  <2>6. d = <<>> \/ d = <<"CR">>
    BY DEF Deferred
  <2>7. d = <<>> => got = <<>> \/ Last(got) # "CR"
    BY DEF Deferred
  <2> HIDE DEF got, d, k, rest, chunk
  <2>8. tail \in Texts /\ tail # <<>> /\ text = rest \o tail /\ more = k \o tail
    <3>0. rest \in Texts /\ d \in Texts /\ k \in Texts /\ chunk \in Texts
      BY <2>4, <2>5
    <3> HIDE DEF tail, text, more, cut
    <3>1. (rest \o d) \o chunk = rest \o (d \o chunk) /\ (k \o d) \o chunk = k \o (d \o chunk) /\ d \o chunk \in Texts
      <4>1. Regroups(rest, d, chunk) /\ Regroups(k, d, chunk) /\ d \o chunk \in Texts
        BY <3>0, Together
      <4>2. QED
        BY <4>1, Zenon DEF Regroups
    <3>2. tail # <<>>
      <4>1. d \in Seq(Chars) /\ chunk \in Seq(Chars)
        BY <2>4, <2>5 DEF Texts
      <4>2. QED
        BY <2>4, <4>1, ConcatEqualIffEmpty DEF tail
    <3>3. text = (rest \o d) \o chunk /\ more = (k \o d) \o chunk
      BY <2>1, <2>4, <2>5 DEF text
    <3>4. QED
      BY <3>1, <3>2, <3>3 DEF tail
  <2>9. d = <<"CR">> => Head(tail) = "CR"
    <3>1. ASSUME d = <<"CR">> PROVE Head(tail) = "CR"
      <4>1. d # <<>> /\ Head(d) = "CR"
        BY <3>1
      <4>2. QED
        BY <2>4, <2>5, <4>1, HeadStays
    <3>2. QED
      BY <3>1
  <2> HIDE DEF tail, text, more
  <2> DEFINE new == Kept(tail)
  <2>10. /\ Deferred(text) = Deferred(tail) /\ Kept(text) = rest \o new
         /\ Deferred(more) = Deferred(tail) /\ Kept(more) = k \o new
         /\ new \in Texts /\ Deferred(tail) \in Texts /\ tail = new \o Deferred(tail)
    BY <2>5, <2>8, KeptOfConcat, KeptIs
  <2>11. new # <<>> => Head(new) = Head(tail)
    <3> DEFINE e == Deferred(tail)
    <3>1. new \in Texts /\ e \in Texts /\ tail = new \o e
      BY <2>10
    <3> HIDE DEF new, e
    <3>2. QED
      BY <3>1, HeadStays
  <2>12. ReadText(k).cr => new = <<>> \/ Head(new) # "LF"
    <3>1. CASE d = <<"CR">>
      BY <2>9, <2>11, <3>1
    <3>2. CASE d = <<>>
      <4>1. CASE k = <<>>
        BY <4>1, ReadCr DEF ReadStart
      <4>2. CASE k # <<>>
        <5>1. k = Append(Front(k), Last(k)) /\ Front(k) \in Texts /\ Last(k) \in Chars
          BY <2>5, <4>2, FrontAndLast DEF Texts
        <5>2. ReadText(k).cr = (Last(k) = "CR")
          BY <5>1, ReadCr
        <5>3. QED
          BY <2>5, <2>7, <3>2, <4>2, <5>2
      <4>3. QED
        BY <4>1, <4>2
    <3>3. QED
      BY <2>6, <3>1, <3>2
  <2> HIDE DEF new
  <2>13. decoded \in Lists
    BY <2>1, <2>5, ReadCr DEF Reads
  <2>14. Fits(cut.rest, ReadText(k \o new)) /\ decoded \o cut.decoded = ReadText(k \o new).events
    <3> HIDE DEF cut
    <3>1. /\ Fits(Cut(Normal(rest \o new)).rest, ReadText(k \o new))
          /\ decoded \o Cut(Normal(rest \o new)).decoded = ReadText(k \o new).events
      <4>1. GoesOn(decoded, rest, k, new)
        BY <2>1, <2>5, <2>10, <2>12, <2>13, ChunkFits DEF Whole
      <4>2. QED
        BY <4>1 DEF GoesOn
    <3>2. QED
      BY <2>10, <3>1 DEF cut
  <2> HIDE DEF cut
  <2> DEFINE hold == cut.rest
             e == Deferred(more)
  <2>15. hold \in Texts /\ e \in Texts /\ buffer' = hold \o e /\ Kept(more) = k \o new
    BY <2>3, <2>10, <2>14 DEF Fits
  <2> HIDE DEF hold, e
  <2>16. SubSeq(buffer', 1, Len(buffer') - Len(e)) = hold
    BY <2>15, DropsEnd
  <2>17. SubSeq(wire', 1, taken') = more
    BY <2>3 DEF more
  <2>18. /\ wire' \in Texts /\ taken' \in 0..Len(wire')
         /\ \/ own' = <<>>
            \/ own' \in Seq(OwnData) /\ wire' = FlattenSeq([i \in DOMAIN own' |-> Frame(own'[i])])
    BY <2>1, <2>3, <2>4 DEF SseInv
  <2>19. Fits(hold, ReadText(Kept(more))) /\ decoded' = ReadText(Kept(more)).events
    BY <2>3, <2>14, <2>15 DEF hold
  <2>20. QED
    BY <2>15, <2>16, <2>17, <2>18, <2>19, Zenon DEF SseInv, e
<1>3. QED
  BY <1>1, <1>2

LEMMA SseInvMeans == SseInv => DecodesAnyCut
<1> SUFFICES ASSUME SseInv PROVE DecodesAnyCut
  OBVIOUS
<1> DEFINE got == SubSeq(wire, 1, taken)
<1>1. wire \in Texts /\ wire \in Seq(Chars) /\ taken \in 0..Len(wire) /\ Len(wire) \in Nat /\ decoded = ReadText(Kept(got)).events
  BY DEF SseInv, Texts
<1>2. Len(got) = taken
  BY <1>1
<1> HIDE DEF got
<1>3. Kept(got) = SubSeq(got, 1, taken - Len(Deferred(got)))
  BY <1>2 DEF Kept
<1>4. ASSUME taken = Len(wire), own # <<>> PROVE decoded = own
  <2>1. got = wire
    BY <1>1, <1>4, SubSeqFull DEF got
  <2>2. own \in Seq(OwnData) /\ wire = FlattenSeq([i \in DOMAIN own |-> Frame(own[i])])
    BY <1>4 DEF SseInv
  <2>3. Reading(wire, <<>>, <<>>, own) /\ (wire = <<>> \/ Last(wire) = "LF")
    BY <2>2, ReadsOwn
  <2>4. Deferred(wire) = <<>>
    BY <2>3 DEF Deferred
  <2>5. Kept(wire) = wire
    BY <1>1, <2>4, KeptIs
  <2>6. ReadText(wire).events = own
    BY <2>3 DEF Reading
  <2>7. QED
    BY <1>1, <2>1, <2>5, <2>6
<1>5. QED
  BY <1>1, <1>3, <1>4, Zenon DEF DecodesAnyCut, Reference, got

(* The invariant that makes the decoder right holds, ... *)
THEOREM SseInvIsInvariant == SseSpec => []SseInv
<1>1. QED
  BY SseStarts, SseSteps, PTL DEF SseSpec

(* ... and so whatever a text holds and however it is cut into chunks, the *)
(* decoder of sse.js has emitted what the format defines for what it got,  *)
(* and gives back the data of frames the encoder wrote.                    *)
THEOREM AnyCutDecodes == SseSpec => []DecodesAnyCut
<1>1. QED
  BY SseInvIsInvariant, SseInvMeans, PTL
=============================================================================
