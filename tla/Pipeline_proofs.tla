--------------------------- MODULE Pipeline_proofs ---------------------------
(***************************************************************************)
(* Proofs about Pipeline, for every file, every Map and Partition, any     *)
(* number of reducers, and all sizes of chunks, spills, batches and lines. *)
(***************************************************************************)
EXTENDS Pipeline, FunctionTheorems, SequenceTheorems, FiniteSetTheorems,
        NaturalsInduction, WellFoundedInduction, TLAPS

-----------------------------------------------------------------------------
(* Induction, for a set instead of a predicate, and recursive functions.   *)

\* A non-empty set of natural numbers has a least element.
LEMMA LeastExists ==
    ASSUME NEW S, S \subseteq Nat, S # {}
    PROVE  \E x \in S : \A y \in S : x <= y
<1> DEFINE R == OpToRel(<, Nat)
<1>1. IsWellFoundedOn(R, Nat)
  BY NatLessThanWellFounded
<1>2. PICK x \in S : \A y \in S : ~ (<<y, x>> \in R)
  <2> HIDE DEF R
  <2> QED  BY <1>1, WFMin
<1>3. \A y \in S : ~ (y < x)
  BY <1>2 DEF OpToRel
<1> QED  BY <1>3

\* A set with 0 and with the successor of each of its numbers below n has all
\* numbers up to n.
LEMMA SetInduction ==
    ASSUME NEW n \in Nat, NEW S, 0 \in S, \A i \in 0..n - 1 : i \in S => i + 1 \in S
    PROVE  0..n \subseteq S
<1> DEFINE T == {i \in 0..n : i \notin S}
<1>1. SUFFICES ASSUME T # {} PROVE FALSE
  OBVIOUS
<1>2. PICK x \in T : \A y \in T : x <= y
  <2>1. T \subseteq Nat
    OBVIOUS
  <2> HIDE DEF T
  <2> QED  BY <1>1, <2>1, LeastExists
<1>3. x \in 1..n /\ x - 1 \in 0..n - 1 /\ x - 1 \notin T
  BY <1>2
<1> QED  BY <1>2, <1>3

\* A function of 0..n is determined by its first value and its steps.
Alike(u, v, n) ==
    n \in Nat /\ u[0] = v[0] /\ \A i \in 1..n : u[i - 1] = v[i - 1] => u[i] = v[i]

LEMMA RecursionUnique ==
    ASSUME NEW n, NEW u, NEW v, Alike(u, v, n)
    PROVE  \A i \in 0..n : u[i] = v[i]
<1> DEFINE S == {i \in 0..n : u[i] = v[i]}
<1>1. 0 \in S
  BY DEF Alike
<1>2. ASSUME NEW i \in 0..n - 1, i \in S
      PROVE  i + 1 \in S
  <2>1. i + 1 \in 1..n /\ (i + 1) - 1 = i
    BY DEF Alike
  <2> QED  BY <1>2, <2>1 DEF Alike
<1> HIDE DEF S
<1>3. 0..n \subseteq S
  BY <1>1, <1>2, SetInduction DEF Alike
<1> QED  BY <1>3 DEF S

\* A function can be given by its first value and its steps.
Recursion(T, n, a, step) == n \in Nat /\ a \in T /\ step \in [1..n -> [T -> T]]

LEMMA RecursionExists ==
    ASSUME NEW T, NEW n, NEW a, NEW step, Recursion(T, n, a, step)
    PROVE  \E f \in [0..n -> T] : f[0] = a /\ \A i \in 1..n : f[i] = step[i][f[i - 1]]
<1> USE DEF Recursion
<1> DEFINE Good(k) == \E f \in [0..k -> T] :
                          f[0] = a /\ \A i \in 1..k : f[i] = step[i][f[i - 1]]
           S == {k \in 0..n : Good(k)}
<1>1. 0 \in S
  <2> DEFINE f == [i \in 0..0 |-> a]
  <2>1. f \in [0..0 -> T] /\ f[0] = a /\ \A i \in 1..0 : f[i] = step[i][f[i - 1]]
    OBVIOUS
  <2>2. Good(0)
    BY <2>1
  <2> QED  BY <2>2
<1>2. ASSUME NEW k \in 0..n - 1, k \in S
      PROVE  k + 1 \in S
  <2>1. PICK f \in [0..k -> T] : f[0] = a /\ \A i \in 1..k : f[i] = step[i][f[i - 1]]
    BY <1>2
  <2> DEFINE g == [i \in 0..k + 1 |-> IF i = k + 1 THEN step[k + 1][f[k]] ELSE f[i]]
  <2>2. k + 1 \in 1..n /\ f[k] \in T
    BY <2>1
  <2>3. step[k + 1][f[k]] \in T
    BY <2>2
  <2>4. g \in [0..k + 1 -> T]
    BY <2>3
  <2>5. g[0] = a
    BY <2>1
  <2>6. ASSUME NEW i \in 1..k + 1
        PROVE  g[i] = step[i][g[i - 1]]
    <3>1. CASE i = k + 1
      BY <3>1
    <3>2. CASE i # k + 1
      <4>1. i \in 1..k /\ i - 1 \in 0..k
        BY <3>2
      <4> QED  BY <2>1, <4>1
    <3> QED  BY <3>1, <3>2
  <2> HIDE DEF g
  <2>7. Good(k + 1)
    BY <2>4, <2>5, <2>6
  <2> HIDE DEF Good
  <2> QED  BY <2>2, <2>7
<1> HIDE DEF S
<1>3. 0..n \subseteq S
  BY <1>1, <1>2, SetInduction
<1> QED  BY <1>3 DEF S
-----------------------------------------------------------------------------
(* FlattenSeq.                                                             *)

\* What FlattenSeq has put together after each of its sequences.
Joined(g, ss) ==
    /\ g[0] = <<>>
    /\ \A i \in 1..Len(ss) : g[i] = g[i - 1] \o ss[i]
    /\ FlattenSeq(ss) = g[Len(ss)]

LEMMA FlattenJoins ==
    ASSUME NEW S, NEW ss \in Seq(Seq(S))
    PROVE  \E g \in [0..Len(ss) -> Seq(S)] : Joined(g, ss)
<1> DEFINE m == Len(ss)
           step == [i \in 1..m |-> [x \in Seq(S) |-> x \o ss[i]]]
<1>1. m \in Nat /\ ss \in [1..m -> Seq(S)] /\ <<>> \in Seq(S)
  OBVIOUS
<1>2. \A i \in 1..m, x \in Seq(S) : x \o ss[i] \in Seq(S)
  BY <1>1, ConcatProperties
<1> HIDE DEF m
<1>3. step \in [1..m -> [Seq(S) -> Seq(S)]]
  BY <1>2
<1>4. \A i \in 1..m, x \in Seq(S) : step[i][x] = x \o ss[i]
  OBVIOUS
<1> HIDE DEF step
<1>5. PICK g \in [0..m -> Seq(S)] : g[0] = <<>> /\ \A i \in 1..m : g[i] = step[i][g[i - 1]]
  <2>1. Recursion(Seq(S), m, <<>>, step)
    BY <1>1, <1>3 DEF Recursion
  <2> QED  BY <2>1, RecursionExists
<1>6. ASSUME NEW i \in 1..m
      PROVE  i - 1 \in 0..m /\ g[i] = g[i - 1] \o ss[i]
  <2>1. i - 1 \in 0..m /\ g[i - 1] \in Seq(S)
    BY <1>1
  <2> QED  BY <1>4, <1>5, <2>1
<1>7. CASE m = 0
  <2>1. FlattenSeq(ss) = <<>>
    BY <1>7 DEF FlattenSeq, m
  <2> QED  BY <1>5, <1>6, <1>7, <2>1 DEF Joined, m
<1>8. CASE m # 0
  <2> DEFINE F(f) == [i \in 1..m |-> IF i = 1 THEN ss[i] ELSE f[i - 1] \o ss[i]]
             c == CHOOSE f : f = F(f)
             h == [i \in 1..m |-> g[i]]
  <2>1. g[1] = ss[1]
    <3>1. 1 \in 1..m /\ 1 - 1 = 0
      BY <1>1, <1>8
    <3>2. g[1] = g[0] \o ss[1]
      BY <1>6, <3>1
    <3>3. ss[1] \in Seq(S)
      BY <1>1, <3>1
    <3> QED  BY <1>5, <3>2, <3>3, ConcatEmptySeq
  <2>2. ASSUME NEW i \in 1..m
        PROVE  h[i] = F(h)[i]
    <3>1. CASE i = 1
      BY <2>1, <3>1
    <3>2. CASE i # 1
      <4>1. i - 1 \in 1..m
        BY <1>1, <3>2
      <4> QED  BY <1>6, <3>2, <4>1
    <3> QED  BY <3>1, <3>2
  <2>3. h = F(h)
    BY <2>2
  <2> HIDE DEF h
  <2>4. c = F(c)
    <3> HIDE DEF F
    <3> QED  BY <2>3
  <2>5. FlattenSeq(ss) = c[m]
    BY <1>8 DEF FlattenSeq, m
  <2> HIDE DEF c
  <2>6. c[1] = ss[1] /\ \A i \in 2..m : c[i] = c[i - 1] \o ss[i]
    <3>1. \A i \in 1..m : c[i] = F(c)[i]
      BY <2>4
    <3>2. 1 \in 1..m /\ \A i \in 2..m : i \in 1..m /\ i # 1
      BY <1>1, <1>8
    <3> QED  BY <3>1, <3>2
  <2> DEFINE E == {i \in 0..m - 1 : c[i + 1] = g[i + 1]}
  <2>7. 0 \in E
    BY <1>1, <1>8, <2>1, <2>6
  <2>8. ASSUME NEW i \in 0..(m - 1) - 1, i \in E
        PROVE  i + 1 \in E
    <3>1. i + 2 \in 2..m /\ i + 2 \in 1..m /\ (i + 2) - 1 = i + 1 /\ (i + 1) + 1 = i + 2
      BY <1>1, <1>8
    <3>2. c[i + 2] = c[i + 1] \o ss[i + 2]
      BY <2>6, <3>1
    <3>3. g[i + 2] = g[i + 1] \o ss[i + 2]
      BY <1>6, <3>1
    <3>4. i + 1 \in 0..m - 1
      BY <1>1
    <3> QED  BY <2>8, <3>1, <3>2, <3>3, <3>4
  <2> HIDE DEF E
  <2>9. m - 1 \in E
    <3>1. m - 1 \in Nat /\ m - 1 \in 0..m - 1
      BY <1>1, <1>8
    <3> QED  BY <2>7, <2>8, <3>1, SetInduction
  <2>10. c[m] = g[m]
    <3>1. (m - 1) + 1 = m
      BY <1>1
    <3> QED  BY <2>9, <3>1 DEF E
  <2> QED  BY <1>5, <1>6, <2>5, <2>10 DEF Joined, m
<1> QED  BY <1>7, <1>8

\* The sequences joined are typed, and one more is put at the end.
LEMMA FlattenTyped ==
    ASSUME NEW S, NEW ss \in Seq(Seq(S))
    PROVE  FlattenSeq(ss) \in Seq(S)
<1>1. PICK g \in [0..Len(ss) -> Seq(S)] : Joined(g, ss)
  BY FlattenJoins
<1> QED  BY <1>1 DEF Joined

LEMMA FlattenAppend ==
    ASSUME NEW S, NEW ss \in Seq(Seq(S)), NEW s \in Seq(S)
    PROVE  FlattenSeq(Append(ss, s)) = FlattenSeq(ss) \o s
<1> DEFINE m == Len(ss)
           tt == Append(ss, s)
<1>1. /\ tt \in Seq(Seq(S)) /\ Len(tt) = m + 1 /\ m \in Nat
      /\ \A i \in 1..m : tt[i] = ss[i]
      /\ tt[m + 1] = s
  BY AppendProperties
<1> HIDE DEF tt
<1>2. PICK g : Joined(g, ss)
  BY FlattenJoins
<1>3. PICK h : Joined(h, tt)
  BY <1>1, FlattenJoins
<1> HIDE DEF m
<1>4. \A i \in 1..m : g[i] = g[i - 1] \o ss[i]
  BY <1>2 DEF Joined, m
<1>5. \A i \in 1..m + 1 : h[i] = h[i - 1] \o tt[i]
  BY <1>1, <1>3 DEF Joined
<1>6. ASSUME NEW i \in 1..m, g[i - 1] = h[i - 1]
      PROVE  g[i] = h[i]
  <2>1. i \in 1..m + 1
    BY <1>1
  <2> QED  BY <1>1, <1>4, <1>5, <1>6, <2>1
<1>7. g[0] = h[0]
  BY <1>2, <1>3 DEF Joined
<1>8. \A i \in 0..m : g[i] = h[i]
  <2>1. Alike(g, h, m)
    BY <1>1, <1>6, <1>7 DEF Alike
  <2> QED  BY <2>1, RecursionUnique
<1>9. h[m + 1] = g[m] \o s
  <2>1. m + 1 \in 1..m + 1 /\ (m + 1) - 1 = m /\ m \in 0..m
    BY <1>1
  <2> QED  BY <1>1, <1>5, <1>8, <2>1
<1> QED  BY <1>1, <1>2, <1>3, <1>9 DEF Joined, m, tt
-----------------------------------------------------------------------------
(* Split.                                                                  *)

Pieces(S) == {p \in Seq(Seq(S)) : p # <<>>}

\* One byte more: a separator begins a new piece, another byte makes the last
\* one longer.
Grown(p, b, sep) ==
    IF b = sep THEN Append(p, <<>>) ELSE [p EXCEPT ![Len(p)] = Append(@, b)]

LEMMA GrownPieces ==
    ASSUME NEW S, NEW p \in Pieces(S), NEW b \in S, NEW sep
    PROVE  /\ Grown(p, b, sep) \in Pieces(S)
           /\ b = sep => /\ Len(Grown(p, b, sep)) = Len(p) + 1
                         /\ Grown(p, b, sep)[Len(p) + 1] = <<>>
                         /\ \A k \in 1..Len(p) : Grown(p, b, sep)[k] = p[k]
           /\ b # sep => /\ Len(Grown(p, b, sep)) = Len(p)
                         /\ Grown(p, b, sep)[Len(p)] = Append(p[Len(p)], b)
                         /\ \A k \in 1..Len(p) - 1 : Grown(p, b, sep)[k] = p[k]
<1>1. p \in Seq(Seq(S)) /\ Len(p) \in Nat \ {0} /\ p \in [1..Len(p) -> Seq(S)]
  BY EmptySeq DEF Pieces
<1>2. CASE b = sep
  <2>1. <<>> \in Seq(S)
    OBVIOUS
  <2>2. Grown(p, b, sep) = Append(p, <<>>)
    BY <1>2 DEF Grown
  <2> QED  BY <1>1, <1>2, <2>1, <2>2, AppendProperties DEF Pieces
<1>3. CASE b # sep
  <2>1. p[Len(p)] \in Seq(S)
    BY <1>1
  <2>2. Append(p[Len(p)], b) \in Seq(S)
    BY <2>1, AppendProperties
  <2> DEFINE a == Append(p[Len(p)], b)
             q == [p EXCEPT ![Len(p)] = a]
  <2>3. Grown(p, b, sep) = q
    BY <1>3 DEF Grown
  <2>4. a \in Seq(S)
    BY <2>2
  <2> DEFINE n == Len(p)
  <2>a. n \in Nat \ {0} /\ p \in [1..n -> Seq(S)] /\ q = [p EXCEPT ![n] = a]
    BY <1>1
  <2> HIDE DEF a, n, q
  <2>b. n \in 1..n /\ \A k \in 1..n - 1 : k \in 1..n /\ k # n
    BY <2>a
  <2>5. q \in [1..n -> Seq(S)] /\ q[n] = a /\ \A k \in 1..n - 1 : q[k] = p[k]
    BY <2>4, <2>a, <2>b
  <2>6. q \in Seq(Seq(S)) /\ Len(q) = n
    BY <2>5, <2>a
  <2>7. q # <<>>
    BY <2>a, <2>6
  <2> QED  BY <1>3, <2>3, <2>5, <2>6, <2>7 DEF Pieces, a, n
<1> QED  BY <1>2, <1>3

\* What Split has after each byte.
Splits(g, s, sep) ==
    /\ g[0] = << <<>> >>
    /\ \A i \in 1..Len(s) : g[i] = Grown(g[i - 1], s[i], sep)
    /\ Split(s, sep) = g[Len(s)]

LEMMA SplitSteps ==
    ASSUME NEW S, NEW s \in Seq(S), NEW sep
    PROVE  \E g \in [0..Len(s) -> Pieces(S)] : Splits(g, s, sep)
<1> DEFINE m == Len(s)
           first == << <<>> >>
           step == [i \in 1..m |-> [p \in Pieces(S) |-> Grown(p, s[i], sep)]]
<1>1. m \in Nat /\ \A i \in 1..m : s[i] \in S
  OBVIOUS
<1>2. first \in Pieces(S)
  <2>1. first \in Seq(Seq(S)) /\ Len(first) = 1
    OBVIOUS
  <2> QED  BY <2>1 DEF Pieces
<1>3. \A i \in 1..m, p \in Pieces(S) : Grown(p, s[i], sep) \in Pieces(S)
  BY <1>1, GrownPieces
<1> HIDE DEF m, first
<1>4. Recursion(Pieces(S), m, first, step)
  BY <1>1, <1>2, <1>3 DEF Recursion
<1>5. \A i \in 1..m, p \in Pieces(S) : step[i][p] = Grown(p, s[i], sep)
  OBVIOUS
<1> HIDE DEF step
<1>6. PICK g : /\ g \in [0..m -> Pieces(S)]
               /\ g[0] = first /\ \A i \in 1..m : g[i] = step[i][g[i - 1]]
  BY <1>4, RecursionExists
<1>7. ASSUME NEW i \in 1..m
      PROVE  g[i] = Grown(g[i - 1], s[i], sep)
  <2>1. i - 1 \in 0..m
    BY <1>1
  <2>2. g[i - 1] \in Pieces(S)
    BY <1>6, <2>1
  <2> QED  BY <1>5, <1>6, <2>2
<1> DEFINE F(f) == [i \in 0..m |-> IF i = 0 THEN first ELSE Grown(f[i - 1], s[i], sep)]
           c == CHOOSE f : f = F(f)
<1>8. ASSUME NEW i \in 0..m
      PROVE  g[i] = F(g)[i]
  <2>1. i # 0 => i \in 1..m
    BY <1>1
  <2> QED  BY <1>6, <1>7, <2>1
<1>9. g = F(g)
  <2>1. DOMAIN g = 0..m /\ DOMAIN F(g) = 0..m /\ g = [i \in 0..m |-> g[i]]
    BY <1>6
  <2> QED  BY <1>8, <2>1
<1>10. c = F(c)
  <2> HIDE DEF F
  <2> QED  BY <1>9
<1>11. Split(s, sep) = c[m]
  BY DEF Split, Grown, m, first
<1> HIDE DEF c
<1>12. \A i \in 0..m : c[i] = F(c)[i]
  BY <1>10
<1>13. Alike(c, g, m)
  <2>1. c[0] = first
    BY <1>1, <1>12
  <2>2. ASSUME NEW i \in 1..m, c[i - 1] = g[i - 1]
        PROVE  c[i] = g[i]
    <3>1. i \in 0..m /\ i # 0
      BY <1>1
    <3>2. c[i] = Grown(c[i - 1], s[i], sep)
      BY <1>12, <3>1
    <3> QED  BY <1>7, <2>2, <3>2
  <2> QED  BY <1>1, <1>6, <2>1, <2>2 DEF Alike
<1>14. c[m] = g[m]
  BY <1>1, <1>13, RecursionUnique
<1> QED  BY <1>6, <1>7, <1>11, <1>14 DEF Splits, m, first

\* Splitting gives at least one piece.
LEMMA SplitTyped ==
    ASSUME NEW S, NEW s \in Seq(S), NEW sep
    PROVE  Split(s, sep) \in Pieces(S)
<1>1. PICK g \in [0..Len(s) -> Pieces(S)] : Splits(g, s, sep)
  BY SplitSteps
<1> QED  BY <1>1 DEF Splits
-----------------------------------------------------------------------------
(* Lines, scanners, and what Map is given.                                 *)

\* The least element that Min chooses.
LEMMA MinIsLeast ==
    ASSUME NEW S, S \subseteq Nat, S # {}
    PROVE  Min(S) \in S /\ \A y \in S : Min(S) <= y
  BY LeastExists, Zenon DEF Min

LEMMA LinesTyped ==
    ASSUME NEW S, NEW s \in Seq(S)
    PROVE  Lines(s) \in Seq(Seq(S))
<1> DEFINE p == Split(s, Newline)
<1>1. p \in Seq(Seq(S)) /\ p # <<>>
  BY SplitTyped DEF Pieces
<1> HIDE DEF p
<1>2. Front(p) \in Seq(Seq(S))
  <2>1. Len(p) - 1 \in Int /\ \A i \in 1..Len(p) - 1 : p[i] \in Seq(S)
    BY <1>1, LenProperties
  <2> QED  BY <2>1, SubSeqProperties DEF Front
<1>3. Lines(s) = IF Last(p) = <<>> THEN Front(p) ELSE p
  BY DEF Lines, p
<1> QED  BY <1>1, <1>2, <1>3

-----------------------------------------------------------------------------
(* Lines of a file that is cut after a newline.                            *)

\* Pieces that end in front of the last one stay as they are.
LEMMA GrownBehind ==
    ASSUME NEW S, NEW p \in Seq(Seq(S)), NEW q \in Pieces(S), NEW b \in S, NEW sep
    PROVE  Grown(p \o q, b, sep) = p \o Grown(q, b, sep)
<1> DEFINE m == Len(p)
           n == Len(q)
           u == p \o q
           v == Grown(u, b, sep)
           w == Grown(q, b, sep)
           x == p \o w
<1>1. q \in Seq(Seq(S)) /\ m \in Nat /\ n \in Nat \ {0}
  BY LenProperties, EmptySeq DEF Pieces
<1>2. /\ u \in Seq(Seq(S)) /\ Len(u) = m + n
      /\ \A i \in 1..m + n : u[i] = IF i <= m THEN p[i] ELSE q[i - m]
  BY <1>1, ConcatProperties
<1> HIDE DEF u
<1>3. u \in Pieces(S)
  <2>1. u # <<>>
    BY <1>1, <1>2
  <2> QED  BY <1>2, <2>1 DEF Pieces
<1>4. w \in Seq(Seq(S)) /\ v \in Seq(Seq(S))
  BY <1>3, GrownPieces DEF Pieces
<1>5. /\ x \in Seq(Seq(S)) /\ Len(x) = m + Len(w)
      /\ \A i \in 1..m + Len(w) : x[i] = IF i <= m THEN p[i] ELSE w[i - m]
  BY <1>4, ConcatProperties
<1>6. CASE b = sep
  <2>1. /\ Len(v) = m + n + 1 /\ v[m + n + 1] = <<>> /\ \A i \in 1..m + n : v[i] = u[i]
    <3>1. Len(v) = Len(u) + 1 /\ v[Len(u) + 1] = <<>> /\ \A i \in 1..Len(u) : v[i] = u[i]
      BY <1>3, <1>6, GrownPieces
    <3> QED  BY <1>2, <3>1
  <2>2. /\ Len(w) = n + 1 /\ w[n + 1] = <<>> /\ \A i \in 1..n : w[i] = q[i]
    BY <1>6, GrownPieces
  <2> HIDE DEF m, n, v, w, x
  <2>3. Len(v) = Len(x)
    BY <1>1, <1>5, <2>1, <2>2
  <2>4. ASSUME NEW i \in 1..Len(v)
        PROVE  v[i] = x[i]
    <3>1. i \in 1..m + Len(w)
      BY <1>1, <2>1, <2>2
    <3>2. CASE i <= m
      <4>1. i \in 1..m + n
        BY <1>1, <3>1, <3>2
      <4> QED  BY <1>2, <1>5, <2>1, <3>1, <3>2, <4>1
    <3>3. CASE i = m + n + 1
      <4>1. ~(i <= m) /\ i - m = n + 1
        BY <1>1, <3>3
      <4> QED  BY <1>5, <2>1, <2>2, <3>1, <3>3, <4>1
    <3>4. CASE ~(i <= m) /\ i # m + n + 1
      <4>1. i \in 1..m + n /\ i - m \in 1..n
        BY <1>1, <2>1, <3>4
      <4> QED  BY <1>2, <1>5, <2>1, <2>2, <3>1, <3>4, <4>1
    <3> QED  BY <3>2, <3>3, <3>4
  <2> QED  BY <1>4, <1>5, <2>3, <2>4, SeqEqual DEF v, x, w, u
<1>7. CASE b # sep
  <2>1. /\ Len(v) = m + n /\ v[m + n] = Append(u[m + n], b)
        /\ \A i \in 1..m + n - 1 : v[i] = u[i]
    <3>1. /\ Len(v) = Len(u) /\ v[Len(u)] = Append(u[Len(u)], b)
          /\ \A i \in 1..Len(u) - 1 : v[i] = u[i]
      BY <1>3, <1>7, GrownPieces
    <3> QED  BY <1>2, <3>1
  <2>2. /\ Len(w) = n /\ w[n] = Append(q[n], b) /\ \A i \in 1..n - 1 : w[i] = q[i]
    BY <1>7, GrownPieces
  <2> HIDE DEF m, n, v, w, x
  <2>3. Len(v) = Len(x)
    BY <1>1, <1>5, <2>1, <2>2
  <2>4. ASSUME NEW i \in 1..Len(v)
        PROVE  v[i] = x[i]
    <3>1. i \in 1..m + Len(w) /\ i \in 1..m + n
      BY <1>1, <2>1, <2>2
    <3>2. CASE i <= m
      <4>1. i \in 1..m + n - 1
        BY <1>1, <3>1, <3>2
      <4> QED  BY <1>2, <1>5, <2>1, <3>1, <3>2, <4>1
    <3>3. CASE i = m + n
      <4>1. ~(i <= m) /\ i - m = n
        BY <1>1, <3>3
      <4> QED  BY <1>2, <1>5, <2>1, <2>2, <3>1, <3>3, <4>1
    <3>4. CASE ~(i <= m) /\ i # m + n
      <4>1. i \in 1..m + n - 1 /\ i - m \in 1..n - 1
        BY <1>1, <2>1, <3>4
      <4> QED  BY <1>2, <1>5, <2>1, <2>2, <3>1, <3>4, <4>1
    <3> QED  BY <3>2, <3>3, <3>4
  <2> QED  BY <1>4, <1>5, <2>3, <2>4, SeqEqual DEF v, x, w, u
<1> QED  BY <1>6, <1>7

\* The one piece of a text without a byte.
EmptyPiece == << <<>> >>

EndsWith(s, sep) == s # <<>> /\ Last(s) = sep

\* The pieces of s, without the empty one behind its last separator, and those
\* of t are the pieces of both together.
SplitsBehind(S, s, t, sep) ==
    \E p \in Seq(Seq(S)) : /\ Split(s, sep) = p \o EmptyPiece
                           /\ Split(s \o t, sep) = p \o Split(t, sep)

LEMMA SplitConcat ==
    ASSUME NEW S, NEW s \in Seq(S), NEW t \in Seq(S), NEW sep, EndsWith(s, sep)
    PROVE  SplitsBehind(S, s, t, sep)
<1> DEFINE j == s \o t
           n == Len(s)
           m == Len(t)
<1>1. /\ n \in Nat \ {0} /\ m \in Nat /\ s[n] = sep
      /\ j \in Seq(S) /\ Len(j) = n + m
      /\ \A i \in 1..n + m : j[i] = IF i <= n THEN s[i] ELSE t[i - n]
  BY ConcatProperties, LenProperties, EmptySeq DEF EndsWith, Last
<1> HIDE DEF j
<1>2. PICK g : g \in [0..n -> Pieces(S)] /\ Splits(g, s, sep)
  BY SplitSteps
<1>3. PICK f : f \in [0..m -> Pieces(S)] /\ Splits(f, t, sep)
  BY SplitSteps
<1>4. PICK h : Splits(h, j, sep)
  BY <1>1, SplitSteps
<1>5. /\ g[0] = << <<>> >> /\ \A i \in 1..n : g[i] = Grown(g[i - 1], s[i], sep)
      /\ Split(s, sep) = g[n]
  BY <1>2 DEF Splits
<1>6. /\ f[0] = EmptyPiece /\ \A i \in 1..m : f[i] = Grown(f[i - 1], t[i], sep)
      /\ Split(t, sep) = f[m]
  BY <1>3 DEF Splits, EmptyPiece
<1>7. /\ h[0] = << <<>> >> /\ \A i \in 1..n + m : h[i] = Grown(h[i - 1], j[i], sep)
      /\ Split(j, sep) = h[n + m]
  BY <1>1, <1>4 DEF Splits
<1> HIDE DEF n, m
<1>8. \A i \in 0..n : g[i] = h[i]
  <2>1. ASSUME NEW i \in 1..n, g[i - 1] = h[i - 1]
        PROVE  g[i] = h[i]
    <3>1. i \in 1..n + m /\ j[i] = s[i]
      BY <1>1
    <3> QED  BY <1>5, <1>7, <2>1, <3>1
  <2>2. Alike(g, h, n)
    BY <1>1, <1>5, <1>7, <2>1 DEF Alike
  <2> QED  BY <2>2, RecursionUnique
<1> DEFINE p == g[n - 1]
<1>9. p \in Seq(Seq(S))
  <2>1. n - 1 \in 0..n
    BY <1>1
  <2> QED  BY <1>2, <2>1 DEF Pieces
<1>10. g[n] = p \o EmptyPiece
  <2>1. g[n] = Grown(p, sep, sep)
    <3>1. n \in 1..n
      BY <1>1
    <3> QED  BY <1>1, <1>5, <3>1
  <2>2. g[n] = Append(p, <<>>)
    BY <2>1 DEF Grown
  <2>3. <<>> \in Seq(S)
    OBVIOUS
  <2> HIDE DEF p
  <2> QED  BY <1>9, <2>2, <2>3, AppendIsConcat DEF EmptyPiece
<1> HIDE DEF p
<1> DEFINE u == [i \in 0..m |-> h[n + i]]
           v == [i \in 0..m |-> p \o f[i]]
<1>11. Alike(u, v, m)
  <2>1. u[0] = v[0]
    <3>1. 0 \in 0..m /\ n + 0 = n /\ n \in 0..n
      BY <1>1
    <3> QED  BY <1>6, <1>8, <1>10, <3>1
  <2>2. ASSUME NEW i \in 1..m, u[i - 1] = v[i - 1]
        PROVE  u[i] = v[i]
    <3>1. /\ i \in 0..m /\ i - 1 \in 0..m /\ n + i \in 1..n + m /\ (n + i) - 1 = n + (i - 1)
          /\ ~(n + i <= n) /\ (n + i) - n = i
      BY <1>1
    <3>2. j[n + i] = t[i]
      BY <1>1, <3>1
    <3>3. u[i] = Grown(u[i - 1], t[i], sep)
      BY <1>7, <3>1, <3>2
    <3>4. f[i] = Grown(f[i - 1], t[i], sep) /\ f[i - 1] \in Pieces(S)
      BY <1>3, <1>6, <3>1
    <3>5. t[i] \in S
      BY ElementOfSeq DEF m
    <3>6. Grown(p \o f[i - 1], t[i], sep) = p \o f[i]
      <4> DEFINE q == f[i - 1]
                 b == t[i]
      <4>1. q \in Pieces(S) /\ b \in S /\ f[i] = Grown(q, b, sep)
        BY <3>4, <3>5
      <4> HIDE DEF q, b
      <4>2. Grown(p \o q, b, sep) = p \o Grown(q, b, sep)
        BY ONLY <1>9, <4>1, GrownBehind
      <4> QED  BY <4>1, <4>2 DEF q, b
    <3>7. v[i] = p \o f[i] /\ v[i - 1] = p \o f[i - 1]
      BY <3>1
    <3> QED  BY <2>2, <3>3, <3>6, <3>7
  <2> HIDE DEF u, v
  <2> QED  BY <1>1, <2>1, <2>2 DEF Alike
<1>12. h[n + m] = p \o f[m]
  <2>1. u[m] = v[m]
    <3> HIDE DEF u, v
    <3>1. m \in 0..m
      BY <1>1
    <3> QED  BY <1>11, <3>1, RecursionUnique
  <2>2. m \in 0..m
    BY <1>1
  <2> QED  BY <2>1, <2>2
<1> QED  BY <1>5, <1>6, <1>7, <1>9, <1>10, <1>12 DEF j, SplitsBehind

\* The lines among the pieces: all, but for an empty last one.
Whole(p) == IF Last(p) = <<>> THEN Front(p) ELSE p

LEMMA WholeConcat ==
    ASSUME NEW S, NEW p \in Seq(Seq(S)), NEW q \in Pieces(S)
    PROVE  Whole(p \o q) = p \o Whole(q)
<1> DEFINE m == Len(p)
           n == Len(q)
           u == p \o q
<1>1. q \in Seq(Seq(S)) /\ m \in Nat /\ n \in Nat \ {0}
  BY LenProperties, EmptySeq DEF Pieces
<1>2. /\ u \in Seq(Seq(S)) /\ Len(u) = m + n
      /\ \A i \in 1..m + n : u[i] = IF i <= m THEN p[i] ELSE q[i - m]
  BY <1>1, ConcatProperties
<1> HIDE DEF u
<1>3. Last(u) = Last(q)
  <2>1. m + n \in 1..m + n /\ ~(m + n <= m) /\ (m + n) - m = n
    BY <1>1
  <2> QED  BY <1>2, <2>1 DEF Last
<1>4. Front(u) = p \o Front(q)
  <2> DEFINE a == Front(u)
             b == Front(q)
             c == p \o b
  <2> HIDE DEF m, n
  <2>1. /\ a \in Seq(Seq(S)) /\ Len(a) = m + n - 1 /\ \A i \in 1..m + n - 1 : a[i] = u[i]
    <3>1. \A i \in 1..m + n - 1 : u[i] \in Seq(S)
      <4>1. \A i \in 1..m + n - 1 : i \in 1..Len(u)
        BY <1>1, <1>2
      <4> QED  BY <1>2, <4>1, ElementOfSeq
    <3>2. a = SubSeq(u, 1, m + n - 1)
      <4>1. Len(u) - 1 = m + n - 1
        BY <1>1, <1>2
      <4> QED  BY <4>1 DEF Front
    <3>3. m + n - 1 \in Nat
      BY <1>1
    <3> HIDE DEF a
    <3> QED  BY <3>1, <3>2, <3>3, SubSeqProperties
  <2>2. /\ b \in Seq(Seq(S)) /\ Len(b) = n - 1 /\ \A i \in 1..n - 1 : b[i] = q[i]
    <3>1. \A i \in 1..n - 1 : q[i] \in Seq(S)
      <4>1. \A i \in 1..n - 1 : i \in 1..Len(q)
        BY <1>1 DEF n
      <4> QED  BY <1>1, <4>1, ElementOfSeq
    <3>2. b = SubSeq(q, 1, n - 1)
      BY DEF Front, n
    <3>3. n - 1 \in Nat
      BY <1>1
    <3> HIDE DEF b
    <3> QED  BY <3>1, <3>2, <3>3, SubSeqProperties
  <2> HIDE DEF a, b
  <2>3. /\ c \in Seq(Seq(S)) /\ Len(c) = m + (n - 1)
        /\ \A i \in 1..m + (n - 1) : c[i] = IF i <= m THEN p[i] ELSE b[i - m]
    <3>1. /\ c \in Seq(Seq(S)) /\ Len(c) = m + Len(b)
          /\ \A i \in 1..m + Len(b) : c[i] = IF i <= m THEN p[i] ELSE b[i - m]
      BY <2>2, ConcatProperties DEF m
    <3> QED  BY <2>2, <3>1
  <2> HIDE DEF c
  <2>4. ASSUME NEW i \in 1..Len(a)
        PROVE  a[i] = c[i]
    <3>1. i \in 1..m + n - 1 /\ i \in 1..m + (n - 1) /\ i \in 1..m + n
      BY <1>1, <2>1
    <3>2. CASE i <= m
      BY <1>2, <2>1, <2>3, <3>1, <3>2
    <3>3. CASE ~(i <= m)
      <4>1. i - m \in 1..n - 1
        BY <1>1, <3>1, <3>3
      <4> QED  BY <1>2, <2>1, <2>2, <2>3, <3>1, <3>3, <4>1
    <3> QED  BY <3>2, <3>3
  <2>5. Len(a) = Len(c)
    BY <1>1, <2>1, <2>3
  <2> QED  BY <2>1, <2>3, <2>4, <2>5, SeqEqual DEF a, b, c
<1> QED  BY <1>3, <1>4 DEF Whole, u

\* A text that is empty or ends with a newline, and another one: no line of
\* the second is part of a line of the first.
LEMMA LinesConcat ==
    ASSUME NEW S, NEW s \in Seq(S), NEW t \in Seq(S), s = <<>> \/ Last(s) = Newline
    PROVE  Lines(s \o t) = Lines(s) \o Lines(t)
<1>1. \A x : Lines(x) = Whole(Split(x, Newline))
  BY DEF Lines, Whole
<1>2. Whole(EmptyPiece) = <<>>
  <2> DEFINE e == EmptyPiece
  <2>1. Len(e) = 1 /\ e[1] = <<>>
    BY DEF EmptyPiece
  <2> HIDE DEF e
  <2>2. Last(e) = <<>>
    BY <2>1 DEF Last
  <2>3. Front(e) = <<>>
    <3>1. Front(e) = SubSeq(e, 1, 0)
      BY <2>1 DEF Front
    <3> QED  BY <3>1, SubSeqEmpty
  <2> QED  BY <2>2, <2>3 DEF Whole, e
<1>3. Lines(t) \in Seq(Seq(S))
  BY LinesTyped
<1>4. CASE s = <<>>
  <2>1. Lines(s) = <<>>
    <3>1. <<>> \in Seq(S) /\ Len(<<>>) = 0
      OBVIOUS
    <3>2. PICK g : Splits(g, <<>>, Newline)
      BY <3>1, SplitSteps
    <3>3. Split(<<>>, Newline) = EmptyPiece
      BY <3>1, <3>2 DEF Splits, EmptyPiece
    <3> QED  BY <1>1, <1>2, <1>4, <3>3
  <2>2. s \o t = t
    BY <1>4, ConcatEmptySeq
  <2> QED  BY <1>3, <2>1, <2>2, ConcatEmptySeq
<1>5. CASE s # <<>>
  <2>a. EndsWith(s, Newline)
    BY <1>5 DEF EndsWith
  <2>b. SplitsBehind(S, s, t, Newline)
    BY <2>a, SplitConcat
  <2>1. PICK p \in Seq(Seq(S)) : /\ Split(s, Newline) = p \o EmptyPiece
                                 /\ Split(s \o t, Newline) = p \o Split(t, Newline)
    BY <2>b DEF SplitsBehind
  <2>2. Split(t, Newline) \in Pieces(S)
    BY SplitTyped
  <2>3. EmptyPiece \in Pieces(S)
    <3>1. EmptyPiece \in Seq(Seq(S)) /\ Len(EmptyPiece) = 1
      BY DEF EmptyPiece
    <3>2. EmptyPiece # <<>>
      BY DEF EmptyPiece
    <3> QED  BY <3>1, <3>2 DEF Pieces
  <2>4. Lines(s \o t) = p \o Lines(t)
    BY <1>1, <2>1, <2>2, WholeConcat
  <2>5. Lines(s) = p \o <<>>
    BY <1>1, <1>2, <2>1, <2>3, WholeConcat
  <2>6. Lines(s) = p
    BY <2>1, <2>5, ConcatEmptySeq
  <2> QED  BY <2>4, <2>6
<1> QED  BY <1>4, <1>5

\* Bytes that follow each other without a newline are in one line.
LEMMA RunInLine ==
    ASSUME NEW S, NEW s \in Seq(S), NEW a \in 1..Len(s), NEW b \in a..Len(s),
           \A i \in a..b : s[i] # Newline
    PROVE  \E i \in 1..Len(Lines(s)) : Len(Lines(s)[i]) >= b - a + 1
<1> DEFINE n == Len(s)
<1>1. n \in Nat /\ a \in 1..n /\ b \in a..n /\ \A i \in 1..n : s[i] \in S
  BY LenProperties, ElementOfSeq
<1>2. PICK g : g \in [0..n -> Pieces(S)] /\ Splits(g, s, Newline)
  BY SplitSteps
<1>3. \A i \in 1..n : g[i] = Grown(g[i - 1], s[i], Newline)
  BY <1>2 DEF Splits
<1>4. Split(s, Newline) = g[n]
  BY <1>2 DEF Splits
<1> HIDE DEF n
<1>5. \A k \in 0..n : /\ g[k] \in Pieces(S) /\ Len(g[k]) \in Nat \ {0}
                      /\ \A i \in 1..Len(g[k]) : Len(g[k][i]) \in Nat
  <2> SUFFICES ASSUME NEW k \in 0..n
               PROVE  /\ g[k] \in Pieces(S) /\ Len(g[k]) \in Nat \ {0}
                      /\ \A i \in 1..Len(g[k]) : Len(g[k][i]) \in Nat
    OBVIOUS
  <2> DEFINE p == g[k]
  <2>1. p \in Pieces(S)
    BY <1>2
  <2> HIDE DEF p
  <2>2. p \in Seq(Seq(S)) /\ p # <<>>
    BY <2>1 DEF Pieces
  <2>3. Len(p) \in Nat \ {0}
    BY <2>2, EmptySeq
  <2>4. \A i \in 1..Len(p) : Len(p[i]) \in Nat
    BY <2>2, ElementOfSeq, LenProperties
  <2> QED  BY <2>1, <2>3, <2>4 DEF p
\* After k bytes of the run, the last piece has at least these.
<1> DEFINE R == {k \in 0..n : a - 1 <= k /\ k <= b =>
                                  Len(g[k][Len(g[k])]) >= k - (a - 1)}
<1>6. 0..n \subseteq R
  <2>1. 0 \in R
    <3>1. 0 \in 0..n /\ Len(g[0][Len(g[0])]) >= 0
      BY <1>1, <1>5
    <3>2. a - 1 <= 0 => 0 - (a - 1) = 0
      BY <1>1
    <3> QED  BY <3>1, <3>2
  <2>2. ASSUME NEW k \in 0..n - 1, k \in R
        PROVE  k + 1 \in R
    <3> DEFINE p == g[k]
               q == g[k + 1]
    <3>1. k \in 0..n /\ k + 1 \in 0..n /\ k + 1 \in 1..n /\ (k + 1) - 1 = k
      BY <1>1
    <3>2. p \in Pieces(S) /\ q = Grown(p, s[k + 1], Newline) /\ s[k + 1] \in S
      BY <1>1, <1>3, <1>5, <3>1
    <3>3. Len(p) \in Nat \ {0} /\ Len(p[Len(p)]) \in Nat
      BY <1>5, <3>1
    <3>4. Len(q[Len(q)]) \in Nat
      BY <1>5, <3>1
    <3>5. a - 1 <= k /\ k <= b => Len(p[Len(p)]) >= k - (a - 1)
      BY <2>2
    <3>6. CASE k + 1 < a
      <4>1. a - 1 <= k + 1 => (k + 1) - (a - 1) = 0
        BY <1>1, <3>6
      <4> QED  BY <3>1, <3>4, <4>1
    <3>7. CASE k + 1 \in a..b
      <4>1. s[k + 1] # Newline
        BY <3>7
      <4>2. p[Len(p)] \in Seq(S)
        <5> HIDE DEF p
        <5> QED  BY <3>2, <3>3, ElementOfSeq DEF Pieces
      <4> HIDE DEF p, q
      <4>3. q[Len(q)] = Append(p[Len(p)], s[k + 1])
        BY <3>2, <4>1, GrownPieces
      <4>4. Len(q[Len(q)]) = Len(p[Len(p)]) + 1
        BY <3>2, <4>2, <4>3, AppendProperties
      <4>5. a - 1 <= k /\ k <= b
        BY <1>1, <3>7
      <4>6. Len(q[Len(q)]) >= (k + 1) - (a - 1)
        BY <1>1, <3>3, <3>5, <4>4, <4>5
      <4> QED  BY <3>1, <4>6 DEF q
    <3>8. CASE k + 1 > b
      BY <1>1, <3>1, <3>8
    <3> QED  BY <1>1, <3>6, <3>7, <3>8
  <2> HIDE DEF R
  <2> QED  BY <1>1, <2>1, <2>2, SetInduction
\* From the end of the run on, a piece has all of it.
<1> DEFINE Has(k) == \E i \in 1..Len(g[k]) : Len(g[k][i]) >= b - a + 1
           Q == {k \in 0..n : b <= k => Has(k)}
<1>7. 0..n \subseteq Q
  <2>1. 0 \in Q
    BY <1>1
  <2>2. ASSUME NEW k \in 0..n - 1, k \in Q
        PROVE  k + 1 \in Q
    <3> DEFINE p == g[k]
               q == g[k + 1]
    <3>1. k \in 0..n /\ k + 1 \in 0..n /\ k + 1 \in 1..n /\ (k + 1) - 1 = k
      BY <1>1
    <3>2. p \in Pieces(S) /\ q = Grown(p, s[k + 1], Newline) /\ s[k + 1] \in S
      BY <1>1, <1>3, <1>5, <3>1
    <3>3. CASE k + 1 < b
      BY <1>1, <3>1, <3>3
    <3>4. CASE k + 1 = b
      <4>1. k + 1 \in R
        BY <1>6, <3>1
      <4>2. Len(q[Len(q)]) >= b - (a - 1)
        BY <1>1, <3>4, <4>1
      <4>3. Len(q) \in 1..Len(q) /\ b - (a - 1) = b - a + 1
        BY <1>1, <1>5, <3>1
      <4>4. Has(k + 1)
        BY <4>2, <4>3
      <4> QED  BY <3>1, <4>4
    <3>5. CASE b <= k
      <4>1. Has(k)
        BY <2>2, <3>5
      <4>2. PICK i : i \in 1..Len(p) /\ Len(p[i]) >= b - a + 1
        BY <4>1
      <4>3. /\ Len(p) \in Nat \ {0} /\ Len(p[i]) \in Nat /\ p[i] \in Seq(S)
        <5>1. Len(p) \in Nat \ {0} /\ Len(p[i]) \in Nat
          BY <1>5, <3>1, <4>2
        <5> HIDE DEF p
        <5> QED  BY <3>2, <4>2, <5>1, ElementOfSeq DEF Pieces
      <4> HIDE DEF p, q
      <4>4. i \in 1..Len(q) /\ Len(q[i]) >= Len(p[i])
        <5>1. CASE s[k + 1] = Newline
          <6>1. Len(q) = Len(p) + 1 /\ \A l \in 1..Len(p) : q[l] = p[l]
            BY <3>2, <5>1, GrownPieces
          <6> QED  BY <4>2, <4>3, <6>1
        <5>2. CASE s[k + 1] # Newline
          <6>1. /\ Len(q) = Len(p) /\ q[Len(p)] = Append(p[Len(p)], s[k + 1])
                /\ \A l \in 1..Len(p) - 1 : q[l] = p[l]
            BY <3>2, <5>2, GrownPieces
          <6>2. CASE i = Len(p)
            <7>1. Len(q[i]) = Len(p[i]) + 1
              BY <3>2, <4>3, <6>1, <6>2, AppendProperties
            <7> QED  BY <4>2, <4>3, <6>1, <7>1
          <6>3. CASE i # Len(p)
            <7>1. i \in 1..Len(p) - 1
              BY <4>2, <4>3, <6>3
            <7> QED  BY <4>2, <4>3, <6>1, <7>1
          <6> QED  BY <6>2, <6>3
        <5> QED  BY <5>1, <5>2
      <4>5. Len(q[i]) \in Nat
        BY <1>5, <3>1, <4>4 DEF q
      <4>6. Len(q[i]) >= b - a + 1
        BY <1>1, <4>2, <4>3, <4>4, <4>5
      <4>7. Has(k + 1)
        BY <4>4, <4>6 DEF q
      <4> QED  BY <3>1, <4>7
    <3> QED  BY <1>1, <3>3, <3>4, <3>5
  <2> HIDE DEF Q
  <2> QED  BY <1>1, <2>1, <2>2, SetInduction
<1> DEFINE p == g[n]
<1>8. PICK i : i \in 1..Len(p) /\ Len(p[i]) >= b - a + 1
  <2>1. n \in Q
    BY <1>1, <1>7
  <2> QED  BY <1>1, <2>1
<1>9. p \in Seq(Seq(S)) /\ Len(p) \in Nat \ {0} /\ Len(p[i]) \in Nat
  BY <1>1, <1>5, <1>8 DEF Pieces
<1>10. Lines(s) = Whole(p)
  BY <1>4 DEF Lines, Whole
<1> HIDE DEF p
<1>11. CASE Last(p) = <<>>
  <2>1. Len(p[i]) # 0
    BY <1>1, <1>8, <1>9
  <2>2. i # Len(p)
    BY <1>11, <2>1 DEF Last
  <2>3. i \in 1..Len(p) - 1
    BY <1>8, <1>9, <2>2
  <2>4. Len(Front(p)) = Len(p) - 1 /\ \A l \in 1..Len(p) - 1 : Front(p)[l] = p[l]
    <3> DEFINE k == Len(p) - 1
    <3>1. \A l \in 1..k : l \in 1..Len(p)
      BY <1>9
    <3>2. \A l \in 1..k : p[l] \in Seq(S)
      BY <1>9, <3>1, ElementOfSeq
    <3>3. k \in Nat /\ Front(p) = SubSeq(p, 1, k)
      BY <1>9 DEF Front
    <3> HIDE DEF k
    <3>4. Len(SubSeq(p, 1, k)) = k /\ \A l \in 1..k : SubSeq(p, 1, k)[l] = p[l]
      BY <3>2, <3>3, SubSeqProperties
    <3> QED  BY <3>3, <3>4 DEF k
  <2> QED  BY <1>8, <1>10, <1>11, <2>3, <2>4 DEF Whole
<1>12. CASE Last(p) # <<>>
  BY <1>8, <1>10, <1>12 DEF Whole
<1> QED  BY <1>11, <1>12
-----------------------------------------------------------------------------
(* What a scanner takes, and what Map makes of it.                         *)

\* A sequence up to the first of the places I.
Before(u, t, I) ==
    /\ Len(u) \in Nat /\ Len(u) <= Len(t) /\ u = SubSeq(t, 1, Len(u))
    /\ \A i \in 1..Len(u) : u[i] = t[i] /\ i \notin I
    /\ Len(u) < Len(t) => Len(u) + 1 \in I

LEMMA FirstOnes ==
    ASSUME NEW S, NEW t \in Seq(S), NEW I, I \subseteq 1..Len(t),
           NEW u, u = IF I = {} THEN t ELSE SubSeq(t, 1, Min(I) - 1)
    PROVE  u \in Seq(S) /\ Before(u, t, I)
<1> DEFINE m == Len(t)
<1>1. m \in Nat /\ \A i \in 1..m : t[i] \in S
  BY LenProperties, ElementOfSeq
<1>2. CASE I = {}
  <2>1. u = t /\ SubSeq(t, 1, m) = t
    BY <1>2, SubSeqFull
  <2> QED  BY <1>1, <1>2, <2>1 DEF Before
<1>3. CASE I # {}
  <2> DEFINE k == Min(I)
             n == k - 1
  <2>1. k \in I /\ \A y \in I : k <= y
    <3>1. I \subseteq Nat
      BY <1>1
    <3> QED  BY <1>3, <3>1, MinIsLeast
  <2> HIDE DEF k
  <2>2. k \in 1..m /\ n \in Nat /\ n <= m /\ n < m /\ n + 1 = k
    BY <1>1, <2>1
  <2>3. ASSUME NEW i \in 1..n
        PROVE  i \in 1..m /\ i \notin I
    BY <1>1, <2>1, <2>2
  <2>4. u = SubSeq(t, 1, n)
    BY <1>3 DEF k
  <2> HIDE DEF n, m
  <2>5. u \in Seq(S) /\ Len(u) = n /\ \A i \in 1..n : u[i] = t[i]
    <3>1. \A i \in 1..n : t[i] \in S
      BY <1>1, <2>3
    <3>2. n \in Int /\ 1 \in Int /\ n \in Nat
      BY <2>2
    <3> DEFINE v == SubSeq(t, 1, n)
    <3>3. v \in Seq(S) /\ Len(v) = n /\ \A i \in 1..n : v[i] = t[i]
      BY ONLY <3>1, <3>2, SubSeqProperties
    <3> QED  BY <2>4, <3>3
  <2> QED  BY <2>1, <2>2, <2>3, <2>4, <2>5 DEF Before, m
<1> QED  BY <1>2, <1>3

\* The tokens a scanner takes are those before the first one that is too long.
LongTokens(t) == {i \in 1..Len(t) : Len(t[i]) > MaxToken}

LEMMA ScannedBefore ==
    ASSUME NEW S, NEW t \in Seq(Seq(S))
    PROVE  Scanned(t) \in Seq(Seq(S)) /\ Before(Scanned(t), t, LongTokens(t))
<1> DEFINE I == {i \in 1..Len(t) : Len(t[i]) > MaxToken}
           T == Seq(S)
<1>1. SelectInSeq(t, LAMBDA x : Len(x) > MaxToken) = IF I # {} THEN Min(I) ELSE 0
  BY DEF SelectInSeq
<1>2. I \subseteq 1..Len(t) /\ I \subseteq Nat /\ I = LongTokens(t)
  BY LenProperties DEF LongTokens
<1> HIDE DEF I
<1>3. I # {} => Min(I) # 0
  <2>1. I # {} => Min(I) \in I
    BY <1>2, MinIsLeast
  <2> QED  BY <1>2, <2>1
<1>4. Scanned(t) = IF I = {} THEN t ELSE SubSeq(t, 1, Min(I) - 1)
  BY <1>1, <1>3 DEF Scanned, Until
<1>5. t \in Seq(T)
  OBVIOUS
<1> HIDE DEF T
<1>6. Scanned(t) \in Seq(T) /\ Before(Scanned(t), t, I)
  BY <1>2, <1>4, <1>5, FirstOnes
<1> QED  BY <1>2, <1>6 DEF T

LEMMA ScannedTyped ==
    ASSUME PipelineAssumption, NEW S, NEW t \in Seq(Seq(S))
    PROVE  /\ Scanned(t) \in Seq(Seq(S)) /\ Len(Scanned(t)) <= Len(t)
           /\ \A i \in 1..Len(Scanned(t)) : Len(Scanned(t)[i]) <= MaxToken
<1> DEFINE ok == Scanned(t)
<1>1. ok \in Seq(Seq(S)) /\ Before(ok, t, LongTokens(t))
  BY ScannedBefore
<1> HIDE DEF ok
<1>2. ASSUME NEW i \in 1..Len(ok)
      PROVE  Len(ok[i]) <= MaxToken
  <2>1. ok[i] = t[i] /\ i \notin LongTokens(t) /\ i \in 1..Len(t)
    BY <1>1, LenProperties DEF Before
  <2>2. t[i] \in Seq(S)
    BY <2>1, ElementOfSeq
  <2>3. Len(t[i]) \in Nat
    BY <2>2, LenProperties
  <2> QED  BY <2>1, <2>3 DEF LongTokens, PipelineAssumption
<1> QED  BY <1>1, <1>2 DEF Before, ok

\* The records that a KVScanner gives are short.
ShortPair == {kv \in Pair : ~Overlong(kv)}

LongRecords(s) == {i \in 1..Len(s) : Overlong(s[i])}

LEMMA ReadableBefore ==
    ASSUME NEW s \in Seq(Pair)
    PROVE  Readable(s) \in Seq(ShortPair) /\ Before(Readable(s), s, LongRecords(s))
<1> DEFINE I == {i \in 1..Len(s) : Overlong(s[i])}
           u == Readable(s)
<1>1. SelectInSeq(s, Overlong) = IF I # {} THEN Min(I) ELSE 0
  BY DEF SelectInSeq
<1>2. I \subseteq 1..Len(s) /\ I \subseteq Nat /\ I = LongRecords(s)
  BY LenProperties DEF LongRecords
<1> HIDE DEF I
<1>3. I # {} => Min(I) # 0
  <2>1. I # {} => Min(I) \in I
    BY <1>2, MinIsLeast
  <2> QED  BY <1>2, <2>1
<1>4. u = IF I = {} THEN s ELSE SubSeq(s, 1, Min(I) - 1)
  BY <1>1, <1>3 DEF Readable, Until
<1> HIDE DEF u
<1>5. u \in Seq(Pair) /\ Before(u, s, LongRecords(s))
  BY <1>2, <1>4, FirstOnes
<1>6. \A i \in 1..Len(u) : u[i] \in ShortPair
  <2>1. \A i \in 1..Len(u) : u[i] \in Pair
    BY <1>5, ElementOfSeq
  <2>2. \A i \in 1..Len(u) : i \in 1..Len(s) /\ i \notin LongRecords(s) /\ u[i] = s[i]
    BY <1>5, LenProperties DEF Before
  <2> QED  BY <2>1, <2>2 DEF ShortPair, LongRecords
<1>7. u \in Seq(ShortPair)
  <2>1. u \in [1..Len(u) -> ShortPair] /\ Len(u) \in Nat
    BY <1>5, <1>6, LenProperties
  <2> QED  BY <2>1
<1> QED  BY <1>5, <1>7 DEF u

\* A KVScanner gives short records as they are, and sorted ones sorted.
LEMMA ReadableShort ==
    ASSUME NEW s \in Seq(ShortPair)
    PROVE  s \in Seq(Pair) /\ Readable(s) = s
<1> DEFINE u == Readable(s)
<1>1. \A i \in 1..Len(s) : s[i] \in Pair /\ ~Overlong(s[i])
  BY ElementOfSeq DEF ShortPair
<1>2. s \in Seq(Pair)
  <2>1. s \in [1..Len(s) -> Pair] /\ Len(s) \in Nat
    BY <1>1, LenProperties
  <2> QED  BY <2>1
<1>3. Before(u, s, LongRecords(s)) /\ LongRecords(s) = {}
  BY <1>1, <1>2, ReadableBefore DEF LongRecords
<1> HIDE DEF u
<1>4. Len(u) = Len(s)
  BY <1>2, <1>3, LenProperties DEF Before
<1>5. u = SubSeq(s, 1, Len(s))
  BY <1>3, <1>4 DEF Before
<1>6. u = s
  BY <1>5, SubSeqFull
<1> QED  BY <1>2, <1>6 DEF u

LEMMA ReadableSorted ==
    ASSUME NEW s \in Seq(Pair), KeySorted(s)
    PROVE  KeySorted(Readable(s))
<1> DEFINE u == Readable(s)
<1>1. u \in Seq(ShortPair) /\ Before(u, s, LongRecords(s))
  BY ReadableBefore
<1> HIDE DEF u
<1>2. DOMAIN u = 1..Len(u) /\ DOMAIN s = 1..Len(s) /\ Len(s) \in Nat
  BY <1>1, LenProperties
<1>3. \A i \in 1..Len(u) : i \in 1..Len(s) /\ u[i] = s[i]
  BY <1>1, <1>2 DEF Before
<1> QED  BY <1>2, <1>3 DEF KeySorted, u

\* What Map is given of a line.
LEMMA MapLineTyped ==
    ASSUME PipelineAssumption, NEW l \in Seq(Byte), Len(l) <= MaxToken
    PROVE  MapLine(l) \in Seq(Pair)
<1> DEFINE b == IF EndsIn(l, Return) THEN Front(l) ELSE l
<1>1. Len(l) \in Nat /\ MaxToken \in Nat
  BY LenProperties DEF PipelineAssumption
<1>2. b \in Seq(Byte) /\ Len(b) <= MaxToken
  <2>1. CASE EndsIn(l, Return)
    <3>1. l # <<>>
      BY <2>1 DEF EndsIn
    <3>2. Front(l) \in Seq(Byte) /\ Len(Front(l)) = Len(l) - 1
      <4>1. Len(l) \in Nat \ {0} /\ \A i \in 1..Len(l) - 1 : l[i] \in Byte
        BY <1>1, <3>1, EmptySeq, ElementOfSeq
      <4> DEFINE n == Len(l) - 1
      <4>2. n \in Nat /\ \A i \in 1..n : l[i] \in Byte
        BY <4>1
      <4>3. Front(l) = SubSeq(l, 1, n)
        BY DEF Front
      <4> HIDE DEF n
      <4>4. Front(l) \in Seq(Byte) /\ Len(Front(l)) = n
        BY <4>2, <4>3, SubSeqProperties
      <4> QED  BY <4>4 DEF n
    <3> QED  BY <1>1, <2>1, <3>2
  <2>2. CASE ~EndsIn(l, Return)
    BY <2>2
  <2> QED  BY <2>1, <2>2
<1> HIDE DEF b
<1>3. Len(b) \in 0..MaxToken /\ b \in [1..Len(b) -> Byte]
  BY <1>1, <1>2, LenProperties
<1>4. b \in BoundedSeq(Byte, MaxToken)
  BY <1>3 DEF BoundedSeq, SeqOf
<1> QED  BY <1>4 DEF PipelineAssumption, MapLine, b

\* What Map makes of the lines of a chunk are pairs.
LEMMA MapTyped ==
    ASSUME PipelineAssumption, NEW c \in Seq(Byte)
    PROVE  Mapped(c) \in Seq(Pair)
<1> DEFINE t == Scanned(Lines(c))
           n == Len(t)
           mm == MapSeq(t, MapLine)
<1>1. /\ t \in Seq(Seq(Byte)) /\ n \in Nat /\ DOMAIN t = 1..n
      /\ \A i \in 1..n : Len(t[i]) <= MaxToken
  BY LinesTyped, ScannedTyped, LenProperties
<1> HIDE DEF t
<1>2. \A i \in 1..n : MapLine(t[i]) \in Seq(Pair)
  BY <1>1, ElementOfSeq, MapLineTyped
<1> HIDE DEF n
<1>3. mm = [i \in 1..n |-> MapLine(t[i])]
  BY <1>1 DEF MapSeq
<1> HIDE DEF mm
<1>4. mm \in Seq(Seq(Pair))
  BY <1>1, <1>2, <1>3, IsASeq
<1> QED  BY <1>4, FlattenTyped DEF Mapped, mm, t
-----------------------------------------------------------------------------
(* The invariant.                                                          *)

\* What has been cut is the file so far.
FileInv ==
    /\ file \in Files /\ file \in Seq(Byte) /\ isText \in BOOLEAN
    /\ chunks \in Seq(Seq(Byte)) /\ Len(chunks) <= MaxChunks
    /\ IsPrefix(FlattenSeq(chunks), file)
    /\ at # "cut" => FlattenSeq(chunks) = file

SortedRuns(runs) ==
    runs \in Seq(Seq(ShortPair)) /\ \A i \in 1..Len(runs) : KeySorted(runs[i])

SpillFile == [Reducer -> {s \in Seq(Pair) : KeySorted(s)}]

\* An intermediate file: what its index calls a partition is there, and sorted.
InterFile ==
    {x \in [data : Seq(ShortPair), index : Seq(Nat \X Nat)] :
        \A k \in 1..Len(x.index) :
            /\ x.index[k][1] <= x.index[k][2] /\ x.index[k][2] <= Len(x.data)
            /\ KeySorted(SubSeq(x.data, x.index[k][1] + 1, x.index[k][2]))}

\* No record that is left to merge comes before one that has been written.
MergeInv ==
    /\ SortedRuns(heap)
    /\ out \in Seq(ShortPair) /\ KeySorted(out)
    /\ \A k \in 1..Len(out), j \in 1..Len(heap) :
           \A m \in 1..Len(heap[j]) : Key(out[k]) <= Key(heap[j][m])

FilesInv ==
    /\ pairs \in Seq(Pair) /\ spills \in Seq(SpillFile) /\ inter \in Seq(InterFile)
    /\ SortedRuns(inputs) /\ SortedRuns(temps)

\* Which map tasks have an intermediate file, and with all of its index.
Progress ==
    /\ at \in {"cut", "scan", "spill", "merge", "fetch", "sort", "batch", "last", "done"}
    /\ at = "cut" => inter = <<>> /\ now = 0
    /\ at \in {"scan", "spill"} => now \in 1..Len(chunks) /\ Len(inter) = now - 1
    /\ at = "merge" => /\ now \in 1..Len(chunks) /\ Len(inter) = now
                       /\ Len(inter[now].index) < NumReducers
    /\ at \in {"fetch", "sort", "batch", "last", "done"} =>
           now \in Reducer /\ Len(inter) = Len(chunks)
    /\ \A t \in 1..Len(inter) :
           (at = "merge" => t # now) => Len(inter[t].index) = NumReducers
    /\ fetched \subseteq 1..Len(chunks)
    /\ DOMAIN result = Reducer

PipelineInv == FileInv /\ FilesInv /\ MergeInv /\ Progress
-----------------------------------------------------------------------------
(* Cutting.                                                                *)

\* The bytes that one round of calculateChunks takes.
CutSize ==
    LET remaining == Len(file) - ChunkSum IN
    IF remaining <= MaxChunkSize THEN remaining
    ELSE IF isText THEN TextSize(ChunkSum) ELSE MaxChunkSize

\* A text chunk does not reach over the end of the file.
LEMMA TextSizeFits ==
    ASSUME PipelineAssumption, file \in Seq(Byte), NEW o \in Nat,
           o + MaxChunkSize < Len(file)
    PROVE  TextSize(o) \in 0..Len(file) - o
<1> DEFINE from == o + MaxChunkSize
           N == {i \in from..Len(file) : file[i] = Newline}
           nl == SelectInSubSeq(file, from, Len(file), LAMBDA b : b = Newline)
           extra == IF nl = 0 THEN Len(file) - from + 1 ELSE nl - from + 1
           x == MaxChunkSize - 1 + extra
<1>1. /\ Len(file) \in Nat /\ MaxChunkSize \in Nat \ {0} /\ Wrap \in Nat \ {0}
      /\ from \in 1..Len(file) /\ N \subseteq Nat /\ N \subseteq from..Len(file)
  BY DEF PipelineAssumption
<1>2. nl = IF N # {} THEN Min(N) ELSE 0
  BY DEF SelectInSubSeq
<1> HIDE DEF N, nl
<1>3. nl = 0 \/ nl \in from..Len(file)
  BY <1>1, <1>2, MinIsLeast
<1>4. x \in 0..Len(file) - o
  BY <1>1, <1>3
<1>5. TextSize(o) = x % Wrap
  BY DEF TextSize, nl
<1> HIDE DEF x
<1>6. x % Wrap \in 0..Wrap - 1 /\ x % Wrap <= x
  BY <1>1, <1>4
<1> QED  BY <1>1, <1>4, <1>5, <1>6

LEMMA CutKeeps ==
    ASSUME PipelineAssumption, PipelineInv, Cut
    PROVE  PipelineInv'
<1> USE DEF PipelineInv
<1> DEFINE joined == FlattenSeq(chunks)
           o == ChunkSum
           size == CutSize
           c == SubSeq(file, o + 1, o + size)
<1>1. /\ chunks \in Seq(Seq(Byte)) /\ file \in Seq(Byte) /\ isText \in BOOLEAN
      /\ joined \in Seq(Byte) /\ o = Len(joined) /\ o \in Nat /\ Len(file) \in Nat
      /\ o < Len(file) /\ IsPrefix(joined, file)
  BY FlattenTyped, LenProperties DEF FileInv, Cut, ChunkSum
<1>2. /\ chunks' = Append(chunks, c) /\ Len(chunks) < MaxChunks /\ at = "cut"
      /\ UNCHANGED <<file, isText, at, now, mapVars, inter, mergeVars, sortVars, result>>
  BY DEF Cut, CutSize
<1>3. size \in 0..Len(file) - o
  <2>1. o + MaxChunkSize < Len(file) => TextSize(o) \in 0..Len(file) - o
    BY <1>1, TextSizeFits
  <2> HIDE DEF o
  <2>2. size = IF Len(file) - o <= MaxChunkSize THEN Len(file) - o
               ELSE IF isText THEN TextSize(o) ELSE MaxChunkSize
    BY DEF CutSize, o
  <2> QED  BY <1>1, <2>1, <2>2 DEF PipelineAssumption
<1> HIDE DEF joined, o, size
<1>4. /\ c \in Seq(Byte) /\ Len(c) = size
      /\ \A i \in 1..size : c[i] = file[o + i]
  <2>1. \A i \in o + 1..o + size : i \in 1..Len(file)
    BY <1>1, <1>3
  <2>2. \A i \in o + 1..o + size : file[i] \in Byte
    BY <1>1, <2>1, ElementOfSeq
  <2>3. o + 1 \in Int /\ o + size \in Int /\ (o + size) - (o + 1) + 1 = size
        /\ (IF o + 1 <= o + size THEN size ELSE 0) = size
        /\ \A i \in 1..size : (o + 1) + i - 1 = o + i
    BY <1>1, <1>3
  <2> QED  BY <2>2, <2>3, SubSeqProperties
<1> HIDE DEF c
<1>5. FlattenSeq(chunks') = joined \o c
  BY <1>1, <1>2, <1>4, FlattenAppend DEF joined
<1>6. chunks' \in Seq(Seq(Byte)) /\ Len(chunks') = Len(chunks) + 1 /\ Len(chunks) \in Nat
  BY <1>1, <1>2, <1>4, AppendProperties
<1>7. IsPrefix(joined \o c, file)
  <2> DEFINE j == joined \o c
  <2>a. joined \in Seq(Byte) /\ c \in Seq(Byte) /\ Len(joined) = o /\ Len(c) = size
    BY <1>1, <1>4
  <2>b. /\ j \in Seq(Byte) /\ Len(j) = Len(joined) + Len(c)
        /\ \A i \in 1..Len(joined) + Len(c) :
              j[i] = IF i <= Len(joined) THEN joined[i] ELSE c[i - Len(joined)]
    BY ONLY <2>a, ConcatProperties
  <2> HIDE DEF j
  <2>1. /\ j \in Seq(Byte) /\ Len(j) = o + size
        /\ \A i \in 1..o + size : j[i] = IF i <= o THEN joined[i] ELSE c[i - o]
    BY <2>a, <2>b
  <2>2. \A i \in 1..o : joined[i] = file[i]
    <3>1. SubSeq(joined, 1, o) = SubSeq(file, 1, o) /\ o <= Len(file)
      BY <1>1 DEF IsPrefix
    <3>2. \A i \in 1..o : joined[i] \in Byte /\ file[i] \in Byte
      BY <1>1
    <3>3. \A i \in 1..o : SubSeq(joined, 1, o)[i] = joined[i] /\ SubSeq(file, 1, o)[i] = file[i]
      BY <1>1, <3>2, SubSeqProperties
    <3> QED  BY <3>1, <3>3
  <2> HIDE DEF j
  <2>3. \A i \in 1..o + size : j[i] = file[i]
    <3> SUFFICES ASSUME NEW i \in 1..o + size PROVE j[i] = file[i]
      OBVIOUS
    <3>1. CASE i <= o
      BY <1>1, <1>3, <2>1, <2>2, <3>1
    <3>2. CASE ~(i <= o)
      <4>1. i - o \in 1..size /\ o + (i - o) = i
        BY <1>1, <1>3, <3>2
      <4> QED  BY <1>4, <2>1, <3>2, <4>1
    <3> QED  BY <3>1, <3>2
  <2>4. o + size <= Len(file) /\ o + size \in Nat
    BY <1>1, <1>3
  <2>5. SubSeq(j, 1, o + size) = SubSeq(file, 1, o + size)
    <3>1. \A i \in 1..o + size : j[i] \in Byte /\ file[i] \in Byte
      BY <1>1, <2>1, <2>3, <2>4, ElementOfSeq
    <3> DEFINE a == SubSeq(j, 1, o + size)
               b == SubSeq(file, 1, o + size)
               n == o + size
    <3>2. /\ a \in Seq(Byte) /\ Len(a) = n /\ \A i \in 1..n : a[i] = j[i]
      BY <2>4, <3>1, SubSeqProperties
    <3>3. /\ b \in Seq(Byte) /\ Len(b) = n /\ \A i \in 1..n : b[i] = file[i]
      BY <2>4, <3>1, SubSeqProperties
    <3> HIDE DEF a, b, n
    <3>4. \A i \in 1..n : a[i] = b[i]
      BY <2>3, <3>2, <3>3 DEF n
    <3> QED  BY <3>2, <3>3, <3>4, SeqEqual DEF a, b, n
  <2> QED  BY <2>1, <2>4, <2>5 DEF IsPrefix, j
<1>8. FileInv'
  BY <1>1, <1>2, <1>5, <1>6, <1>7 DEF FileInv, PipelineAssumption
<1>9. Progress'
  BY <1>2, <1>6 DEF Progress, sortVars
<1>10. FilesInv' /\ MergeInv'
  BY <1>2 DEF FilesInv, MergeInv, SortedRuns, mapVars, mergeVars, sortVars
<1> QED  BY <1>8, <1>9, <1>10

\* A file without a byte has no map task; otherwise the first one begins.
LEMMA CutDoneKeeps ==
    ASSUME PipelineAssumption, PipelineInv, CutDone
    PROVE  PipelineInv'
<1> USE DEF PipelineInv
<1>1. /\ at = "cut" /\ ChunkSum = Len(file)
      /\ IF chunks # <<>> THEN at' = "scan" /\ now' = 1 ELSE at' = "fetch" /\ now' = 0
      /\ UNCHANGED <<file, isText, chunks, mapVars, inter, mergeVars, sortVars, result>>
  BY DEF CutDone
<1>2. FlattenSeq(chunks) = file
  <2>1. FlattenSeq(chunks) \in Seq(Byte) /\ file \in Seq(Byte)
    BY FlattenTyped DEF FileInv
  <2> DEFINE j == FlattenSeq(chunks)
  <2>2. Len(j) = Len(file) /\ SubSeq(j, 1, Len(j)) = SubSeq(file, 1, Len(j))
    BY <1>1 DEF ChunkSum, FileInv, IsPrefix
  <2> HIDE DEF j
  <2>3. SubSeq(j, 1, Len(j)) = j /\ SubSeq(file, 1, Len(file)) = file
    BY <2>1, SubSeqFull DEF j
  <2> QED  BY <2>2, <2>3 DEF j
<1>3. FileInv'
  BY <1>1, <1>2 DEF FileInv
<1>4. Progress'
  <2>1. 0 \in Reducer
    BY DEF Reducer, PipelineAssumption
  <2>2. Len(chunks) \in Nat /\ (chunks # <<>> => 1 \in 1..Len(chunks)) /\ Len(<<>>) = 0
    BY EmptySeq DEF FileInv
  <2> QED  BY <1>1, <2>1, <2>2 DEF Progress, sortVars
<1>5. FilesInv' /\ MergeInv'
  BY <1>1 DEF FilesInv, MergeInv, SortedRuns, mapVars, mergeVars, sortVars
<1> QED  BY <1>3, <1>4, <1>5
-----------------------------------------------------------------------------
(* The map tasks.                                                          *)

LEMMA ScanKeeps ==
    ASSUME PipelineAssumption, PipelineInv, Scan
    PROVE  PipelineInv'
<1> USE DEF PipelineInv
<1>1. /\ at = "scan" /\ at' = "spill" /\ spills' = <<>>
      /\ pairs' = Mapped(chunks[now])
      /\ UNCHANGED <<file, isText, chunks, now, inter, mergeVars, sortVars, result>>
  BY DEF Scan
<1>2. chunks[now] \in Seq(Byte)
  BY <1>1 DEF FileInv, Progress
<1>3. pairs' \in Seq(Pair) /\ spills' \in Seq(SpillFile)
  BY <1>1, <1>2, MapTyped
<1>4. FileInv'
  BY <1>1 DEF FileInv
<1>5. Progress'
  BY <1>1 DEF Progress, sortVars
<1>6. FilesInv' /\ MergeInv'
  BY <1>1, <1>3 DEF FilesInv, MergeInv, SortedRuns, mergeVars, sortVars
<1> QED  BY <1>4, <1>5, <1>6

\* A sorted partition of pairs.
LEMMA PartitionsSorted ==
    ASSUME NEW s \in Seq(Pair), NEW r, NEW t \in Partitions(s, r)
    PROVE  t \in {x \in Seq(Pair) : KeySorted(x)}
<1> DEFINE mine == {i \in DOMAIN s : Partition(Key(s[i])) = r}
           n == Cardinality(mine)
<1>1. s \in [1..Len(s) -> Pair] /\ Len(s) \in Nat /\ DOMAIN s = 1..Len(s)
  BY LenProperties
<1>2. n \in Nat
  <2>1. IsFiniteSet(1..Len(s))
    BY <1>1, FS_Interval
  <2>2. mine \subseteq 1..Len(s)
    BY <1>1
  <2> HIDE DEF mine
  <2>3. IsFiniteSet(mine)
    BY <2>1, <2>2, FS_Subset
  <2> QED  BY <2>3, FS_CardinalityType
<1>3. PICK p \in Bijection(1..n, mine) : t = [i \in 1..n |-> s[p[i]]] /\ KeySorted(t)
  BY DEF Partitions
<1>4. p \in [1..n -> mine]
  BY <1>3 DEF Bijection, Injection
<1>5. \A i \in 1..n : s[p[i]] \in Pair
  BY <1>1, <1>4
<1> HIDE DEF n
<1>6. t \in Seq(Pair)
  BY <1>2, <1>3, <1>5
<1> QED  BY <1>3, <1>6

LEMMA SpillKeeps ==
    ASSUME PipelineAssumption, PipelineInv, Spill
    PROVE  PipelineInv'
<1> USE DEF PipelineInv
<1> DEFINE n == IF Len(pairs) < SpillSize THEN Len(pairs) ELSE SpillSize
           first == SubSeq(pairs, 1, n)
           rest == SubSeq(pairs, n + 1, Len(pairs))
<1>1. /\ at = "spill" /\ pairs' = rest
      /\ UNCHANGED <<file, isText, chunks, at, now, inter, mergeVars, sortVars, result>>
  BY DEF Spill
<1>2. PICK s \in [Reducer -> UNION {Partitions(first, r) : r \in Reducer}] :
         /\ \A r \in Reducer : s[r] \in Partitions(first, r)
         /\ spills' = Append(spills, s)
  BY Zenon DEF Spill
<1>3. pairs \in Seq(Pair) /\ n \in Nat /\ Len(pairs) \in Nat /\ n <= Len(pairs)
  BY LenProperties DEF FilesInv, PipelineAssumption
<1> HIDE DEF n
<1>4. first \in Seq(Pair) /\ rest \in Seq(Pair)
  <2>1. \A i \in 1..n : pairs[i] \in Pair
    BY <1>3, ElementOfSeq
  <2>2. \A i \in n + 1..Len(pairs) : pairs[i] \in Pair
    <3>1. \A i \in n + 1..Len(pairs) : i \in 1..Len(pairs)
      BY <1>3
    <3> QED  BY <1>3, <3>1, ElementOfSeq
  <2> QED  BY <1>3, <2>1, <2>2, SubSeqProperties
<1> HIDE DEF first, rest
<1>5. s \in SpillFile
  <2>1. \A r \in Reducer : s[r] \in {x \in Seq(Pair) : KeySorted(x)}
    BY <1>2, <1>4, PartitionsSorted
  <2> QED  BY <1>2, <2>1 DEF SpillFile
<1>6. spills' \in Seq(SpillFile)
  BY <1>2, <1>5, AppendProperties DEF FilesInv
<1>7. FileInv'
  BY <1>1 DEF FileInv
<1>8. Progress'
  BY <1>1 DEF Progress, sortVars
<1>9. FilesInv' /\ MergeInv'
  BY <1>1, <1>4, <1>6 DEF FilesInv, MergeInv, SortedRuns, mergeVars, sortVars
<1> QED  BY <1>7, <1>8, <1>9

\* A merge that begins: sorted runs, and nothing written.
LEMMA MergeBegins ==
    ASSUME SortedRuns(heap)', out' = <<>>
    PROVE  MergeInv'
<1>1. out' \in Seq(ShortPair) /\ Len(out') = 0
  OBVIOUS
<1>2. KeySorted(out')
  BY <1>1 DEF KeySorted
<1> QED  BY <1>1, <1>2 DEF MergeInv

LEMMA NoRuns == SortedRuns(<<>>)
  BY DEF SortedRuns

\* The runs of one partition, of all spill files.
LEMMA SpillScannersSorted ==
    ASSUME FilesInv, NEW r \in Reducer
    PROVE  SortedRuns(SpillScanners(r))
<1> DEFINE n == Len(spills)
           runs == SpillScanners(r)
<1>1. /\ n \in Nat /\ DOMAIN spills = 1..n
      /\ \A k \in 1..n : spills[k] \in SpillFile
  BY LenProperties DEF FilesInv
<1>2. runs = [k \in 1..n |-> Readable(spills[k][r])]
  BY <1>1 DEF SpillScanners, MapSeq
<1>3. \A k \in 1..n : spills[k][r] \in Seq(Pair) /\ KeySorted(spills[k][r])
  BY <1>1 DEF SpillFile
<1>4. \A k \in 1..n : Readable(spills[k][r]) \in Seq(ShortPair) /\ KeySorted(Readable(spills[k][r]))
  BY <1>3, ReadableBefore, ReadableSorted
<1> HIDE DEF n, runs
<1>5. runs \in Seq(Seq(ShortPair)) /\ Len(runs) = n
  BY <1>1, <1>2, <1>4
<1> QED  BY <1>2, <1>4, <1>5 DEF SortedRuns, runs

LEMMA StartMergeKeeps ==
    ASSUME PipelineAssumption, PipelineInv, StartMerge
    PROVE  PipelineInv'
<1> USE DEF PipelineInv
<1> DEFINE x == [data |-> <<>>, index |-> <<>>]
<1>1. /\ at = "spill" /\ at' = "merge" /\ inter' = Append(inter, x)
      /\ heap' = SpillScanners(0) /\ out' = <<>>
      /\ UNCHANGED <<file, isText, chunks, now, mapVars, sortVars, result>>
  BY DEF StartMerge
<1>2. x \in InterFile
  BY DEF InterFile
<1>3. x.index = <<>>
  OBVIOUS
<1> HIDE DEF x
<1>4. /\ inter' \in Seq(InterFile) /\ Len(inter') = Len(inter) + 1 /\ Len(inter) \in Nat
      /\ inter'[Len(inter) + 1] = x /\ \A t \in 1..Len(inter) : inter'[t] = inter[t]
  BY <1>1, <1>2, AppendProperties DEF FilesInv
<1>5. 0 \in Reducer /\ NumReducers > 0
  BY DEF Reducer, PipelineAssumption
<1>6. MergeInv'
  <2>1. SortedRuns(SpillScanners(0))
    BY <1>5, SpillScannersSorted
  <2>2. SortedRuns(heap)'
    BY <1>1, <2>1 DEF SortedRuns
  <2> QED  BY <1>1, <2>2, MergeBegins
<1>7. FileInv'
  BY <1>1 DEF FileInv
<1>8. FilesInv'
  BY <1>1, <1>4 DEF FilesInv, SortedRuns, mapVars, sortVars
<1>9. Progress'
  <2>1. now \in 1..Len(chunks) /\ Len(inter) = now - 1
    BY <1>1 DEF Progress
  <2>2. /\ now' = now /\ Len(inter') = now /\ inter'[now] = x /\ Len(x.index) = 0
        /\ \A t \in 1..Len(inter) : t # now /\ Len(inter'[t].index) = NumReducers
    BY <1>1, <1>3, <1>4, <2>1 DEF Progress
  <2>3. \A t \in 1..Len(inter') : t # now => Len(inter'[t].index) = NumReducers
    BY <1>4, <2>2
  <2> QED  BY <1>1, <1>5, <2>1, <2>2, <2>3 DEF Progress, sortVars
<1> QED  BY <1>6, <1>7, <1>8, <1>9

\* The least of the first records goes to the end of what has been written.
LEMMA PopKeeps ==
    ASSUME PipelineAssumption, PipelineInv, Pop
    PROVE  PipelineInv'
<1> USE DEF PipelineInv
<1>1. PICK i \in DOMAIN heap :
        /\ heap[i] # <<>>
        /\ \A j \in DOMAIN heap :
              heap[j] # <<>> => Key(Head(heap[i])) <= Key(Head(heap[j]))
        /\ out' = Append(out, Head(heap[i]))
        /\ heap' = [heap EXCEPT ![i] = Tail(@)]
  BY DEF Pop
<1>2. UNCHANGED <<file, isText, chunks, at, now, mapVars, inter, sortVars, result>>
  BY DEF Pop
<1> DEFINE h == Head(heap[i])
           t == Tail(heap[i])
<1>3. /\ heap \in Seq(Seq(ShortPair)) /\ DOMAIN heap = 1..Len(heap) /\ i \in 1..Len(heap)
      /\ \A j \in 1..Len(heap) : heap[j] \in Seq(ShortPair) /\ KeySorted(heap[j])
  BY LenProperties DEF MergeInv, SortedRuns
<1>4. /\ h \in ShortPair /\ t \in Seq(ShortPair) /\ Len(t) = Len(heap[i]) - 1
      /\ \A k \in 1..Len(t) : t[k] = heap[i][k + 1]
      /\ Len(heap[i]) \in Nat \ {0} /\ h = heap[i][1]
  BY <1>1, <1>3, HeadTailProperties, EmptySeq
<1>5. \A kv \in ShortPair : Key(kv) \in Nat
  BY DEF Key, Pair, ShortPair, PipelineAssumption
<1>6. \A j \in 1..Len(heap) : \A k \in 1..Len(heap[j]) : Key(h) <= Key(heap[j][k])
  <2> SUFFICES ASSUME NEW j \in 1..Len(heap), NEW k \in 1..Len(heap[j])
               PROVE  Key(h) <= Key(heap[j][k])
    OBVIOUS
  <2>1. heap[j] \in Seq(ShortPair) /\ Len(heap[j]) \in Nat /\ DOMAIN heap[j] = 1..Len(heap[j])
    BY <1>3, LenProperties
  <2>2. heap[j] # <<>> /\ 1 \in 1..Len(heap[j])
    BY <2>1, EmptySeq
  <2>3. Head(heap[j]) = heap[j][1] /\ heap[j][1] \in ShortPair /\ heap[j][k] \in ShortPair
    BY <2>1, <2>2, ElementOfSeq
  <2>4. Key(h) <= Key(heap[j][1])
    BY <1>1, <1>3, <2>2, <2>3
  <2>5. Key(heap[j][1]) <= Key(heap[j][k])
    <3>1. CASE k = 1
      BY <1>5, <2>3, <3>1
    <3>2. CASE k # 1
      <4>1. 1 < k
        BY <2>1, <3>2
      <4> QED  BY <1>3, <2>1, <2>2, <4>1 DEF KeySorted
    <3> QED  BY <3>1, <3>2
  <2>6. Key(h) \in Nat /\ Key(heap[j][1]) \in Nat /\ Key(heap[j][k]) \in Nat
    BY <1>4, <1>5, <2>3
  <2> QED  BY ONLY <2>4, <2>5, <2>6
<1>7. /\ heap' \in Seq(Seq(ShortPair)) /\ Len(heap') = Len(heap)
      /\ \A j \in 1..Len(heap) : heap'[j] = IF j = i THEN t ELSE heap[j]
  BY <1>1, <1>3, <1>4, ExceptSeq
<1>8. /\ out' \in Seq(ShortPair) /\ Len(out') = Len(out) + 1 /\ out'[Len(out) + 1] = h
      /\ \A k \in 1..Len(out) : out'[k] = out[k]
      /\ Len(out) \in Nat /\ out \in Seq(ShortPair)
  BY <1>1, <1>4, AppendProperties, LenProperties DEF MergeInv
<1> HIDE DEF h
<1>9. KeySorted(t)
  <2> SUFFICES ASSUME NEW k \in 1..Len(t), NEW m \in 1..Len(t), k < m
               PROVE  Key(t[k]) <= Key(t[m])
    BY <1>4, LenProperties DEF KeySorted
  <2>1. k + 1 \in 1..Len(heap[i]) /\ m + 1 \in 1..Len(heap[i]) /\ k + 1 < m + 1
    BY <1>4
  <2>2. DOMAIN heap[i] = 1..Len(heap[i])
    BY <1>3, LenProperties
  <2>3. KeySorted(heap[i])
    BY <1>3
  <2>4. Key(heap[i][k + 1]) <= Key(heap[i][m + 1])
    BY <2>1, <2>2, <2>3 DEF KeySorted
  <2> QED  BY <1>4, <2>4
<1> HIDE DEF t
<1>10. SortedRuns(heap)'
  BY <1>3, <1>7, <1>9 DEF SortedRuns
<1>11. ASSUME NEW k \in 1..Len(out), NEW j \in 1..Len(heap), NEW m \in 1..Len(heap[j])
       PROVE  Key(out[k]) <= Key(heap[j][m])
  BY DEF MergeInv
<1>12. KeySorted(out')
  <2> SUFFICES ASSUME NEW k \in 1..Len(out'), NEW m \in 1..Len(out'), k < m
               PROVE  Key(out'[k]) <= Key(out'[m])
    BY <1>8, LenProperties DEF KeySorted
  <2>1. k \in 1..Len(out) /\ out'[k] = out[k]
    BY <1>8
  <2>2. CASE m = Len(out) + 1
    <3>1. 1 \in 1..Len(heap[i])
      BY <1>4
    <3>2. Key(out[k]) <= Key(h)
      BY <1>3, <1>4, <1>11, <2>1, <3>1
    <3> QED  BY <1>8, <2>1, <2>2, <3>2
  <2>3. CASE m # Len(out) + 1
    <3>1. m \in 1..Len(out) /\ out'[m] = out[m]
      BY <1>8, <2>3
    <3>2. DOMAIN out = 1..Len(out) /\ KeySorted(out)
      BY <1>8, LenProperties DEF MergeInv
    <3> QED  BY <2>1, <3>1, <3>2 DEF KeySorted
  <2> QED  BY <2>2, <2>3
<1>13. ASSUME NEW k \in 1..Len(out'), NEW j \in 1..Len(heap'), NEW m \in 1..Len(heap'[j])
       PROVE  Key(out'[k]) <= Key(heap'[j][m])
  <2>1. PICK n \in 1..Len(heap[j]) : heap'[j][m] = heap[j][n]
    <3>1. CASE j = i
      <4>1. m \in 1..Len(t) /\ heap'[j][m] = t[m]
        BY <1>7, <3>1
      <4>2. m + 1 \in 1..Len(heap[i])
        BY <1>4, <4>1
      <4> QED  BY <1>4, <3>1, <4>1, <4>2
    <3>2. CASE j # i
      BY <1>7, <3>2
    <3> QED  BY <3>1, <3>2
  <2>2. CASE k = Len(out) + 1
    BY <1>6, <1>7, <1>8, <2>1, <2>2
  <2>3. CASE k # Len(out) + 1
    <3>1. k \in 1..Len(out) /\ out'[k] = out[k]
      BY <1>8, <2>3
    <3> QED  BY <1>7, <1>11, <2>1, <3>1
  <2> QED  BY <2>2, <2>3
<1>14. MergeInv'
  BY <1>8, <1>10, <1>12, <1>13 DEF MergeInv
<1>15. FileInv' /\ Progress'
  BY <1>2 DEF FileInv, Progress, sortVars
<1>16. FilesInv'
  BY <1>2 DEF FilesInv, SortedRuns, mapVars, sortVars
<1> QED  BY <1>14, <1>15, <1>16

\* What is in the first of two files stays where it is when they are joined,
\* and the second is what follows it.
LEMMA SubSeqOfConcat ==
    ASSUME NEW S, NEW s \in Seq(S), NEW t \in Seq(S), NEW a \in Nat, NEW b \in Nat
    PROVE  /\ b <= Len(s) => SubSeq(s \o t, a + 1, b) = SubSeq(s, a + 1, b)
           /\ SubSeq(s \o t, Len(s) + 1, Len(s) + Len(t)) = t
<1> DEFINE j == s \o t
<1>1. /\ j \in Seq(S) /\ Len(j) = Len(s) + Len(t) /\ Len(s) \in Nat /\ Len(t) \in Nat
      /\ \A i \in 1..Len(s) + Len(t) : j[i] = IF i <= Len(s) THEN s[i] ELSE t[i - Len(s)]
      /\ \A i \in 1..Len(s) + Len(t) : j[i] \in S
  BY ConcatProperties, LenProperties, ElementOfSeq
<1> HIDE DEF j
<1>2. ASSUME b <= Len(s)
      PROVE  SubSeq(j, a + 1, b) = SubSeq(s, a + 1, b)
  <2> DEFINE u == SubSeq(j, a + 1, b)
             v == SubSeq(s, a + 1, b)
             n == IF a + 1 <= b THEN b - a ELSE 0
  <2>1. \A i \in a + 1..b : i \in 1..Len(s) /\ i \in 1..Len(s) + Len(t) /\ j[i] = s[i]
    BY <1>1, <1>2
  <2>2. \A i \in a + 1..b : j[i] \in S /\ s[i] \in S
    BY <1>1, <2>1, ElementOfSeq
  <2>3. /\ u \in Seq(S) /\ Len(u) = IF a + 1 <= b THEN b - (a + 1) + 1 ELSE 0
        /\ \A i \in 1..b - (a + 1) + 1 : u[i] = j[(a + 1) + i - 1]
    BY <2>2, SubSeqProperties
  <2>4. /\ v \in Seq(S) /\ Len(v) = IF a + 1 <= b THEN b - (a + 1) + 1 ELSE 0
        /\ \A i \in 1..b - (a + 1) + 1 : v[i] = s[(a + 1) + i - 1]
    BY <2>2, SubSeqProperties
  <2> HIDE DEF u, v
  <2>5. ASSUME NEW i \in 1..Len(u)
        PROVE  u[i] = v[i]
    <3>1. i \in 1..b - (a + 1) + 1 /\ (a + 1) + i - 1 \in a + 1..b
      BY <2>3
    <3> QED  BY <2>1, <2>3, <2>4, <3>1
  <2>6. Len(u) = Len(v)
    BY <2>3, <2>4
  <2> QED  BY <2>3, <2>4, <2>5, <2>6, SeqEqual DEF u, v
<1>3. SubSeq(j, Len(s) + 1, Len(s) + Len(t)) = t
  <2> DEFINE u == SubSeq(j, Len(s) + 1, Len(s) + Len(t))
             n == Len(t)
             k == Len(s)
  <2>1. k \in Nat /\ n \in Nat /\ \A i \in k + 1..k + n : j[i] \in S
    BY <1>1
  <2>a. \A i \in 1..n : j[k + i] = t[i]
    <3> SUFFICES ASSUME NEW i \in 1..n PROVE j[k + i] = t[i]
      OBVIOUS
    <3>1. k + i \in 1..Len(s) + Len(t) /\ ~(k + i <= Len(s)) /\ (k + i) - Len(s) = i
      BY <1>1
    <3> QED  BY <1>1, <3>1
  <2>b. u = SubSeq(j, k + 1, k + n)
    OBVIOUS
  <2> HIDE DEF u, n, k
  <2>2. /\ u \in Seq(S) /\ Len(u) = IF k + 1 <= k + n THEN (k + n) - (k + 1) + 1 ELSE 0
        /\ \A i \in 1..(k + n) - (k + 1) + 1 : u[i] = j[(k + 1) + i - 1]
    <3>1. k + 1 \in Int /\ k + n \in Int
      BY <2>1
    <3> QED  BY ONLY <2>1, <2>b, <3>1, SubSeqProperties
  <2>3. Len(u) = n /\ \A i \in 1..n : u[i] = j[k + i]
    <3>1. /\ (k + n) - (k + 1) + 1 = n /\ (~(k + 1 <= k + n) => n = 0)
          /\ \A i \in 1..n : (k + 1) + i - 1 = k + i
      BY <2>1
    <3> QED  BY <2>2, <3>1
  <2>4. \A i \in 1..Len(u) : u[i] = t[i]
    BY <2>3, <2>a
  <2>5. Len(u) = Len(t)
    BY <2>3 DEF n
  <2> QED  BY <2>2, <2>4, <2>5, SeqEqual DEF u
<1> QED  BY <1>2, <1>3 DEF j

\* One more partition, and the line of the index that says where it is.
LEMMA InterFileGrows ==
    ASSUME NEW x \in InterFile, NEW o \in Seq(ShortPair), KeySorted(o)
    PROVE  [data |-> x.data \o o,
            index |-> Append(x.index, <<Len(x.data), Len(x.data) + Len(o)>>)] \in InterFile
<1> DEFINE xd == x.data
           xi == x.index
           n == Len(xi)
           start == Len(xd)
           e == <<start, start + Len(o)>>
           d == xd \o o
           ix == Append(xi, e)
           y == [data |-> d, index |-> ix]
<1>1. /\ xd \in Seq(ShortPair) /\ xi \in Seq(Nat \X Nat)
      /\ start \in Nat /\ Len(o) \in Nat /\ n \in Nat
  BY LenProperties DEF InterFile
<1>a. \A k \in 1..n : /\ xi[k][1] <= xi[k][2] /\ xi[k][2] <= start
                       /\ KeySorted(SubSeq(xd, xi[k][1] + 1, xi[k][2]))
  BY DEF InterFile
<1> HIDE DEF xd, xi
<1>b. \A k \in 1..n : xi[k][1] \in Nat /\ xi[k][2] \in Nat
  <2>1. \A k \in 1..n : xi[k] \in Nat \X Nat
    BY <1>1, ElementOfSeq
  <2> QED  BY <2>1
<1>2. d \in Seq(ShortPair) /\ Len(d) = start + Len(o)
  BY <1>1, ConcatProperties
<1>3. e \in Nat \X Nat /\ e[1] = start /\ e[2] = start + Len(o)
  BY <1>1
<1> HIDE DEF e
<1>4. /\ ix \in Seq(Nat \X Nat) /\ Len(ix) = n + 1 /\ ix[n + 1] = e
      /\ \A k \in 1..n : ix[k] = xi[k]
  BY <1>1, <1>3, AppendProperties
<1>c. SubSeq(d, start + 1, start + Len(o)) = o
  BY <1>1, SubSeqOfConcat
<1>d. \A p, q \in Nat : q <= start => SubSeq(d, p + 1, q) = SubSeq(xd, p + 1, q)
  BY <1>1, SubSeqOfConcat
<1> HIDE DEF d, ix, n, start
<1>5. ASSUME NEW k \in 1..Len(ix)
      PROVE  /\ ix[k][1] <= ix[k][2] /\ ix[k][2] <= Len(d)
             /\ KeySorted(SubSeq(d, ix[k][1] + 1, ix[k][2]))
  <2>1. CASE k = n + 1
    <3>1. ix[k] = e
      BY <1>4, <2>1
    <3>2. SubSeq(d, e[1] + 1, e[2]) = o
      BY <1>3, <1>c
    <3>3. e[1] <= e[2] /\ e[2] <= Len(d)
      BY <1>1, <1>2, <1>3
    <3> QED  BY <3>1, <3>2, <3>3
  <2>2. CASE k # n + 1
    <3>0. k \in 1..n
      <4>1. k \in 1..n + 1
        BY <1>4
      <4> QED  BY <1>1, <2>2, <4>1
    <3>1. k \in 1..n /\ ix[k] = xi[k]
      BY <1>4, <3>0
    <3> DEFINE a == xi[k][1]
               b == xi[k][2]
    <3>2. /\ a \in Nat /\ b \in Nat /\ a <= b /\ b <= start
          /\ KeySorted(SubSeq(xd, a + 1, b))
      BY <1>a, <1>b, <3>1
    <3> HIDE DEF a, b
    <3>3. SubSeq(d, a + 1, b) = SubSeq(xd, a + 1, b)
      BY ONLY <1>d, <3>2
    <3>4. b <= Len(d)
      BY <1>1, <1>2, <3>2
    <3> QED  BY <3>1, <3>2, <3>3, <3>4 DEF a, b
  <2> QED  BY <2>1, <2>2
<1>6. y \in [data : Seq(ShortPair), index : Seq(Nat \X Nat)] /\ y.data = d /\ y.index = ix
  BY <1>2, <1>4
<1> HIDE DEF y
<1>7. y \in InterFile
  BY <1>5, <1>6 DEF InterFile
<1> QED  BY <1>7 DEF y, d, ix, e, xd, xi, n, start

\* A partition is written; the next one is merged, or the task is done.
LEMMA PartitionDoneKeeps ==
    ASSUME PipelineAssumption, PipelineInv, PartitionDone
    PROVE  PipelineInv'
<1> USE DEF PipelineInv
<1> DEFINE x == inter[now]
           r == Len(x.index)
           y == [data |-> x.data \o out,
                 index |-> Append(x.index, <<Len(x.data), Len(x.data) + Len(out)>>)]
<1>1. /\ at = "merge" /\ inter' = [inter EXCEPT ![now] = y] /\ out' = <<>>
      /\ heap' = IF r + 1 \in Reducer THEN SpillScanners(r + 1) ELSE <<>>
      /\ UNCHANGED <<file, isText, chunks, mapVars, sortVars, result>>
  BY DEF PartitionDone
<1>2. IF r + 1 \in Reducer THEN UNCHANGED <<at, now>>
      ELSE IF now < Len(chunks) THEN at' = "scan" /\ now' = now + 1
      ELSE at' = "fetch" /\ now' = 0
  BY DEF PartitionDone
<1>3. /\ now \in 1..Len(chunks) /\ Len(inter) = now /\ Len(chunks) \in Nat
      /\ r < NumReducers /\ inter \in Seq(InterFile) /\ x \in InterFile
  <2>1. now \in 1..Len(chunks) /\ Len(inter) = now /\ r < NumReducers
    BY <1>1 DEF Progress
  <2>2. Len(chunks) \in Nat /\ inter \in Seq(InterFile)
    BY LenProperties DEF FileInv, FilesInv
  <2>3. now \in 1..Len(inter)
    BY <2>1, <2>2
  <2> QED  BY <2>1, <2>2, <2>3, ElementOfSeq
<1>4. y \in InterFile
  BY <1>3, InterFileGrows DEF MergeInv
<1>5. Len(y.index) = r + 1 /\ r \in Nat
  <2>1. x.index \in Seq(Nat \X Nat) /\ x.data \in Seq(ShortPair)
    BY <1>3 DEF InterFile
  <2>2. <<Len(x.data), Len(x.data) + Len(out)>> \in Nat \X Nat
    BY <2>1, LenProperties DEF MergeInv
  <2> HIDE DEF x
  <2> QED  BY <2>1, <2>2, AppendProperties, LenProperties
<1> HIDE DEF y, r, x
<1>6. /\ inter' \in Seq(InterFile) /\ Len(inter') = now
      /\ \A t \in 1..now : inter'[t] = IF t = now THEN y ELSE inter[t]
  <2>1. now \in 1..Len(inter)
    BY <1>3
  <2> QED  BY <1>1, <1>3, <1>4, <2>1, ExceptSeq
<1>7. MergeInv'
  <2>1. r + 1 \in Reducer => SortedRuns(SpillScanners(r + 1))
    BY SpillScannersSorted
  <2>2. SortedRuns(heap)'
    BY <1>1, <2>1, NoRuns DEF SortedRuns
  <2> QED  BY <1>1, <2>2, MergeBegins
<1>8. FileInv'
  <2>1. at # "cut" /\ at' # "cut"
    BY <1>1, <1>2
  <2> QED  BY <1>1, <2>1 DEF FileInv
<1>9. FilesInv'
  BY <1>1, <1>6 DEF FilesInv, SortedRuns, mapVars, sortVars
<1>10. Progress'
  <2>1. /\ \A t \in 1..now : t # now => Len(inter[t].index) = NumReducers
        /\ fetched \subseteq 1..Len(chunks) /\ DOMAIN result = Reducer
    BY <1>1, <1>3 DEF Progress
  <2>2. \A t \in 1..now : t # now => Len(inter'[t].index) = NumReducers
    BY <1>6, <2>1
  <2>3. Len(inter'[now].index) = r + 1
    BY <1>3, <1>5, <1>6
  <2>4. /\ chunks' = chunks /\ Len(inter') = now
        /\ fetched' \subseteq 1..Len(chunks') /\ DOMAIN result' = Reducer
    BY <1>1, <1>6, <2>1 DEF sortVars
  <2>5. CASE r + 1 \in Reducer
    <3>1. at' = "merge" /\ now' = now /\ r + 1 < NumReducers
      BY <1>1, <1>2, <1>5, <2>5 DEF Reducer, PipelineAssumption
    <3> QED  BY <1>3, <2>2, <2>3, <2>4, <3>1 DEF Progress
  <2>6. CASE ~(r + 1 \in Reducer)
    <3>1. r + 1 = NumReducers /\ 0 \in Reducer
      BY <1>3, <1>5, <2>6 DEF Reducer, PipelineAssumption
    <3>2. \A t \in 1..now : Len(inter'[t].index) = NumReducers
      BY <2>2, <2>3, <3>1
    <3>3. CASE now < Len(chunks)
      <4>1. at' = "scan" /\ now' = now + 1 /\ now + 1 \in 1..Len(chunks) /\ (now + 1) - 1 = now
        BY <1>2, <1>3, <2>6, <3>3
      <4> QED  BY <2>4, <3>2, <4>1 DEF Progress
    <3>4. CASE ~(now < Len(chunks))
      <4>1. at' = "fetch" /\ now' = 0 /\ now = Len(chunks)
        BY <1>2, <1>3, <2>6, <3>4
      <4> QED  BY <2>4, <3>1, <3>2, <4>1 DEF Progress
    <3> QED  BY <3>3, <3>4
  <2> QED  BY <2>5, <2>6
<1> QED  BY <1>7, <1>8, <1>9, <1>10
-----------------------------------------------------------------------------
(* The reduce tasks.                                                       *)

\* What a reducer fetches of a map task is a sorted partition.
LEMMA PartitionOfSorted ==
    ASSUME NEW x \in InterFile, NEW k \in 1..Len(x.index)
    PROVE  LET p == SubSeq(x.data, x.index[k][1] + 1, x.index[k][2])
           IN  p \in Seq(ShortPair) /\ KeySorted(p)
<1> DEFINE d == x.data
           a == x.index[k][1]
           b == x.index[k][2]
<1>1. d \in Seq(ShortPair) /\ x.index \in Seq(Nat \X Nat)
  BY DEF InterFile
<1>2. x.index[k] \in Nat \X Nat
  BY <1>1, ElementOfSeq
<1>3. a \in Nat /\ b \in Nat /\ b <= Len(d) /\ KeySorted(SubSeq(d, a + 1, b))
  BY <1>2 DEF InterFile
<1> HIDE DEF d, a, b
<1>4. Len(d) \in Nat /\ \A i \in a + 1..b : i \in 1..Len(d)
  BY <1>1, <1>3, LenProperties
<1>5. \A i \in a + 1..b : d[i] \in ShortPair
  BY <1>1, <1>4, ElementOfSeq
<1>6. SubSeq(d, a + 1, b) \in Seq(ShortPair)
  <2>1. a + 1 \in Int /\ b \in Int
    BY <1>3
  <2> QED  BY ONLY <1>5, <2>1, SubSeqProperties
<1> QED  BY <1>3, <1>6 DEF d, a, b

\* One more sorted run.
LEMMA RunsGrow ==
    ASSUME NEW runs, SortedRuns(runs), NEW s \in Seq(ShortPair), KeySorted(s)
    PROVE  SortedRuns(Append(runs, s))
<1> DEFINE u == Append(runs, s)
<1>1. runs \in Seq(Seq(ShortPair)) /\ Len(runs) \in Nat
  BY LenProperties DEF SortedRuns
<1>2. /\ u \in Seq(Seq(ShortPair)) /\ Len(u) = Len(runs) + 1 /\ u[Len(runs) + 1] = s
      /\ \A i \in 1..Len(runs) : u[i] = runs[i]
  BY <1>1, AppendProperties
<1> HIDE DEF u
<1>3. \A i \in 1..Len(u) : i = Len(runs) + 1 \/ i \in 1..Len(runs)
  BY <1>1, <1>2
<1>4. \A i \in 1..Len(u) : KeySorted(u[i])
  BY <1>2, <1>3 DEF SortedRuns
<1> QED  BY <1>2, <1>4 DEF SortedRuns, u

\* Some of the sorted runs.
LEMMA RunsPart ==
    ASSUME NEW runs, SortedRuns(runs), NEW a \in Nat, NEW b \in Nat, b <= Len(runs)
    PROVE  SortedRuns(SubSeq(runs, a + 1, b))
<1> DEFINE u == SubSeq(runs, a + 1, b)
<1>1. /\ runs \in Seq(Seq(ShortPair)) /\ Len(runs) \in Nat
      /\ \A i \in 1..Len(runs) : runs[i] \in Seq(ShortPair) /\ KeySorted(runs[i])
  BY LenProperties, ElementOfSeq DEF SortedRuns
<1>2. \A i \in a + 1..b : i \in 1..Len(runs)
  BY <1>1
<1>3. /\ u \in Seq(Seq(ShortPair))
      /\ Len(u) = IF a + 1 <= b THEN b - (a + 1) + 1 ELSE 0
      /\ \A i \in 1..b - (a + 1) + 1 : u[i] = runs[(a + 1) + i - 1]
  <2>1. \A i \in a + 1..b : runs[i] \in Seq(ShortPair)
    BY <1>1, <1>2
  <2>2. a + 1 \in Int /\ b \in Int
    OBVIOUS
  <2> QED  BY ONLY <2>1, <2>2, SubSeqProperties
<1> HIDE DEF u
<1>4. ASSUME NEW i \in 1..Len(u)
      PROVE  KeySorted(u[i])
  <2>1. i \in 1..b - (a + 1) + 1 /\ (a + 1) + i - 1 \in 1..Len(runs)
    BY <1>1, <1>3
  <2> QED  BY <1>1, <1>3, <2>1
<1> QED  BY <1>3, <1>4 DEF SortedRuns, u

LEMMA FetchKeeps ==
    ASSUME PipelineAssumption, PipelineInv, Fetch
    PROVE  PipelineInv'
<1> USE DEF PipelineInv
<1>1. PICK t \in (1..Len(chunks)) \ fetched :
         /\ fetched' = fetched \cup {t}
         /\ \/ inputs' = Append(inputs, PartitionOf(t, now))
            \/ PartitionOf(t, now) = <<>> /\ inputs' = inputs
  BY DEF Fetch
<1>2. /\ at = "fetch"
      /\ UNCHANGED <<file, isText, chunks, at, now, mapVars, inter, mergeVars, temps, result>>
  BY DEF Fetch
<1> DEFINE p == PartitionOf(t, now)
<1>3. p \in Seq(ShortPair) /\ KeySorted(p)
  <2> DEFINE x == inter[t]
             k == now + 1
  <2>1. now \in Reducer /\ t \in 1..Len(inter) /\ Len(x.index) = NumReducers
    BY <1>2 DEF Progress
  <2>2. x \in InterFile
    BY <2>1, ElementOfSeq DEF FilesInv
  <2>3. k \in 1..Len(x.index)
    BY <2>1 DEF Reducer, PipelineAssumption
  <2>4. p = SubSeq(x.data, x.index[k][1] + 1, x.index[k][2])
    BY DEF PartitionOf
  <2> HIDE DEF x, k, p
  <2> QED  BY <2>2, <2>3, <2>4, PartitionOfSorted
<1> HIDE DEF p
<1>4. SortedRuns(inputs')
  <2>1. SortedRuns(inputs)
    BY DEF FilesInv
  <2>2. CASE inputs' = Append(inputs, p)
    BY <1>3, <2>1, <2>2, RunsGrow
  <2>3. CASE inputs' = inputs
    BY <2>1, <2>3
  <2> QED  BY <1>1, <2>2, <2>3 DEF p
<1>5. FilesInv'
  BY <1>2, <1>4 DEF FilesInv, SortedRuns, mapVars
<1>6. FileInv' /\ MergeInv'
  BY <1>2 DEF FileInv, MergeInv, SortedRuns, mergeVars
<1>7. Progress'
  BY <1>1, <1>2 DEF Progress
<1> QED  BY <1>5, <1>6, <1>7

LEMMA FetchDoneKeeps ==
    ASSUME PipelineAssumption, PipelineInv, FetchDone
    PROVE  PipelineInv'
<1> USE DEF PipelineInv
<1>1. /\ at = "fetch" /\ at' = "sort"
      /\ UNCHANGED <<file, isText, chunks, now, mapVars, inter, mergeVars, sortVars, result>>
  BY DEF FetchDone
<1>2. FileInv' /\ FilesInv' /\ MergeInv'
  BY <1>1 DEF FileInv, FilesInv, MergeInv, SortedRuns, mapVars, mergeVars, sortVars
<1>3. Progress'
  BY <1>1 DEF Progress, sortVars
<1> QED  BY <1>2, <1>3

\* The scanners of a batch give what its files have.
LEMMA RunsReadable ==
    ASSUME NEW runs, SortedRuns(runs)
    PROVE  MapSeq(runs, Readable) = runs
<1> DEFINE n == Len(runs)
           u == [i \in 1..n |-> Readable(runs[i])]
<1>1. runs \in Seq(Seq(ShortPair)) /\ n \in Nat /\ DOMAIN runs = 1..n
  BY LenProperties DEF SortedRuns
<1>2. \A i \in 1..n : runs[i] \in Seq(ShortPair)
  BY <1>1, ElementOfSeq
<1>3. \A i \in 1..n : Readable(runs[i]) = runs[i]
  BY <1>2, ReadableShort
<1>4. MapSeq(runs, Readable) = u
  BY <1>1 DEF MapSeq
<1>5. runs = [i \in 1..n |-> runs[i]]
  BY <1>1
<1> QED  BY <1>3, <1>4, <1>5

LEMMA StartBatchKeeps ==
    ASSUME PipelineAssumption, PipelineInv, StartBatch
    PROVE  PipelineInv'
<1> USE DEF PipelineInv
<1> DEFINE n == IF Len(inputs) < BatchSize THEN Len(inputs) ELSE BatchSize
<1>1. /\ at = "sort" /\ at' \in {"last", "batch"} /\ out' = <<>>
      /\ heap' = MapSeq(SubSeq(inputs, 1, n), Readable)
      /\ inputs' = SubSeq(inputs, n + 1, Len(inputs))
      /\ UNCHANGED <<file, isText, chunks, now, mapVars, inter, temps, fetched, result>>
  BY DEF StartBatch
<1>2. SortedRuns(inputs) /\ Len(inputs) \in Nat /\ n \in Nat /\ n <= Len(inputs)
  BY LenProperties DEF FilesInv, SortedRuns, PipelineAssumption
<1> HIDE DEF n
<1>3. SortedRuns(SubSeq(inputs, 1, n)) /\ SortedRuns(SubSeq(inputs, n + 1, Len(inputs)))
  <2>1. 0 \in Nat /\ 0 + 1 = 1 /\ Len(inputs) <= Len(inputs)
    BY <1>2
  <2>2. SortedRuns(SubSeq(inputs, 0 + 1, n))
    BY ONLY <1>2, <2>1, RunsPart
  <2>3. SortedRuns(SubSeq(inputs, n + 1, Len(inputs)))
    BY ONLY <1>2, <2>1, RunsPart
  <2> QED  BY <2>1, <2>2, <2>3
<1>4. SortedRuns(heap)' /\ SortedRuns(inputs)'
  <2>1. heap' = SubSeq(inputs, 1, n)
    BY <1>1, <1>3, RunsReadable
  <2> QED  BY <1>1, <1>3, <2>1 DEF SortedRuns
<1>5. MergeInv'
  BY <1>1, <1>4, MergeBegins
<1>6. FilesInv'
  BY <1>1, <1>4 DEF FilesInv, SortedRuns, mapVars
<1>7. FileInv'
  BY <1>1 DEF FileInv
<1>8. Progress'
  BY <1>1 DEF Progress
<1> QED  BY <1>5, <1>6, <1>7, <1>8

LEMMA BatchDoneKeeps ==
    ASSUME PipelineAssumption, PipelineInv, BatchDone
    PROVE  PipelineInv'
<1> USE DEF PipelineInv
<1>1. /\ at = "batch" /\ at' = "sort" /\ heap' = <<>> /\ out' = <<>>
      /\ temps' = Append(temps, out)
      /\ UNCHANGED <<file, isText, chunks, now, mapVars, inter, inputs, fetched, result>>
  BY DEF BatchDone
<1>2. SortedRuns(Append(temps, out))
  <2>1. SortedRuns(temps) /\ out \in Seq(ShortPair) /\ KeySorted(out)
    BY DEF FilesInv, MergeInv
  <2> QED  BY <2>1, RunsGrow
<1>3. SortedRuns(heap)' /\ SortedRuns(temps)'
  BY <1>1, <1>2, NoRuns DEF SortedRuns
<1>4. MergeInv'
  BY <1>1, <1>3, MergeBegins
<1>5. FilesInv'
  BY <1>1, <1>3 DEF FilesInv, SortedRuns, mapVars
<1>6. FileInv'
  BY <1>1 DEF FileInv
<1>7. Progress'
  BY <1>1 DEF Progress
<1> QED  BY <1>4, <1>5, <1>6, <1>7

LEMMA NextLevelKeeps ==
    ASSUME PipelineAssumption, PipelineInv, NextLevel
    PROVE  PipelineInv'
<1> USE DEF PipelineInv
<1>1. /\ inputs' = temps /\ temps' = <<>>
      /\ UNCHANGED <<file, isText, chunks, at, now, mapVars, inter, mergeVars, fetched, result>>
  BY DEF NextLevel
<1>2. SortedRuns(temps')
  BY <1>1, NoRuns
<1>3. FilesInv'
  BY <1>1, <1>2 DEF FilesInv, SortedRuns, mapVars
<1>4. FileInv' /\ MergeInv' /\ Progress'
  BY <1>1 DEF FileInv, MergeInv, SortedRuns, Progress, mergeVars
<1> QED  BY <1>3, <1>4

LEMMA ReduceKeeps ==
    ASSUME PipelineAssumption, PipelineInv, Reduce
    PROVE  PipelineInv'
<1> USE DEF PipelineInv
<1>1. /\ at = "last" /\ heap' = <<>> /\ out' = <<>> /\ fetched' = {}
      /\ \/ now + 1 \in Reducer /\ at' = "fetch" /\ now' = now + 1
         \/ at' = "done" /\ now' = now
      /\ UNCHANGED <<file, isText, chunks, mapVars, inter, inputs, temps>>
  BY DEF Reduce
<1>2. DOMAIN result' = DOMAIN result
  BY DEF Reduce
<1>3. MergeInv'
  <2>1. SortedRuns(heap)'
    BY <1>1, NoRuns DEF SortedRuns
  <2> QED  BY <1>1, <2>1, MergeBegins
<1>4. FilesInv'
  BY <1>1 DEF FilesInv, SortedRuns, mapVars
<1>5. FileInv'
  BY <1>1 DEF FileInv
<1>6. Progress'
  BY <1>1, <1>2 DEF Progress
<1> QED  BY <1>3, <1>4, <1>5, <1>6
-----------------------------------------------------------------------------
LEMMA InitHolds ==
    ASSUME PipelineAssumption, Init
    PROVE  PipelineInv
<1>1. /\ file \in Files /\ isText \in BOOLEAN /\ chunks = <<>> /\ at = "cut" /\ now = 0
      /\ pairs = <<>> /\ spills = <<>> /\ inter = <<>> /\ heap = <<>> /\ out = <<>>
      /\ inputs = <<>> /\ temps = <<>> /\ fetched = {} /\ DOMAIN result = Reducer
  BY DEF Init
<1>2. FileInv
  <2>1. <<>> \in Seq(Seq(Byte)) /\ file \in Seq(Byte) /\ MaxChunks \in Nat
    BY <1>1 DEF PipelineAssumption
  <2>2. FlattenSeq(<<>>) = <<>>
    <3>1. PICK g : Joined(g, <<>>)
      BY <2>1, FlattenJoins
    <3> QED  BY <3>1 DEF Joined
  <2>3. IsPrefix(<<>>, file)
    <3>1. Len(file) \in Nat /\ SubSeq(<<>>, 1, 0) = <<>> /\ SubSeq(file, 1, 0) = <<>>
      BY <2>1, LenProperties, SubSeqEmpty
    <3> QED  BY <3>1 DEF IsPrefix
  <2> QED  BY <1>1, <2>1, <2>2, <2>3 DEF FileInv
<1>3. FilesInv /\ MergeInv
  <2>1. KeySorted(<<>>)
    BY DEF KeySorted
  <2> QED  BY <1>1, <2>1, NoRuns DEF FilesInv, MergeInv
<1>4. Progress
  BY <1>1 DEF Progress
<1> QED  BY <1>2, <1>3, <1>4 DEF PipelineInv

LEMMA NextKeeps ==
    ASSUME PipelineAssumption, PipelineInv, [Next]_vars
    PROVE  PipelineInv'
<1>1. CASE UNCHANGED vars
  <2>1. FileInv' /\ FilesInv'
    BY <1>1 DEF PipelineInv, FileInv, FilesInv, SortedRuns, vars, mapVars, sortVars
  <2>2. MergeInv'
    BY <1>1 DEF PipelineInv, MergeInv, SortedRuns, vars, mergeVars
  <2>3. Progress'
    BY <1>1 DEF PipelineInv, Progress, vars, sortVars
  <2> QED  BY <2>1, <2>2, <2>3 DEF PipelineInv
<1> QED
  BY <1>1, CutKeeps, CutDoneKeeps, ScanKeeps, SpillKeeps, StartMergeKeeps, PopKeeps,
     PartitionDoneKeeps, FetchKeeps, FetchDoneKeeps, StartBatchKeeps, BatchDoneKeeps,
     NextLevelKeeps, ReduceKeeps DEF Next
-----------------------------------------------------------------------------
(* Lines.                                                                  *)

LinesOf(cs) == MapSeq(cs, Lines)

\* The chunks so far end where a line of the file ends, and have its lines.
CutAtLines(cs, f) ==
    /\ FlattenSeq(LinesOf(cs)) = Lines(FlattenSeq(cs))
    /\ FlattenSeq(cs) \in {<<>>, f} \/ Last(FlattenSeq(cs)) = Newline

LinesInv == ShortLines => CutAtLines(chunks, file)

LEMMA LinesOfAppend ==
    ASSUME NEW S, NEW cs \in Seq(Seq(S)), NEW c \in Seq(S)
    PROVE  /\ LinesOf(cs) \in Seq(Seq(Seq(S)))
           /\ LinesOf(Append(cs, c)) = Append(LinesOf(cs), Lines(c))
<1> DEFINE n == Len(cs)
           ds == Append(cs, c)
           u == LinesOf(cs)
           v == LinesOf(ds)
           w == Append(u, Lines(c))
<1>1. /\ n \in Nat /\ DOMAIN cs = 1..n /\ \A i \in 1..n : cs[i] \in Seq(S)
  BY LenProperties, ElementOfSeq
<1>2. /\ ds \in Seq(Seq(S)) /\ Len(ds) = n + 1 /\ ds[n + 1] = c
      /\ \A i \in 1..n : ds[i] = cs[i]
  BY AppendProperties
<1> HIDE DEF ds
<1>3. DOMAIN ds = 1..n + 1 /\ \A i \in 1..n + 1 : ds[i] \in Seq(S)
  BY <1>1, <1>2, LenProperties, ElementOfSeq
<1> HIDE DEF n
<1>4. u = [i \in 1..n |-> Lines(cs[i])] /\ v = [i \in 1..n + 1 |-> Lines(ds[i])]
  BY <1>1, <1>3 DEF LinesOf, MapSeq
<1>5. \A i \in 1..n : Lines(cs[i]) \in Seq(Seq(S))
  BY <1>1, LinesTyped
<1>6. \A i \in 1..n + 1 : Lines(ds[i]) \in Seq(Seq(S))
  BY <1>3, LinesTyped
<1> HIDE DEF u, v
<1>7. u \in Seq(Seq(Seq(S))) /\ Len(u) = n /\ \A i \in 1..n : u[i] = Lines(cs[i])
  BY <1>1, <1>4, <1>5
<1>8. v \in Seq(Seq(Seq(S))) /\ Len(v) = n + 1 /\ \A i \in 1..n + 1 : v[i] = Lines(ds[i])
  BY <1>1, <1>4, <1>6
<1>9. /\ w \in Seq(Seq(Seq(S))) /\ Len(w) = n + 1 /\ w[n + 1] = Lines(c)
      /\ \A i \in 1..n : w[i] = u[i]
  <2>1. Lines(c) \in Seq(Seq(S))
    BY LinesTyped
  <2> QED  BY <1>7, <2>1, AppendProperties
<1> HIDE DEF w
<1>10. ASSUME NEW i \in 1..n + 1
       PROVE  v[i] = w[i]
  <2>1. CASE i = n + 1
    BY <1>2, <1>8, <1>9, <2>1
  <2>2. CASE i # n + 1
    <3>1. i \in 1..n
      BY <1>1, <2>2
    <3> QED  BY <1>2, <1>7, <1>8, <1>9, <3>1
  <2> QED  BY <2>1, <2>2
<1>11. v = w
  BY <1>8, <1>9, <1>10, SeqEqual
<1> QED  BY <1>7, <1>11 DEF u, v, w, ds

\* A text file with lines that fit is cut at its end or after a newline.
LEMMA TextSizeEnds ==
    ASSUME PipelineAssumption, file \in Seq(Byte), ShortLines, NEW o \in Nat,
           o + MaxChunkSize < Len(file)
    PROVE  o + TextSize(o) = Len(file) \/ file[o + TextSize(o)] = Newline
<1> DEFINE n == Len(file)
           from == o + MaxChunkSize
           N == {i \in from..n : file[i] = Newline}
           nl == SelectInSubSeq(file, from, n, LAMBDA b : b = Newline)
           last == IF N # {} THEN nl ELSE n
           x == MaxChunkSize - 1 + (last - from + 1)
<1>1. /\ n \in Nat /\ MaxChunkSize \in 1..Wrap - 1 /\ Wrap \in Nat
      /\ from \in 1..n /\ N \subseteq Nat /\ N \subseteq from..n
      /\ \A i \in N : file[i] = Newline
      /\ \A i \in from..n : i \in N \/ file[i] # Newline
  BY LenProperties DEF PipelineAssumption
<1>2. nl = IF N # {} THEN Min(N) ELSE 0
  BY DEF SelectInSubSeq
<1>3. TextSize(o) = (MaxChunkSize - 1 + IF nl = 0 THEN n - from + 1 ELSE nl - from + 1) % Wrap
  BY DEF TextSize
<1> HIDE DEF N, nl, n
\* Everything from there to the last byte taken, but for that one, is in one line.
<1>4. /\ last \in from..n
      /\ last # n => file[last] = Newline
      /\ \A i \in from..last - 1 : file[i] # Newline
  <2>1. CASE N = {}
    <3>1. last = n
      BY <2>1
    <3>2. \A i \in from..n - 1 : i \in from..n
      BY <1>1
    <3> QED  BY <1>1, <2>1, <3>1, <3>2
  <2>2. CASE N # {}
    <3>1. nl \in N /\ \A y \in N : nl <= y
      BY <1>1, <1>2, <2>2, MinIsLeast
    <3>2. last = nl
      BY <2>2
    <3>3. nl \in from..n /\ file[nl] = Newline
      BY <1>1, <3>1
    <3>4. ASSUME NEW i \in from..nl - 1
          PROVE  file[i] # Newline
      <4>1. i \in from..n /\ ~(nl <= i)
        BY <1>1, <3>3
      <4> QED  BY <1>1, <3>1, <4>1
    <3> HIDE DEF last
    <3> QED  BY <3>2, <3>3, <3>4
  <2> QED  BY <2>1, <2>2
<1>5. TextSize(o) = x % Wrap
  <2>1. N # {} => nl # 0
    <3>1. N # {} => nl \in N
      BY <1>1, <1>2, MinIsLeast
    <3>2. 0 \notin N
      BY <1>1
    <3> QED  BY <3>1, <3>2
  <2>2. TextSize(o) = (MaxChunkSize - 1 + (last - from + 1)) % Wrap
    BY <1>2, <1>3, <2>1
  <2> QED  BY <2>2
<1> HIDE DEF last
<1>6. x < Wrap
  <2>1. CASE last = from
    BY <1>1, <2>1
  <2>2. CASE last # from
    <3>1. last - 1 \in from..n /\ from \in 1..Len(file) /\ last - 1 \in from..Len(file)
      BY <1>1, <1>4, <2>2 DEF n
    <3>2. PICK i \in 1..Len(Lines(file)) :
             Len(Lines(file)[i]) >= (last - 1) - from + 1
      <4> DEFINE a == from
                 b == last - 1
      <4>1. a \in 1..Len(file) /\ b \in a..Len(file) /\ \A k \in a..b : file[k] # Newline
        BY <1>4, <3>1
      <4> HIDE DEF a, b
      <4>2. \E i \in 1..Len(Lines(file)) : Len(Lines(file)[i]) >= b - a + 1
        BY <4>1, RunInLine
      <4> QED  BY <4>2 DEF a, b
    <3>3. Lines(file) \in Seq(Seq(Byte))
      BY LinesTyped
    <3>4. Len(Lines(file)[i]) \in Nat /\ i \in DOMAIN Lines(file)
      BY <3>3, LenProperties, ElementOfSeq
    <3>5. Len(Lines(file)[i]) + MaxChunkSize < Wrap
      BY <3>4 DEF ShortLines
    <3> HIDE DEF from
    <3>6. last \in Int /\ from \in Int
      BY <1>1, <1>4
    <3> QED  BY <1>1, <3>2, <3>4, <3>5, <3>6
  <2> QED  BY <2>1, <2>2
<1>7. x \in Nat /\ o + x = last
  BY <1>1, <1>4
<1>8. x % Wrap = x
  <2> HIDE DEF x
  <2> QED  BY <1>1, <1>6, <1>7
<1> QED  BY <1>4, <1>5, <1>7, <1>8 DEF n

LEMMA LinesCut ==
    ASSUME PipelineAssumption, PipelineInv, LinesInv, Cut
    PROVE  LinesInv'
<1> DEFINE joined == FlattenSeq(chunks)
           o == ChunkSum
           size == CutSize
           c == SubSeq(file, o + 1, o + size)
<1>1. /\ chunks \in Seq(Seq(Byte)) /\ file \in Seq(Byte)
      /\ joined \in Seq(Byte) /\ o = Len(joined) /\ o \in Nat /\ Len(file) \in Nat
      /\ o < Len(file)
  BY FlattenTyped, LenProperties DEF PipelineInv, FileInv, Cut, ChunkSum
<1>2. chunks' = Append(chunks, c) /\ UNCHANGED <<file, isText>>
  BY DEF Cut, CutSize
<1>3. ShortLines' => ShortLines
  BY <1>2 DEF ShortLines
<1> SUFFICES ASSUME ShortLines PROVE CutAtLines(chunks', file')
  BY <1>3 DEF LinesInv
<1>4. /\ FlattenSeq(LinesOf(chunks)) = Lines(joined)
      /\ joined = <<>> \/ Last(joined) = Newline
  <2>1. CutAtLines(chunks, file) /\ joined # file
    BY <1>1 DEF LinesInv
  <2> QED  BY <2>1 DEF CutAtLines
<1>5. /\ size \in 0..Len(file) - o
      /\ o + size = Len(file) \/ file[o + size] = Newline
  <2>1. o + MaxChunkSize < Len(file) => /\ TextSize(o) \in 0..Len(file) - o
                                        /\ \/ o + TextSize(o) = Len(file)
                                           \/ file[o + TextSize(o)] = Newline
    BY <1>1, TextSizeFits, TextSizeEnds
  <2> HIDE DEF o
  <2>2. size = IF Len(file) - o <= MaxChunkSize THEN Len(file) - o ELSE TextSize(o)
    BY DEF CutSize, o, ShortLines
  <2>3. CASE Len(file) - o <= MaxChunkSize
    BY <1>1, <2>2, <2>3 DEF PipelineAssumption
  <2>4. CASE ~(Len(file) - o <= MaxChunkSize)
    BY <1>1, <2>1, <2>2, <2>4 DEF PipelineAssumption
  <2> QED  BY <2>3, <2>4
<1>6. PipelineInv'
  BY CutKeeps
<1> HIDE DEF o, size
<1>7. c \in Seq(Byte) /\ Len(c) = size
  <2>1. \A i \in o + 1..o + size : i \in 1..Len(file)
    BY <1>1, <1>5
  <2>2. \A i \in o + 1..o + size : file[i] \in Byte
    BY <1>1, <2>1, ElementOfSeq
  <2> DEFINE a == o + 1
             b == o + size
  <2>3. a \in Int /\ b \in Int /\ (IF a <= b THEN b - a + 1 ELSE 0) = size
    BY <1>1, <1>5
  <2>4. c = SubSeq(file, a, b) /\ \A i \in a..b : file[i] \in Byte
    BY <2>2
  <2> HIDE DEF a, b, c
  <2> QED  BY <2>3, <2>4, SubSeqProperties
<1> HIDE DEF c, joined
<1> DEFINE j == joined \o c
<1>8. FlattenSeq(chunks') = j
  BY <1>1, <1>2, <1>7, FlattenAppend DEF joined
<1>9. FlattenSeq(LinesOf(chunks')) = Lines(j)
  <2>1. /\ LinesOf(chunks) \in Seq(Seq(Seq(Byte)))
        /\ LinesOf(chunks') = Append(LinesOf(chunks), Lines(c))
    BY <1>1, <1>2, <1>7, LinesOfAppend
  <2>2. Lines(c) \in Seq(Seq(Byte))
    BY <1>7, LinesTyped
  <2>3. FlattenSeq(LinesOf(chunks')) = FlattenSeq(LinesOf(chunks)) \o Lines(c)
    <3> DEFINE u == LinesOf(chunks)
               d == Lines(c)
    <3>1. u \in Seq(Seq(Seq(Byte))) /\ d \in Seq(Seq(Byte)) /\ LinesOf(chunks') = Append(u, d)
      BY <2>1, <2>2
    <3> HIDE DEF u, d
    <3>2. FlattenSeq(Append(u, d)) = FlattenSeq(u) \o d
      BY <3>1, FlattenAppend
    <3> QED  BY <3>1, <3>2 DEF u, d
  <2>4. Lines(j) = Lines(joined) \o Lines(c)
    BY <1>1, <1>4, <1>7, LinesConcat
  <2> QED  BY <1>4, <2>3, <2>4
<1>10. j \in {<<>>, file} \/ Last(j) = Newline
  <2>1. j \in Seq(Byte) /\ Len(j) = o + size
    BY <1>1, <1>7, ConcatProperties
  <2>2. IsPrefix(j, file)
    <3>1. IsPrefix(FlattenSeq(chunks'), file')
      BY <1>6 DEF PipelineInv, FileInv
    <3> QED  BY <1>2, <1>8, <3>1
  <2> HIDE DEF j
  <2> DEFINE n == Len(j)
  <2>3. n \in Nat /\ n <= Len(file) /\ SubSeq(j, 1, n) = SubSeq(file, 1, n)
    BY <2>1, <2>2, LenProperties DEF IsPrefix
  <2>4. SubSeq(j, 1, n) = j
    BY <2>1, SubSeqFull
  <2>5. CASE o + size = Len(file)
    <3>1. SubSeq(file, 1, n) = file
      BY <1>1, <2>1, <2>5, SubSeqFull
    <3> QED  BY <2>3, <2>4, <3>1
  <2>6. CASE n = 0
    BY <2>1, <2>6, EmptySeq
  <2>7. CASE n # 0 /\ file[o + size] = Newline
    <3>1. \A i \in 1..n : file[i] \in Byte
      <4>1. \A i \in 1..n : i \in 1..Len(file)
        BY <1>1, <2>3
      <4> QED  BY <1>1, <4>1, ElementOfSeq
    <3>2. n \in 1..n
      BY <2>3, <2>7
    <3> HIDE DEF n
    <3>3. SubSeq(file, 1, n)[n] = file[n]
      <4>1. 1 \in Int /\ n \in Int /\ n - 1 + 1 = n /\ 1 + n - 1 = n
        BY <2>3
      <4> QED  BY ONLY <3>1, <3>2, <4>1, SubSeqProperties
    <3>4. j[n] = Newline
      BY <2>1, <2>3, <2>4, <2>7, <3>3 DEF n
    <3> QED  BY <3>4 DEF Last, n
  <2> QED  BY <1>5, <2>5, <2>6, <2>7
<1> QED  BY <1>2, <1>8, <1>9, <1>10 DEF CutAtLines

LEMMA LinesKeep ==
    ASSUME PipelineAssumption, PipelineInv, LinesInv, [Next]_vars
    PROVE  LinesInv'
<1>1. CASE UNCHANGED <<file, isText, chunks>>
  BY <1>1 DEF LinesInv, ShortLines
<1>2. ASSUME Next, ~Cut
      PROVE  UNCHANGED <<file, isText, chunks>>
  BY <1>2 DEF Next, CutDone, Scan, Spill, StartMerge, Pop, PartitionDone, Fetch, FetchDone,
              StartBatch, BatchDone, NextLevel, Reduce
<1>3. CASE UNCHANGED vars
  BY <1>1, <1>3 DEF vars
<1> QED  BY <1>1, <1>2, <1>3, LinesCut

LEMMA LinesInit ==
    ASSUME PipelineAssumption, Init
    PROVE  LinesInv
<1>1. chunks = <<>>
  BY DEF Init
<1>2. LinesOf(<<>>) = <<>>
  BY DEF LinesOf, MapSeq
<1>3. FlattenSeq(<<>>) = <<>>
  <2>1. <<>> \in Seq(Seq(Byte)) /\ Len(<<>>) = 0
    OBVIOUS
  <2>2. PICK g : Joined(g, <<>>)
    BY <2>1, FlattenJoins
  <2> QED  BY <2>1, <2>2 DEF Joined
<1>4. Lines(<<>>) = <<>>
  <2>1. <<>> \in Seq(Byte) /\ <<>> \o <<>> = <<>>
    BY ConcatEmptySeq
  <2>2. Lines(<<>>) = Lines(<<>>) \o Lines(<<>>) /\ Lines(<<>>) \in Seq(Seq(Byte))
    BY <2>1, LinesConcat, LinesTyped
  <2> QED  BY <2>2, ConcatEqualIffEmpty
<1> QED  BY <1>1, <1>2, <1>3, <1>4 DEF LinesInv, CutAtLines
-----------------------------------------------------------------------------
(* How often a record occurs.                                              *)

LEMMA OccTyped ==
    ASSUME NEW S, NEW s \in Seq(S), NEW kv
    PROVE  /\ Occurrences(s, kv) \in Nat
           /\ IsFiniteSet({i \in DOMAIN s : s[i] = kv})
<1> DEFINE A == {i \in DOMAIN s : s[i] = kv}
<1>1. DOMAIN s = 1..Len(s) /\ Len(s) \in Nat
  BY LenProperties
<1>2. IsFiniteSet(1..Len(s))
  BY <1>1, FS_Interval
<1>3. A \in SUBSET (1..Len(s))
  BY <1>1
<1> HIDE DEF A
<1>4. IsFiniteSet(A)
  BY <1>2, <1>3, FS_Subset
<1>5. Cardinality(A) \in Nat
  BY <1>4, FS_CardinalityType
<1> QED  BY <1>4, <1>5 DEF A, Occurrences

LEMMA OccNone ==
    ASSUME NEW kv
    PROVE  Occurrences(<<>>, kv) = 0
<1>1. {i \in DOMAIN <<>> : <<>>[i] = kv} = {}
  OBVIOUS
<1> QED  BY <1>1, FS_EmptySet DEF Occurrences

LEMMA OccPositive ==
    ASSUME NEW S, NEW s \in Seq(S), NEW i \in 1..Len(s)
    PROVE  Occurrences(s, s[i]) # 0
<1> DEFINE there == {j \in DOMAIN s : s[j] = s[i]}
<1>1. i \in there
  BY LenProperties
<1>2. IsFiniteSet(there)
  BY OccTyped
<1> HIDE DEF there
<1>3. Cardinality(there) # 0
  BY <1>1, <1>2, FS_EmptySet
<1> QED  BY <1>3 DEF Occurrences, there

LEMMA OccThere ==
    ASSUME NEW S, NEW s \in Seq(S), NEW x, Occurrences(s, x) # 0
    PROVE  \E i \in 1..Len(s) : s[i] = x
<1> DEFINE there == {j \in DOMAIN s : s[j] = x}
<1>1. there # {}
  <2>1. Cardinality(there) # 0
    BY DEF Occurrences
  <2> HIDE DEF there
  <2> QED  BY <2>1, FS_EmptySet
<1> QED  BY <1>1, LenProperties

LEMMA OccConcat ==
    ASSUME NEW S, NEW s \in Seq(S), NEW t \in Seq(S), NEW kv
    PROVE  Occurrences(s \o t, kv) = Occurrences(s, kv) + Occurrences(t, kv)
<1> DEFINE j == s \o t
           n == Len(s)
           m == Len(t)
           A == {i \in DOMAIN s : s[i] = kv}
           B == {i \in DOMAIN t : t[i] = kv}
           C == {i \in DOMAIN j : j[i] = kv}
           f == [i \in B |-> n + i]
           D == {n + i : i \in B}
<1>1. /\ n \in Nat /\ m \in Nat /\ DOMAIN s = 1..n /\ DOMAIN t = 1..m
      /\ DOMAIN j = 1..n + m
      /\ \A i \in 1..n + m : j[i] = IF i <= n THEN s[i] ELSE t[i - n]
  BY LenProperties, ConcatProperties
<1>2. IsFiniteSet(A) /\ IsFiniteSet(B)
  BY OccTyped
<1> HIDE DEF j, n, m
<1>3. C = A \cup D
  <2>1. ASSUME NEW i \in C
        PROVE  i \in A \cup D
    <3>1. CASE i <= n
      BY <1>1, <3>1
    <3>2. CASE ~(i <= n)
      <4>1. i - n \in 1..m /\ t[i - n] = kv /\ n + (i - n) = i
        BY <1>1, <3>2
      <4>2. i - n \in B
        BY <1>1, <4>1
      <4> QED  BY <4>1, <4>2
    <3> QED  BY <3>1, <3>2
  <2>2. ASSUME NEW i \in A
        PROVE  i \in C
    BY <1>1
  <2>3. ASSUME NEW i \in B
        PROVE  n + i \in C
    <3>1. i \in 1..m /\ t[i] = kv
      BY <1>1
    <3>2. n + i \in 1..n + m /\ ~(n + i <= n) /\ (n + i) - n = i
      BY <1>1, <3>1
    <3> QED  BY <1>1, <3>1, <3>2
  <2> QED  BY <2>1, <2>2, <2>3
<1>4. A \cap D = {}
  BY <1>1
<1>5. f \in Bijection(B, D)
  <2>1. \A a, b \in B : n + a = n + b => a = b
    BY <1>1
  <2>2. f \in [B -> D]
    OBVIOUS
  <2>3. \A a, b \in B : f[a] = f[b] => a = b
    BY <2>1
  <2>4. \A d \in D : \E b \in B : f[b] = d
    OBVIOUS
  <2> HIDE DEF f, B, D
  <2> QED  BY <2>2, <2>3, <2>4 DEF Bijection, Injection, Surjection, IsInjective
<1> HIDE DEF A, B, C, D, f
<1>6. ExistsBijection(B, D)
  BY <1>5 DEF ExistsBijection
<1>7. IsFiniteSet(D) /\ Cardinality(D) = Cardinality(B)
  BY <1>2, <1>6, FS_Bijection
<1>8. Cardinality(A \cup D) = Cardinality(A) + Cardinality(D) - Cardinality(A \cap D)
  BY <1>2, <1>7, FS_Union
<1>9. /\ Cardinality({}) = 0
      /\ Cardinality(A) \in Nat /\ Cardinality(B) \in Nat
  BY <1>2, FS_EmptySet, FS_CardinalityType
<1>10. Cardinality(C) = Cardinality(A) + Cardinality(B)
  <2>1. Cardinality(A \cap D) = 0
    BY <1>4, <1>9
  <2>2. Cardinality(C) = Cardinality(A) + Cardinality(D) - 0
    BY <1>3, <1>8, <2>1
  <2> QED  BY <1>7, <1>9, <2>2
<1> QED  BY <1>10 DEF Occurrences, A, B, C, j

LEMMA OccOne ==
    ASSUME NEW e, NEW kv
    PROVE  Occurrences(<<e>>, kv) = IF e = kv THEN 1 ELSE 0
<1>1. {i \in DOMAIN <<e>> : <<e>>[i] = kv} = IF e = kv THEN {1} ELSE {}
  OBVIOUS
<1> QED  BY <1>1, FS_EmptySet, FS_Singleton DEF Occurrences

LEMMA OccAppend ==
    ASSUME NEW S, NEW s \in Seq(S), NEW e \in S, NEW kv
    PROVE  Occurrences(Append(s, e), kv) = Occurrences(s, kv) + IF e = kv THEN 1 ELSE 0
<1>1. Append(s, e) = s \o <<e>> /\ <<e>> \in Seq(S)
  BY AppendIsConcat
<1>2. Occurrences(s \o <<e>>, kv) = Occurrences(s, kv) + Occurrences(<<e>>, kv)
  BY <1>1, OccConcat
<1> QED  BY <1>1, <1>2, OccOne

LEMMA OccTail ==
    ASSUME NEW S, NEW s \in Seq(S), s # <<>>, NEW kv
    PROVE  Occurrences(s, kv) = Occurrences(Tail(s), kv) + IF Head(s) = kv THEN 1 ELSE 0
<1> DEFINE h == Head(s)
           t == Tail(s)
           u == <<h>>
<1>1. h \in S /\ t \in Seq(S) /\ u \in Seq(S)
  BY HeadTailProperties
<1>2. s = u \o t
  <2>1. Len(s) \in Nat \ {0}
    BY EmptySeq
  <2>2. 1 \in 1..Len(s) /\ Len(s) \in 1..Len(s)
    BY <2>1
  <2>3. SubSeq(s, 1, Len(s)) = <<s[1]>> \o SubSeq(s, 1 + 1, Len(s))
    BY <2>2, SubSeqRecursiveFirst
  <2>4. h = s[1] /\ t = SubSeq(s, 2, Len(s)) /\ SubSeq(s, 1, Len(s)) = s
    BY <2>1, TailIsSubSeq, SubSeqFull
  <2> QED  BY <2>3, <2>4
<1> HIDE DEF t, u
<1>3. Occurrences(s, kv) = Occurrences(u, kv) + Occurrences(t, kv)
  BY <1>1, <1>2, OccConcat
<1>4. Occurrences(u, kv) = IF h = kv THEN 1 ELSE 0
  BY OccOne DEF u
<1>5. Occurrences(t, kv) \in Nat
  BY <1>1, OccTyped
<1> QED  BY <1>3, <1>4, <1>5 DEF t

\* Sorting keeps the records of the partition, and leaves the others out.
Share(s, r, kv) == IF Partition(Key(kv)) = r THEN Occurrences(s, kv) ELSE 0

LEMMA OccPartition ==
    ASSUME NEW S, NEW s \in Seq(S), NEW r, NEW t \in Partitions(s, r), NEW kv
    PROVE  Occurrences(t, kv) = Share(s, r, kv)
<1> DEFINE mine == {i \in DOMAIN s : Partition(Key(s[i])) = r}
           places == 1..Cardinality(mine)
           T == {i \in places : t[i] = kv}
           U == {i \in mine : s[i] = kv}
<1>1. PICK p \in Bijection(places, mine) : t = [i \in places |-> s[p[i]]]
  BY DEF Partitions
<1>2. /\ p \in [places -> mine]
      /\ \A a, b \in places : p[a] = p[b] => a = b
      /\ \A d \in mine : \E b \in places : p[b] = d
  BY <1>1 DEF Bijection, Injection, Surjection, IsInjective
<1>3. DOMAIN t = places /\ \A i \in places : t[i] = s[p[i]]
  BY <1>1
<1>4. IsFiniteSet(T)
  <2>1. IsFiniteSet(mine)
    <3>1. DOMAIN s = 1..Len(s) /\ Len(s) \in Nat
      BY LenProperties
    <3>2. IsFiniteSet(1..Len(s)) /\ mine \in SUBSET (1..Len(s))
      BY <3>1, FS_Interval
    <3> HIDE DEF mine
    <3> QED  BY <3>2, FS_Subset
  <2>2. Cardinality(mine) \in Nat
    BY <2>1, FS_CardinalityType
  <2>3. IsFiniteSet(places) /\ T \in SUBSET places
    BY <2>2, FS_Interval
  <2> HIDE DEF places, T
  <2> QED  BY <2>3, FS_Subset
<1> HIDE DEF mine, places
<1>5. ExistsBijection(T, U)
  <2> DEFINE f == [i \in T |-> p[i]]
  <2>1. f \in [T -> U]
    BY <1>2, <1>3
  <2>2. \A a, b \in T : f[a] = f[b] => a = b
    BY <1>2
  <2>3. ASSUME NEW d \in U
        PROVE  \E b \in T : f[b] = d
    <3>1. PICK b \in places : p[b] = d
      BY <1>2
    <3>2. b \in T
      BY <1>3, <3>1
    <3> QED  BY <3>1, <3>2
  <2> HIDE DEF f, T, U
  <2>4. f \in Bijection(T, U)
    BY <2>1, <2>2, <2>3 DEF Bijection, Injection, Surjection, IsInjective
  <2> QED  BY <2>4 DEF ExistsBijection
<1>6. Cardinality(U) = Cardinality(T)
  <2> HIDE DEF T, U
  <2> QED  BY <1>4, <1>5, FS_Bijection
<1>7. Occurrences(t, kv) = Cardinality(T)
  BY <1>3 DEF Occurrences
<1>8. CASE Partition(Key(kv)) = r
  <2>1. U = {i \in DOMAIN s : s[i] = kv}
    BY <1>8 DEF mine
  <2> QED  BY <1>6, <1>7, <1>8, <2>1 DEF Occurrences, Share
<1>9. CASE Partition(Key(kv)) # r
  <2>1. U = {}
    BY <1>9 DEF mine
  <2> QED  BY <1>6, <1>7, <1>9, <2>1, FS_EmptySet DEF Share
<1> QED  BY <1>8, <1>9
-----------------------------------------------------------------------------
(* How often a record occurs in several runs.                              *)

Left(runs, kv) == Occurrences(FlattenSeq(runs), kv)

LEMMA LeftTyped ==
    ASSUME NEW S, NEW runs \in Seq(Seq(S)), NEW kv
    PROVE  Left(runs, kv) \in Nat
  BY FlattenTyped, OccTyped DEF Left

LEMMA LeftAppend ==
    ASSUME NEW S, NEW runs \in Seq(Seq(S)), NEW s \in Seq(S), NEW kv
    PROVE  Left(Append(runs, s), kv) = Left(runs, kv) + Occurrences(s, kv)
<1> DEFINE j == FlattenSeq(runs)
<1>1. j \in Seq(S) /\ FlattenSeq(Append(runs, s)) = j \o s
  BY FlattenTyped, FlattenAppend
<1> HIDE DEF j
<1>2. Occurrences(j \o s, kv) = Occurrences(j, kv) + Occurrences(s, kv)
  BY <1>1, OccConcat
<1> QED  BY <1>1, <1>2 DEF Left, j

\* Runs that have nothing left.
LEMMA FlattenEmpty ==
    ASSUME NEW S, NEW runs \in Seq(Seq(S)), \A i \in 1..Len(runs) : runs[i] = <<>>
    PROVE  FlattenSeq(runs) = <<>>
<1> DEFINE n == Len(runs)
<1>1. n \in Nat
  BY LenProperties
<1>2. PICK g : Joined(g, runs)
  BY FlattenJoins
<1> DEFINE R == {i \in 0..n : g[i] = <<>>}
<1>3. 0 \in R
  BY <1>1, <1>2 DEF Joined
<1>4. ASSUME NEW i \in 0..n - 1, i \in R
      PROVE  i + 1 \in R
  <2>1. i + 1 \in 1..n /\ (i + 1) - 1 = i
    BY <1>1
  <2>2. g[i + 1] = <<>> \o <<>>
    BY <1>2, <1>4, <2>1 DEF Joined
  <2>3. <<>> \o <<>> = <<>>
    BY ConcatEmptySeq
  <2> QED  BY <1>1, <2>1, <2>2, <2>3
<1>5. 0..n \subseteq R
  <2> HIDE DEF R, n
  <2> QED  BY <1>1, <1>3, <1>4, SetInduction
<1>6. n \in R
  <2>1. n \in 0..n
    BY <1>1
  <2> QED  BY <1>5, <2>1
<1> QED  BY <1>2, <1>6 DEF Joined

LEMMA FlattenConcat ==
    ASSUME NEW S, NEW a \in Seq(Seq(S)), NEW b \in Seq(Seq(S))
    PROVE  FlattenSeq(a \o b) = FlattenSeq(a) \o FlattenSeq(b)
<1> DEFINE j == a \o b
           n == Len(a)
           m == Len(b)
<1>1. /\ n \in Nat /\ m \in Nat /\ j \in Seq(Seq(S)) /\ Len(j) = n + m
      /\ \A i \in 1..n + m : j[i] = IF i <= n THEN a[i] ELSE b[i - n]
      /\ \A i \in 1..m : b[i] \in Seq(S)
  BY LenProperties, ConcatProperties, ElementOfSeq
<1> HIDE DEF j
<1>2. PICK g : g \in [0..n -> Seq(S)] /\ Joined(g, a)
  BY FlattenJoins
<1>3. PICK h : h \in [0..m -> Seq(S)] /\ Joined(h, b)
  BY FlattenJoins
<1>4. PICK f : Joined(f, j)
  BY <1>1, FlattenJoins
<1>5. g[0] = <<>> /\ FlattenSeq(a) = g[n] /\ \A i \in 1..n : g[i] = g[i - 1] \o a[i]
  BY <1>2 DEF Joined
<1>6. h[0] = <<>> /\ FlattenSeq(b) = h[m] /\ \A i \in 1..m : h[i] = h[i - 1] \o b[i]
  BY <1>3 DEF Joined
<1>7. /\ f[0] = <<>> /\ FlattenSeq(j) = f[n + m]
      /\ \A i \in 1..n + m : f[i] = f[i - 1] \o j[i]
  BY <1>1, <1>4 DEF Joined
<1> HIDE DEF n, m
<1>8. \A i \in 0..n : g[i] = f[i]
  <2>1. ASSUME NEW i \in 1..n, g[i - 1] = f[i - 1]
        PROVE  g[i] = f[i]
    <3>1. i \in 1..n + m /\ j[i] = a[i]
      BY <1>1
    <3> QED  BY <1>5, <1>7, <2>1, <3>1
  <2>2. Alike(g, f, n)
    BY <1>1, <1>5, <1>7, <2>1 DEF Alike
  <2> QED  BY <2>2, RecursionUnique
<1> DEFINE p == g[n]
           u == [i \in 0..m |-> f[n + i]]
           v == [i \in 0..m |-> p \o h[i]]
<1>9. p \in Seq(S)
  <2>1. n \in 0..n
    BY <1>1
  <2> QED  BY <1>2, <2>1
<1>10. Alike(u, v, m)
  <2>1. u[0] = v[0]
    <3>1. 0 \in 0..m /\ n + 0 = n /\ n \in 0..n
      BY <1>1
    <3>2. f[n] = p
      BY <1>8, <3>1
    <3> HIDE DEF p
    <3>3. p \o <<>> = p
      BY <1>9, ConcatEmptySeq
    <3> QED  BY <1>6, <3>1, <3>2, <3>3
  <2> HIDE DEF p
  <2>2. ASSUME NEW i \in 1..m, u[i - 1] = v[i - 1]
        PROVE  u[i] = v[i]
    <3>1. /\ i \in 0..m /\ i - 1 \in 0..m /\ n + i \in 1..n + m /\ (n + i) - 1 = n + (i - 1)
          /\ ~(n + i <= n) /\ (n + i) - n = i
      BY <1>1
    <3>2. j[n + i] = b[i] /\ h[i - 1] \in Seq(S) /\ b[i] \in Seq(S)
      BY <1>1, <1>3, <3>1
    <3>3. f[n + i] = (p \o h[i - 1]) \o b[i]
      BY <1>7, <2>2, <3>1, <3>2
    <3>4. h[i] = h[i - 1] \o b[i]
      BY <1>6
    <3>5. (p \o h[i - 1]) \o b[i] = p \o (h[i - 1] \o b[i])
      <4> DEFINE q == h[i - 1]
                 r == b[i]
      <4>1. p \in Seq(S) /\ q \in Seq(S) /\ r \in Seq(S)
        BY <1>9, <3>2
      <4> HIDE DEF q, r
      <4>2. \A x, y, z \in Seq(S) : (x \o y) \o z = x \o (y \o z)
        BY ONLY ConcatAssociative, SMTT(60)
      <4>3. (p \o q) \o r = p \o (q \o r)
        BY ONLY <4>1, <4>2, Zenon
      <4> QED  BY <4>3 DEF q, r
    <3> QED  BY <3>1, <3>3, <3>4, <3>5
  <2> HIDE DEF u, v
  <2> QED  BY <1>1, <2>1, <2>2 DEF Alike
<1>11. f[n + m] = p \o h[m]
  <2>1. m \in 0..m
    BY <1>1
  <2>2. u[m] = v[m]
    <3> HIDE DEF u, v
    <3> QED  BY <1>10, <2>1, RecursionUnique
  <2> QED  BY <2>1, <2>2
<1> QED  BY <1>5, <1>6, <1>7, <1>11 DEF j

LEMMA LeftConcat ==
    ASSUME NEW S, NEW a \in Seq(Seq(S)), NEW b \in Seq(Seq(S)), NEW kv
    PROVE  Left(a \o b, kv) = Left(a, kv) + Left(b, kv)
<1> DEFINE s == FlattenSeq(a)
           t == FlattenSeq(b)
<1>1. s \in Seq(S) /\ t \in Seq(S) /\ FlattenSeq(a \o b) = s \o t
  BY FlattenTyped, FlattenConcat
<1> HIDE DEF s, t
<1>2. Occurrences(s \o t, kv) = Occurrences(s, kv) + Occurrences(t, kv)
  BY <1>1, OccConcat
<1> QED  BY <1>1, <1>2 DEF Left, s, t

\* Another run in the place of one.
Replaced(runs, i, e) == [runs EXCEPT ![i] = e]

LEMMA LeftExcept ==
    ASSUME NEW S, NEW runs \in Seq(Seq(S)), NEW i \in 1..Len(runs), NEW e \in Seq(S), NEW kv,
           NEW rr, rr = Replaced(runs, i, e)
    PROVE  Left(rr, kv) + Occurrences(runs[i], kv) = Left(runs, kv) + Occurrences(e, kv)
<1> DEFINE n == Len(runs)
           x == Occurrences(e, kv)
           y == Occurrences(runs[i], kv)
<1>1. /\ n \in Nat /\ i \in 1..n /\ rr \in Seq(Seq(S)) /\ Len(rr) = n
      /\ \A k \in 1..n : rr[k] = IF k = i THEN e ELSE runs[k]
      /\ \A k \in 1..n : runs[k] \in Seq(S) /\ rr[k] \in Seq(S)
  <2>1. rr \in Seq(Seq(S)) /\ Len(rr) = n /\ \A k \in 1..n : rr[k] = IF k = i THEN e ELSE runs[k]
    BY ExceptSeq DEF Replaced
  <2> QED  BY <2>1, LenProperties, ElementOfSeq
<1>2. x \in Nat /\ y \in Nat
  <2>1. runs[i] \in Seq(S)
    BY ElementOfSeq
  <2> QED  BY <2>1, OccTyped
<1>3. PICK g : g \in [0..n -> Seq(S)] /\ Joined(g, runs)
  BY FlattenJoins
<1>4. PICK h : h \in [0..n -> Seq(S)] /\ Joined(h, rr)
  BY <1>1, FlattenJoins
<1>5. g[0] = <<>> /\ FlattenSeq(runs) = g[n] /\ \A k \in 1..n : g[k] = g[k - 1] \o runs[k]
  BY <1>3 DEF Joined
<1>6. h[0] = <<>> /\ FlattenSeq(rr) = h[n] /\ \A k \in 1..n : h[k] = h[k - 1] \o rr[k]
  BY <1>1, <1>4 DEF Joined
<1> HIDE DEF n
<1> DEFINE G(k) == Occurrences(g[k], kv)
           H(k) == Occurrences(h[k], kv)
           R == {k \in 0..n : H(k) + (IF k >= i THEN y ELSE 0) = G(k) + (IF k >= i THEN x ELSE 0)}
<1>7. \A k \in 0..n : G(k) \in Nat /\ H(k) \in Nat
  BY <1>3, <1>4, OccTyped
<1>8. \A k \in 1..n : /\ G(k) = G(k - 1) + Occurrences(runs[k], kv)
                      /\ H(k) = H(k - 1) + Occurrences(rr[k], kv)
  <2> SUFFICES ASSUME NEW k \in 1..n
               PROVE  /\ G(k) = G(k - 1) + Occurrences(runs[k], kv)
                      /\ H(k) = H(k - 1) + Occurrences(rr[k], kv)
    OBVIOUS
  <2>1. k - 1 \in 0..n
    BY <1>1
  <2>2. /\ g[k - 1] \in Seq(S) /\ runs[k] \in Seq(S) /\ g[k] = g[k - 1] \o runs[k]
        /\ h[k - 1] \in Seq(S) /\ rr[k] \in Seq(S) /\ h[k] = h[k - 1] \o rr[k]
    BY <1>1, <1>3, <1>4, <1>5, <1>6, <2>1
  <2> QED  BY <2>2, OccConcat
<1>9. \A k \in 1..n : Occurrences(runs[k], kv) \in Nat
  BY <1>1, OccTyped
<1>10. G(0) = H(0)
  BY <1>5, <1>6
<1> HIDE DEF G, H, x, y
<1>11. 0 \in R
  <2>1. 0 \in 0..n /\ ~(0 >= i)
    BY <1>1
  <2> QED  BY <1>10, <2>1
<1>12. ASSUME NEW k \in 0..n - 1, k \in R
       PROVE  k + 1 \in R
  <2> DEFINE l == k + 1
             o == Occurrences(runs[l], kv)
  <2>1. k \in 0..n /\ l \in 0..n /\ l \in 1..n /\ l - 1 = k
    BY <1>1
  <2>2. H(k) + (IF k >= i THEN y ELSE 0) = G(k) + (IF k >= i THEN x ELSE 0)
    BY <1>12
  <2>3. G(l) = G(k) + o /\ H(l) = H(k) + Occurrences(rr[l], kv) /\ o \in Nat
    <3>1. G(l) = G(l - 1) + o /\ H(l) = H(l - 1) + Occurrences(rr[l], kv)
      <4> HIDE DEF l
      <4> QED  BY <1>8, <2>1
    <3>2. o \in Nat
      <4> HIDE DEF l
      <4> QED  BY <1>9, <2>1
    <3> QED  BY <2>1, <3>1, <3>2
  <2>4. /\ l = i => o = y /\ Occurrences(rr[l], kv) = x
        /\ l # i => Occurrences(rr[l], kv) = o
    <3> HIDE DEF l
    <3> QED  BY <1>1, <2>1 DEF x, y
  <2>5. G(k) \in Nat /\ H(k) \in Nat
    BY <1>7, <2>1
  <2> DEFINE Kept == H(l) + (IF l >= i THEN y ELSE 0) = G(l) + (IF l >= i THEN x ELSE 0)
  <2>6. Kept
    <3> HIDE DEF o
    <3>1. CASE l = i
      <4>1. ~(k >= i) /\ l >= i
        BY <1>1, <3>1
      <4> QED  BY <1>2, <2>2, <2>3, <2>4, <2>5, <3>1, <4>1
    <3>2. CASE l # i /\ k >= i
      <4>1. l >= i
        BY <1>1, <3>2
      <4> HIDE DEF l
      <4>2. H(k) + y = G(k) + x
        BY <2>2, <3>2
      <4>3. H(l) = H(k) + o /\ G(l) = G(k) + o
        BY <2>3, <2>4, <3>2
      <4>4. H(l) + y = G(l) + x
        <5>1. G(k) \in Nat /\ H(k) \in Nat /\ o \in Nat /\ x \in Nat /\ y \in Nat
          BY <1>2, <2>3, <2>5
        <5>2. (H(k) + o) + y = (H(k) + y) + o /\ (G(k) + o) + x = (G(k) + x) + o
          BY ONLY <5>1
        <5>3. (H(k) + o) + y = (G(k) + o) + x
          BY ONLY <4>2, <5>2, Zenon
        <5> QED  BY <4>3, <5>3
      <4> QED  BY <4>1, <4>4
    <3>3. CASE l # i /\ ~(k >= i)
      <4>1. ~(l >= i)
        BY <1>1, <3>3
      <4> QED  BY <1>2, <2>2, <2>3, <2>4, <2>5, <3>3, <4>1
    <3> HIDE DEF Kept, l
    <3> QED  BY <3>1, <3>2, <3>3, Zenon
  <2> HIDE DEF o
  <2> QED  BY <2>1, <2>6
<1>13. n \in R
  <2>1. 0..n \subseteq R
    <3> HIDE DEF R
    <3> QED  BY <1>1, <1>11, <1>12, SetInduction
  <2>2. n \in 0..n
    BY <1>1
  <2> QED  BY <2>1, <2>2
<1>14. H(n) + y = G(n) + x
  <2>1. n >= i
    BY <1>1
  <2> QED  BY <1>13, <2>1
<1> QED  BY <1>5, <1>6, <1>14 DEF Left, G, H, x, y
-----------------------------------------------------------------------------
(* No record is lost or doubled: the invariant.                            *)

RunsOf(sp, r) == [i \in 1..Len(sp) |-> sp[i][r]]

\* What KVScanners give of some runs.
ReadOf(runs) == [i \in 1..Len(runs) |-> Readable(runs[i])]

\* What the index says is the k-th partition of an intermediate file.
Slice(x, k) == SubSeq(x.data, x.index[k][1] + 1, x.index[k][2])

\* What Map gave for the chunks cs[t], t \in F.
Taken(cs, F) == [t \in 1..Len(cs) |-> IF t \in F THEN Mapped(cs[t]) ELSE <<>>]
Gathered(cs, F) == FlattenSeq(Taken(cs, F))

Quiet == at \notin {"merge", "batch", "last"} => heap = <<>> /\ out = <<>>

Stages ==
    /\ at \in {"cut", "scan", "spill", "merge"} => fetched = {} /\ inputs = <<>>
    /\ at \in {"cut", "scan", "spill", "merge", "fetch"} => temps = <<>>
    /\ at = "merge" => pairs = <<>>
    /\ at \in {"sort", "batch", "last"} => fetched = 1..Len(chunks)
    /\ at = "last" => inputs = <<>> /\ temps = <<>>

\* The records of a map task are in its spills or still to spill.
SpillCount ==
    at \in {"spill", "merge"} => \A r \in Reducer, kv \in Pair :
        Left(RunsOf(spills, r), kv) + Share(pairs, r, kv) = Share(Mapped(chunks[now]), r, kv)

\* A scanner gives those of a spill that an overlong record does not cut off.
ReadCount ==
    at \in {"spill", "merge"} => \A r \in Reducer, kv \in Pair :
        LET read == Left(ReadOf(RunsOf(spills, r)), kv)
            spilt == Left(RunsOf(spills, r), kv)
        IN read <= spilt /\ (read = spilt \/ CutOff(chunks[now], kv))

\* Those of the partition it merges are in what is left or in what is written.
Merging(kv) == Left(heap, kv) + Occurrences(out, kv)

MergeCount ==
    at = "merge" => \A kv \in Pair :
        LET given == Share(Mapped(chunks[now]), Len(inter[now].index), kv)
        IN Merging(kv) <= given /\ (Merging(kv) = given \/ CutOff(chunks[now], kv))

\* Those of a partition that is merged are where the index says.
InterCount ==
    \A t \in 1..Len(inter) : \A k \in 1..Len(inter[t].index), kv \in Pair :
        LET there == Occurrences(Slice(inter[t], k), kv)
            given == Share(Mapped(chunks[t]), k - 1, kv)
        IN there <= given /\ (there = given \/ CutOff(chunks[t], kv))

\* Those of the partitions fetched are in the files that ExternalSort has.
Sorting(kv) == Left(inputs, kv) + Left(temps, kv) + Left(heap, kv) + Occurrences(out, kv)

Lost(cs, F, kv) == \E t \in F : kv \in Range(Mapped(cs[t])) /\ CutOff(cs[t], kv)

SortCount ==
    at \in {"fetch", "sort", "batch", "last"} => \A kv \in Pair :
        LET given == Share(Gathered(chunks, fetched), now, kv)
        IN Sorting(kv) <= given /\ (Sorting(kv) = given \/ Lost(chunks, fetched, kv))

RecordsInv ==
    Quiet /\ Stages /\ SpillCount /\ ReadCount /\ MergeCount /\ InterCount /\ SortCount
-----------------------------------------------------------------------------
LEMMA LeftNone ==
    ASSUME NEW kv
    PROVE  Left(<<>>, kv) = 0
<1>1. <<>> \in Seq(Seq(Pair)) /\ \A i \in 1..Len(<<>>) : <<>>[i] = <<>>
  OBVIOUS
<1>2. FlattenSeq(<<>>) = <<>>
  BY <1>1, FlattenEmpty
<1> QED  BY <1>2, OccNone DEF Left

LEMMA ShareTyped ==
    ASSUME NEW S, NEW s \in Seq(S), NEW r, NEW kv
    PROVE  Share(s, r, kv) \in Nat
  BY OccTyped DEF Share

LEMMA ExhaustedLeft ==
    ASSUME MergeInv, Exhausted, NEW kv
    PROVE  Left(heap, kv) = 0
<1>1. heap \in Seq(Seq(ShortPair)) /\ DOMAIN heap = 1..Len(heap)
  BY LenProperties DEF MergeInv, SortedRuns
<1>2. FlattenSeq(heap) = <<>>
  BY <1>1, FlattenEmpty DEF Exhausted
<1> QED  BY <1>2, OccNone DEF Left

\* A sequence is its first n elements and the others.
LEMMA Parted ==
    ASSUME NEW S, NEW s \in Seq(S), NEW n \in Nat, n <= Len(s)
    PROVE  /\ SubSeq(s, 1, n) \in Seq(S) /\ SubSeq(s, n + 1, Len(s)) \in Seq(S)
           /\ s = SubSeq(s, 1, n) \o SubSeq(s, n + 1, Len(s))
<1> DEFINE m == Len(s)
<1>1. m \in Nat /\ \A i \in 1..m : s[i] \in S
  BY LenProperties, ElementOfSeq
<1>2. n \in 1 - 1..m /\ m \in Int /\ 1 \in Int
  BY <1>1
<1>3. \A i \in 1..n : s[i] \in S
  BY <1>1
<1>4. \A i \in n + 1..m : s[i] \in S
  BY <1>1
<1>5. SubSeq(s, 1, m) = s
  BY SubSeqFull
<1> HIDE DEF m
<1>6. SubSeq(s, 1, n) \in Seq(S)
  BY <1>3, SubSeqProperties
<1>7. SubSeq(s, n + 1, m) \in Seq(S)
  BY <1>1, <1>4, SubSeqProperties
<1>8. SubSeq(s, 1, n) \o SubSeq(s, n + 1, m) = SubSeq(s, 1, m)
  <2>1. 1 \in 1..Len(s) + 1 /\ n \in 1 - 1..Len(s) /\ m \in n..Len(s)
    BY <1>1 DEF m
  <2> QED  BY <2>1, ConcatAdjacentSubSeq
<1> QED  BY <1>5, <1>6, <1>7, <1>8 DEF m

\* The runs of a reducer, one more of them after a spill.
LEMMA RunsOfTyped ==
    ASSUME NEW sp \in Seq(SpillFile), NEW r \in Reducer
    PROVE  RunsOf(sp, r) \in Seq(Seq(Pair))
<1>1. Len(sp) \in Nat /\ \A i \in 1..Len(sp) : sp[i][r] \in Seq(Pair)
  <2>1. \A i \in 1..Len(sp) : sp[i] \in SpillFile
    BY ElementOfSeq
  <2> QED  BY <2>1, LenProperties DEF SpillFile
<1> DEFINE n == Len(sp)
<1> HIDE DEF n
<1>2. [i \in 1..n |-> sp[i][r]] \in Seq(Seq(Pair))
  BY <1>1, IsASeq DEF n
<1> QED  BY <1>2 DEF RunsOf, n

LEMMA RunsOfAppend ==
    ASSUME NEW sp \in Seq(SpillFile), NEW s \in SpillFile, NEW r \in Reducer
    PROVE  RunsOf(Append(sp, s), r) = Append(RunsOf(sp, r), s[r])
<1> DEFINE n == Len(sp)
           tp == Append(sp, s)
           u == RunsOf(sp, r)
           v == RunsOf(tp, r)
           w == Append(u, s[r])
<1>1. /\ tp \in Seq(SpillFile) /\ n \in Nat /\ Len(tp) = n + 1 /\ tp[n + 1] = s
      /\ \A i \in 1..n : tp[i] = sp[i]
  BY LenProperties, AppendProperties
<1>2. s[r] \in Seq(Pair)
  BY DEF SpillFile
<1> HIDE DEF tp
<1>3. u \in Seq(Seq(Pair)) /\ v \in Seq(Seq(Pair))
  BY <1>1, RunsOfTyped
<1>4. Len(u) = n /\ \A i \in 1..n : u[i] = sp[i][r]
  BY <1>1, <1>3, LenProperties DEF RunsOf
<1>5. Len(v) = n + 1 /\ \A i \in 1..n + 1 : v[i] = tp[i][r]
  BY <1>1, <1>3, LenProperties DEF RunsOf
<1> HIDE DEF u, v, n
<1>6. /\ w \in Seq(Seq(Pair)) /\ Len(w) = n + 1 /\ w[n + 1] = s[r]
      /\ \A i \in 1..n : w[i] = u[i]
  BY <1>2, <1>3, <1>4, AppendProperties
<1> HIDE DEF w
<1>7. \A i \in 1..n + 1 : v[i] = w[i]
  <2>1. \A i \in 1..n + 1 : i = n + 1 \/ i \in 1..n
    BY <1>1 DEF n
  <2> QED  BY <1>1, <1>4, <1>5, <1>6, <2>1 DEF n
<1>8. v = w
  BY <1>3, <1>5, <1>6, <1>7, SeqEqual
<1> QED  BY <1>8 DEF v, w, u, tp

LEMMA ReadOfTyped ==
    ASSUME NEW runs \in Seq(Seq(Pair))
    PROVE  ReadOf(runs) \in Seq(Seq(ShortPair)) /\ Len(ReadOf(runs)) = Len(runs)
<1> DEFINE n == Len(runs)
           v == [i \in 1..n |-> Readable(runs[i])]
<1>1. n \in Nat /\ \A i \in 1..n : Readable(runs[i]) \in Seq(ShortPair)
  BY LenProperties, ElementOfSeq, ReadableBefore
<1> HIDE DEF n
<1>2. v \in Seq(Seq(ShortPair)) /\ Len(v) = n
  BY <1>1
<1> QED  BY <1>2 DEF ReadOf, n

LEMMA ReadOfAppend ==
    ASSUME NEW runs \in Seq(Seq(Pair)), NEW s \in Seq(Pair)
    PROVE  ReadOf(Append(runs, s)) = Append(ReadOf(runs), Readable(s))
<1> DEFINE n == Len(runs)
           tt == Append(runs, s)
           u == ReadOf(runs)
           v == ReadOf(tt)
           w == Append(u, Readable(s))
<1>1. /\ tt \in Seq(Seq(Pair)) /\ n \in Nat /\ Len(tt) = n + 1 /\ tt[n + 1] = s
      /\ \A i \in 1..n : tt[i] = runs[i]
  BY LenProperties, AppendProperties
<1>2. Readable(s) \in Seq(ShortPair)
  BY ReadableBefore
<1> HIDE DEF tt
<1>3. /\ u \in Seq(Seq(ShortPair)) /\ Len(u) = n
      /\ v \in Seq(Seq(ShortPair)) /\ Len(v) = n + 1
  BY <1>1, ReadOfTyped
<1>4. \A i \in 1..n : u[i] = Readable(runs[i])
  BY DEF ReadOf
<1>5. \A i \in 1..n + 1 : v[i] = Readable(tt[i])
  BY <1>1 DEF ReadOf
<1> HIDE DEF u, v, n
<1>6. /\ w \in Seq(Seq(ShortPair)) /\ Len(w) = n + 1 /\ w[n + 1] = Readable(s)
      /\ \A i \in 1..n : w[i] = u[i]
  BY <1>2, <1>3, AppendProperties
<1> HIDE DEF w
<1>7. \A i \in 1..n + 1 : v[i] = w[i]
  <2>1. \A i \in 1..n + 1 : i = n + 1 \/ i \in 1..n
    BY <1>1 DEF n
  <2> QED  BY <1>1, <1>4, <1>5, <1>6, <2>1 DEF n
<1>8. v = w
  BY <1>3, <1>6, <1>7, SeqEqual
<1> QED  BY <1>8 DEF v, w, u, tt

LEMMA SpillScannersAre ==
    ASSUME FilesInv, NEW r \in Reducer
    PROVE  SpillScanners(r) = ReadOf(RunsOf(spills, r))
<1> DEFINE n == Len(spills)
<1>1. DOMAIN spills = 1..n /\ RunsOf(spills, r) \in Seq(Seq(Pair))
  BY LenProperties, RunsOfTyped DEF FilesInv
<1>2. Len(RunsOf(spills, r)) = n /\ \A i \in 1..n : RunsOf(spills, r)[i] = spills[i][r]
  <2>1. n \in Nat
    BY LenProperties DEF FilesInv
  <2> HIDE DEF n
  <2>2. RunsOf(spills, r) = [i \in 1..n |-> spills[i][r]]
    BY DEF RunsOf, n
  <2>3. DOMAIN RunsOf(spills, r) = 1..Len(RunsOf(spills, r)) /\ Len(RunsOf(spills, r)) \in Nat
    BY <1>1, LenProperties
  <2> QED  BY <2>1, <2>2, <2>3
<1> QED  BY <1>1, <1>2 DEF SpillScanners, MapSeq, ReadOf

\* A record that a scanner does not give comes after an overlong one.
LEMMA ReadableCounts ==
    ASSUME PipelineAssumption, NEW s \in Seq(Pair), KeySorted(s), NEW kv \in Pair
    PROVE  /\ Occurrences(Readable(s), kv) <= Occurrences(s, kv)
           /\ \/ Occurrences(Readable(s), kv) = Occurrences(s, kv)
              \/ \E i \in 1..Len(s) : Overlong(s[i]) /\ Key(s[i]) <= Key(kv)
<1> DEFINE u == Readable(s)
           n == Len(u)
           v == SubSeq(s, n + 1, Len(s))
<1>1. u \in Seq(ShortPair) /\ Before(u, s, LongRecords(s))
  BY ReadableBefore
<1> HIDE DEF u
<1>2. n \in Nat /\ n <= Len(s) /\ Len(s) \in Nat /\ u = SubSeq(s, 1, n) /\ DOMAIN s = 1..Len(s)
  BY <1>1, LenProperties DEF Before
<1>3. n < Len(s) => n + 1 \in LongRecords(s)
  BY <1>1 DEF Before
<1> HIDE DEF n
<1>4. u \in Seq(Pair) /\ v \in Seq(Pair) /\ s = u \o v
  BY <1>2, Parted
<1>5. Occurrences(s, kv) = Occurrences(u, kv) + Occurrences(v, kv)
  <2> HIDE DEF v
  <2>1. Occurrences(u \o v, kv) = Occurrences(u, kv) + Occurrences(v, kv)
    BY <1>4, OccConcat
  <2> QED  BY <1>4, <2>1
<1>6. Occurrences(u, kv) \in Nat /\ Occurrences(v, kv) \in Nat
  <2> HIDE DEF v
  <2> QED  BY <1>4, OccTyped
<1>7. ASSUME Occurrences(v, kv) # 0
      PROVE  \E i \in 1..Len(s) : Overlong(s[i]) /\ Key(s[i]) <= Key(kv)
  <2>1. PICK j \in 1..Len(v) : v[j] = kv
    <3> HIDE DEF v
    <3> QED  BY <1>4, <1>7, OccThere
  <2>2. /\ Len(v) = IF n + 1 <= Len(s) THEN Len(s) - n ELSE 0
        /\ \A i \in 1..Len(s) - n : v[i] = s[n + i]
    <3> DEFINE l == Len(s)
    <3>1. \A i \in n + 1..l : i \in 1..l
      BY <1>2
    <3>2. \A i \in n + 1..l : s[i] \in Pair
      BY <3>1, ElementOfSeq
    <3>3. n + 1 \in Int /\ l \in Int /\ n \in Nat
      BY <1>2
    <3> HIDE DEF l
    <3>4. /\ Len(SubSeq(s, n + 1, l)) = IF n + 1 <= l THEN l - (n + 1) + 1 ELSE 0
          /\ \A i \in 1..l - (n + 1) + 1 : SubSeq(s, n + 1, l)[i] = s[(n + 1) + i - 1]
      BY ONLY <3>2, <3>3, SubSeqProperties
    <3>5. l - (n + 1) + 1 = l - n /\ \A i \in 1..l - n : (n + 1) + i - 1 = n + i
      BY <3>3
    <3>6. \A i \in 1..l - n : SubSeq(s, n + 1, l)[i] = s[n + i]
      BY <3>4, <3>5
    <3> QED  BY <3>4, <3>5, <3>6 DEF l
  <2> HIDE DEF v
  <2>3. n < Len(s) /\ n + j \in 1..Len(s) /\ s[n + j] = kv /\ j \in 1..Len(s) - n
    <3>1. j \in 1..Len(s) - n /\ n < Len(s)
      <4>1. CASE n + 1 <= Len(s)
        BY <1>2, <2>1, <2>2, <4>1
      <4>2. CASE ~(n + 1 <= Len(s))
        <5>1. Len(v) = 0
          BY <2>2, <4>2
        <5> QED  BY <2>1, <5>1
      <4> QED  BY <4>1, <4>2
    <3>2. n + j \in 1..Len(s)
      BY <1>2, <3>1
    <3> QED  BY <2>1, <2>2, <3>1, <3>2
  <2>4. n + 1 \in 1..Len(s) /\ Overlong(s[n + 1])
    BY <1>3, <2>3 DEF LongRecords
  <2>5. Key(s[n + 1]) <= Key(s[n + j])
    <3>1. CASE j = 1
      <4>1. Key(s[n + 1]) \in Nat
        <5>1. s[n + 1] \in Pair
          BY <2>4, ElementOfSeq
        <5> QED  BY <5>1 DEF Pair, Key, PipelineAssumption
      <4> QED  BY <3>1, <4>1
    <3>2. CASE j # 1
      <4>1. n + 1 < n + j
        BY <1>2, <2>3, <3>2
      <4> QED  BY <1>2, <2>3, <2>4, <4>1 DEF KeySorted
    <3> QED  BY <3>1, <3>2
  <2> QED  BY <2>3, <2>4, <2>5
<1> HIDE DEF v
<1>8. Occurrences(u, kv) <= Occurrences(s, kv)
  BY <1>5, <1>6
<1>9. Occurrences(v, kv) = 0 => Occurrences(u, kv) = Occurrences(s, kv)
  BY <1>5, <1>6
<1> QED  BY <1>7, <1>8, <1>9 DEF u

\* One more map task is fetched.
LEMMA TakenTyped ==
    ASSUME PipelineAssumption, NEW cs \in Seq(Seq(Byte)), NEW F
    PROVE  Taken(cs, F) \in Seq(Seq(Pair)) /\ Len(Taken(cs, F)) = Len(cs)
<1> DEFINE n == Len(cs)
           E(t) == IF t \in F THEN Mapped(cs[t]) ELSE <<>>
           u == [t \in 1..n |-> E(t)]
<1>1. n \in Nat /\ \A t \in 1..n : cs[t] \in Seq(Byte)
  BY LenProperties, ElementOfSeq
<1>2. \A t \in 1..n : E(t) \in Seq(Pair)
  <2>1. <<>> \in Seq(Pair)
    OBVIOUS
  <2> QED  BY <1>1, <2>1, MapTyped
<1> HIDE DEF n, E
<1>3. u \in Seq(Seq(Pair)) /\ Len(u) = n
  BY <1>1, <1>2
<1> QED  BY <1>3 DEF Taken, n, E

LEMMA TakenMore ==
    ASSUME PipelineAssumption, NEW cs \in Seq(Seq(Byte)), NEW F,
           NEW t \in 1..Len(cs), t \notin F, NEW r, NEW kv
    PROVE  Share(Gathered(cs, F \cup {t}), r, kv)
             = Share(Gathered(cs, F), r, kv) + Share(Mapped(cs[t]), r, kv)
<1> DEFINE u == Taken(cs, F)
           v == Taken(cs, F \cup {t})
           e == Mapped(cs[t])
<1>1. u \in Seq(Seq(Pair)) /\ v \in Seq(Seq(Pair)) /\ Len(u) = Len(cs) /\ Len(v) = Len(cs)
  BY TakenTyped
<1>2. e \in Seq(Pair)
  BY MapTyped, ElementOfSeq
<1>3. u[t] = <<>> /\ v = [u EXCEPT ![t] = e]
  BY DEF Taken
<1> HIDE DEF u, v, e
<1>4. Left(v, kv) + Occurrences(u[t], kv) = Left(u, kv) + Occurrences(e, kv)
  <2>1. v = Replaced(u, t, e)
    BY <1>3 DEF Replaced
  <2> QED  BY <1>1, <1>2, <2>1, LeftExcept
<1>5. Left(u, kv) \in Nat /\ Left(v, kv) \in Nat /\ Occurrences(e, kv) \in Nat
  BY <1>1, <1>2, LeftTyped, OccTyped
<1>6. Left(v, kv) = Left(u, kv) + Occurrences(e, kv)
  <2>1. Occurrences(u[t], kv) = 0
    BY <1>3, OccNone
  <2> QED  BY <1>4, <1>5, <2>1
<1>7. /\ Left(v, kv) = Occurrences(Gathered(cs, F \cup {t}), kv)
      /\ Left(u, kv) = Occurrences(Gathered(cs, F), kv)
  BY DEF Left, Gathered, u, v
<1> QED  BY <1>6, <1>7 DEF Share, e

LEMMA TakenNone ==
    ASSUME PipelineAssumption, NEW cs \in Seq(Seq(Byte)), NEW r, NEW kv
    PROVE  Share(Gathered(cs, {}), r, kv) = 0
<1> DEFINE u == Taken(cs, {})
<1>1. u \in Seq(Seq(Pair)) /\ Len(u) = Len(cs) /\ \A t \in 1..Len(cs) : u[t] = <<>>
  BY TakenTyped DEF Taken
<1> HIDE DEF u
<1>2. FlattenSeq(u) = <<>>
  BY <1>1, FlattenEmpty
<1> QED  BY <1>2, OccNone DEF Share, Gathered, u

\* A record moves from a run to the output.
LEMMA PopCounts ==
    ASSUME MergeInv, Pop, NEW kv
    PROVE  Left(heap', kv) + Occurrences(out', kv) = Left(heap, kv) + Occurrences(out, kv)
<1>1. PICK i \in DOMAIN heap :
        /\ heap[i] # <<>>
        /\ out' = Append(out, Head(heap[i]))
        /\ heap' = [heap EXCEPT ![i] = Tail(@)]
  BY DEF Pop
<1> DEFINE s == heap[i]
           h == Head(s)
           t == Tail(s)
           one == IF h = kv THEN 1 ELSE 0
<1>2. heap \in Seq(Seq(ShortPair)) /\ out \in Seq(ShortPair) /\ i \in 1..Len(heap) /\ s \in Seq(ShortPair)
  <2>1. heap \in Seq(Seq(ShortPair)) /\ out \in Seq(ShortPair)
    BY DEF MergeInv, SortedRuns
  <2>2. i \in 1..Len(heap)
    BY <2>1, LenProperties
  <2> QED  BY <2>1, <2>2, ElementOfSeq
<1>3. s # <<>> /\ heap' = [heap EXCEPT ![i] = t] /\ out' = Append(out, h)
  BY <1>1
<1>a. t \in Seq(ShortPair) /\ h \in ShortPair
  <2> HIDE DEF s
  <2> QED  BY <1>2, <1>3, HeadTailProperties
<1>4. Occurrences(s, kv) = Occurrences(t, kv) + one
  <2> HIDE DEF s
  <2> QED  BY <1>2, <1>3, OccTail
<1> HIDE DEF t, h
<1>5. Left(heap', kv) + Occurrences(heap[i], kv) = Left(heap, kv) + Occurrences(t, kv)
  <2>1. heap' = Replaced(heap, i, t)
    BY <1>3 DEF Replaced
  <2> QED  BY <1>2, <1>a, <2>1, LeftExcept
<1>6. Occurrences(out', kv) = Occurrences(out, kv) + one
  BY <1>2, <1>3, <1>a, OccAppend DEF h
<1>7. /\ Left(heap', kv) \in Nat /\ Left(heap, kv) \in Nat
      /\ Occurrences(out, kv) \in Nat /\ Occurrences(t, kv) \in Nat /\ one \in Nat
  <2>1. heap' \in Seq(Seq(ShortPair))
    BY <1>2, <1>3, <1>a, ExceptSeq
  <2> QED  BY <1>2, <1>a, <2>1, LeftTyped, OccTyped
<1>8. Occurrences(heap[i], kv) = Occurrences(t, kv) + one
  BY <1>4
<1> HIDE DEF one
<1> QED  BY <1>5, <1>6, <1>7, <1>8
-----------------------------------------------------------------------------
(* No record is lost or doubled: the steps.                                *)

LEMMA RecordsInit ==
    ASSUME Init
    PROVE  RecordsInv
<1>1. /\ at = "cut" /\ inter = <<>> /\ heap = <<>> /\ out = <<>>
      /\ inputs = <<>> /\ temps = <<>> /\ fetched = {}
  BY DEF Init
<1>2. Quiet /\ Stages /\ SpillCount /\ ReadCount /\ MergeCount /\ SortCount
  BY <1>1 DEF Quiet, Stages, SpillCount, ReadCount, MergeCount, SortCount
<1>3. InterCount
  BY <1>1 DEF InterCount
<1> QED  BY <1>2, <1>3 DEF RecordsInv

\* At the start of a reduce task nothing is fetched, and nothing is there.
LEMMA FetchBegins ==
    ASSUME PipelineAssumption, FileInv',
           inputs' = <<>>, temps' = <<>>, heap' = <<>>, out' = <<>>, fetched' = {}
    PROVE  SortCount'
<1>1. \A kv \in Pair : Left(<<>>, kv) = 0 /\ Occurrences(<<>>, kv) = 0
  BY LeftNone, OccNone
<1>2. chunks' \in Seq(Seq(Byte))
  BY DEF FileInv
<1>3. \A kv \in Pair : Share(Gathered(chunks', {}), now', kv) = 0
  BY <1>2, TakenNone
<1>4. \A kv \in Pair : Sorting(kv)' = 0
  BY <1>1 DEF Sorting
<1> QED  BY <1>3, <1>4 DEF SortCount

LEMMA CutRecords ==
    ASSUME PipelineAssumption, PipelineInv, RecordsInv, Cut \/ CutDone, FileInv'
    PROVE  RecordsInv'
<1> USE DEF RecordsInv
<1>1. /\ at = "cut" /\ at' \in {"cut", "scan", "fetch"}
      /\ UNCHANGED <<mapVars, inter, mergeVars, sortVars, result>>
  BY DEF Cut, CutDone
<1>2. inter = <<>>
  BY <1>1 DEF PipelineInv, Progress
<1>3. /\ inter' = <<>> /\ heap' = <<>> /\ out' = <<>>
      /\ inputs' = <<>> /\ temps' = <<>> /\ fetched' = {}
  BY <1>1, <1>2 DEF Quiet, Stages, mergeVars, sortVars
<1>4. Quiet' /\ Stages'
  BY <1>1, <1>3 DEF Quiet, Stages
<1>5. SpillCount' /\ ReadCount' /\ MergeCount'
  BY <1>1 DEF SpillCount, ReadCount, MergeCount
<1>6. InterCount'
  BY <1>3 DEF InterCount
<1>7. SortCount'
  BY <1>3, FetchBegins
<1> QED  BY <1>4, <1>5, <1>6, <1>7

LEMMA ScanRecords ==
    ASSUME PipelineAssumption, PipelineInv, RecordsInv, Scan
    PROVE  RecordsInv'
<1> USE DEF RecordsInv
<1>1. /\ at = "scan" /\ at' = "spill" /\ spills' = <<>>
      /\ pairs' = Mapped(chunks[now])
      /\ UNCHANGED <<file, isText, chunks, now, inter, mergeVars, sortVars, result>>
  BY DEF Scan
<1>2. Quiet' /\ Stages'
  BY <1>1 DEF Quiet, Stages, mergeVars, sortVars
<1>3. SpillCount'
  <2> SUFFICES ASSUME NEW r \in Reducer, NEW kv \in Pair
               PROVE  Left(RunsOf(<<>>, r), kv) + Share(pairs', r, kv)
                        = Share(Mapped(chunks[now]), r, kv)
    BY <1>1 DEF SpillCount
  <2>1. RunsOf(<<>>, r) = <<>>
    BY DEF RunsOf
  <2>2. chunks[now] \in Seq(Byte)
    BY <1>1 DEF PipelineInv, FileInv, Progress
  <2>3. Share(Mapped(chunks[now]), r, kv) \in Nat
    BY <2>2, MapTyped, ShareTyped
  <2> QED  BY <1>1, <2>1, <2>3, LeftNone
<1>4. MergeCount' /\ SortCount'
  BY <1>1 DEF MergeCount, SortCount
<1>5. InterCount'
  BY <1>1 DEF InterCount
<1>6. ReadCount'
  <2>1. \A r : RunsOf(<<>>, r) = <<>>
    BY DEF RunsOf
  <2>2. ReadOf(<<>>) = <<>>
    BY DEF ReadOf
  <2>3. \A kv : Left(<<>>, kv) = 0
    BY LeftNone
  <2> QED  BY <1>1, <2>1, <2>2, <2>3 DEF ReadCount
<1> QED  BY <1>2, <1>3, <1>4, <1>5, <1>6

LEMMA SpillRecords ==
    ASSUME PipelineAssumption, PipelineInv, RecordsInv, Spill
    PROVE  RecordsInv'
<1> USE DEF RecordsInv
<1> DEFINE n == IF Len(pairs) < SpillSize THEN Len(pairs) ELSE SpillSize
           first == SubSeq(pairs, 1, n)
           rest == SubSeq(pairs, n + 1, Len(pairs))
<1>1. /\ at = "spill" /\ pairs' = rest
      /\ UNCHANGED <<file, isText, chunks, at, now, inter, mergeVars, sortVars, result>>
  BY DEF Spill
<1>2. PICK s \in [Reducer -> UNION {Partitions(first, r) : r \in Reducer}] :
         /\ \A r \in Reducer : s[r] \in Partitions(first, r)
         /\ spills' = Append(spills, s)
  BY Zenon DEF Spill
<1>3. pairs \in Seq(Pair) /\ n \in Nat /\ n <= Len(pairs) /\ spills \in Seq(SpillFile)
  BY LenProperties DEF PipelineInv, FilesInv, PipelineAssumption
<1> HIDE DEF n
<1>4. first \in Seq(Pair) /\ rest \in Seq(Pair) /\ pairs = first \o rest
  BY <1>3, Parted
<1> HIDE DEF first, rest
<1>5. s \in SpillFile
  <2>1. \A r \in Reducer : s[r] \in {x \in Seq(Pair) : KeySorted(x)}
    BY <1>2, <1>4, PartitionsSorted
  <2> QED  BY <1>2, <2>1 DEF SpillFile
<1>6. Quiet' /\ Stages'
  BY <1>1 DEF Quiet, Stages, mergeVars, sortVars
<1>7. SpillCount'
  <2> SUFFICES ASSUME NEW r \in Reducer, NEW kv \in Pair
               PROVE  Left(RunsOf(Append(spills, s), r), kv) + Share(rest, r, kv)
                        = Share(Mapped(chunks[now]), r, kv)
    BY <1>1, <1>2 DEF SpillCount
  <2> DEFINE old == RunsOf(spills, r)
             sr == s[r]
  <2>1. old \in Seq(Seq(Pair)) /\ sr \in Seq(Pair)
    BY <1>3, <1>5, RunsOfTyped DEF SpillFile
  <2>2. RunsOf(Append(spills, s), r) = Append(old, sr)
    BY <1>3, <1>5, RunsOfAppend
  <2>3. sr \in Partitions(first, r)
    BY <1>2
  <2>4. Left(old, kv) + Share(pairs, r, kv) = Share(Mapped(chunks[now]), r, kv)
    BY <1>1 DEF SpillCount
  <2> HIDE DEF old, sr
  <2>5. Left(Append(old, sr), kv) = Left(old, kv) + Occurrences(sr, kv)
    BY <2>1, LeftAppend
  <2>6. Occurrences(sr, kv) = Share(first, r, kv)
    BY <1>4, <2>3, OccPartition
  <2>7. Share(pairs, r, kv) = Share(first, r, kv) + Share(rest, r, kv)
    <3>1. Occurrences(pairs, kv) = Occurrences(first, kv) + Occurrences(rest, kv)
      BY <1>4, OccConcat
    <3> QED  BY <3>1 DEF Share
  <2>8. Left(old, kv) \in Nat /\ Share(first, r, kv) \in Nat /\ Share(rest, r, kv) \in Nat
    BY <1>4, <2>1, LeftTyped, ShareTyped
  <2> QED  BY <2>2, <2>4, <2>5, <2>6, <2>7, <2>8
<1>8. MergeCount' /\ SortCount'
  BY <1>1 DEF MergeCount, SortCount
<1>9. InterCount'
  BY <1>1 DEF InterCount
<1>10. ASSUME NEW r \in Reducer, NEW kv \in Pair
       PROVE  LET read == Left(ReadOf(RunsOf(Append(spills, s), r)), kv)
                  spilt == Left(RunsOf(Append(spills, s), r), kv)
              IN read <= spilt /\ (read = spilt \/ CutOff(chunks[now], kv))
  <2> DEFINE old == RunsOf(spills, r)
             sr == s[r]
             c == chunks[now]
  <2>1. old \in Seq(Seq(Pair)) /\ sr \in Seq(Pair) /\ KeySorted(sr)
    BY <1>3, <1>5, RunsOfTyped DEF SpillFile
  <2>2. RunsOf(Append(spills, s), r) = Append(old, sr)
    BY <1>3, <1>5, RunsOfAppend
  <2>3. sr \in Partitions(first, r)
    BY <1>2
  <2>4. LET read == Left(ReadOf(old), kv)
            spilt == Left(old, kv)
        IN read <= spilt /\ (read = spilt \/ CutOff(c, kv))
    BY <1>1 DEF ReadCount
  <2>5. \A x \in Pair : Left(old, x) + Share(pairs, r, x) = Share(Mapped(c), r, x)
    BY <1>1 DEF SpillCount
  <2>a. at = "spill" /\ Mapped(c) \in Seq(Pair)
    <3>1. at = "spill" /\ c \in Seq(Byte)
      BY <1>1 DEF PipelineInv, FileInv, Progress
    <3> QED  BY <3>1, MapTyped
  <2> HIDE DEF old, sr, c
  <2>6. /\ Left(Append(old, sr), kv) = Left(old, kv) + Occurrences(sr, kv)
        /\ ReadOf(Append(old, sr)) = Append(ReadOf(old), Readable(sr))
        /\ ReadOf(old) \in Seq(Seq(ShortPair)) /\ Readable(sr) \in Seq(ShortPair)
    BY <2>1, LeftAppend, ReadOfAppend, ReadOfTyped, ReadableBefore
  <2>7. Left(Append(ReadOf(old), Readable(sr)), kv)
            = Left(ReadOf(old), kv) + Occurrences(Readable(sr), kv)
    BY <2>6, LeftAppend
  <2>8. \A x : Occurrences(sr, x) = Share(first, r, x)
    BY <1>4, <2>3, OccPartition
  <2>9. /\ Left(old, kv) \in Nat /\ Left(ReadOf(old), kv) \in Nat
        /\ Occurrences(sr, kv) \in Nat /\ Occurrences(Readable(sr), kv) \in Nat
    BY <2>1, <2>6, LeftTyped, OccTyped
  <2>10. /\ Occurrences(Readable(sr), kv) <= Occurrences(sr, kv)
         /\ Occurrences(Readable(sr), kv) = Occurrences(sr, kv) \/ CutOff(c, kv)
    <3>1. Occurrences(Readable(sr), kv) <= Occurrences(sr, kv)
      BY <2>1, ReadableCounts
    <3>2. CASE Occurrences(Readable(sr), kv) = Occurrences(sr, kv)
      BY <3>1, <3>2
    <3>3. CASE Occurrences(Readable(sr), kv) # Occurrences(sr, kv)
      <4>1. PICK i \in 1..Len(sr) : Overlong(sr[i]) /\ Key(sr[i]) <= Key(kv)
        BY <2>1, <3>3, ReadableCounts
      <4> DEFINE x == sr[i]
      <4>2. x \in Pair /\ Occurrences(sr, x) # 0
        BY <2>1, ElementOfSeq, OccPositive
      <4>3. Occurrences(sr, kv) # 0
        BY <2>9, <3>1, <3>3
      <4>4. Partition(Key(kv)) = r /\ Partition(Key(x)) = r /\ Occurrences(first, x) # 0
        BY <2>8, <4>2, <4>3 DEF Share
      <4>5. Occurrences(pairs, x) # 0
        <5>1. Occurrences(pairs, x) = Occurrences(first, x) + Occurrences(rest, x)
          BY <1>4, OccConcat
        <5>2. Occurrences(first, x) \in Nat /\ Occurrences(rest, x) \in Nat
          BY <1>4, OccTyped
        <5> QED  BY <4>4, <5>1, <5>2
      <4>6. Occurrences(Mapped(c), x) # 0
        <5>1. Left(old, x) + Occurrences(pairs, x) = Occurrences(Mapped(c), x)
          BY <2>5, <4>2, <4>4 DEF Share
        <5>2. Left(old, x) \in Nat /\ Occurrences(pairs, x) \in Nat
          BY <1>3, <2>1, LeftTyped, OccTyped
        <5> QED  BY <4>5, <5>1, <5>2
      <4>7. PICK k \in 1..Len(Mapped(c)) : Mapped(c)[k] = x
        BY <2>a, <4>6, OccThere
      <4>8. k \in DOMAIN Mapped(c)
        BY <2>a, LenProperties
      <4>9. Overlong(x) /\ Key(x) <= Key(kv)
        BY <4>1
      <4> QED  BY <3>1, <4>4, <4>7, <4>8, <4>9 DEF CutOff
    <3> QED  BY <3>2, <3>3
  <2> QED  BY <2>2, <2>4, <2>6, <2>7, <2>9, <2>10 DEF c
<1>11. ReadCount'
  BY <1>1, <1>2, <1>10 DEF ReadCount
<1> QED  BY <1>6, <1>7, <1>8, <1>9, <1>11

\* The merge of a partition begins with all of its records.
LEMMA MergeCountBegins ==
    ASSUME PipelineAssumption, FilesInv, SpillCount, ReadCount, at \in {"spill", "merge"},
           pairs = <<>>, NEW r \in Reducer, NEW kv \in Pair
    PROVE  LET read == Left(SpillScanners(r), kv) + Occurrences(<<>>, kv)
               given == Share(Mapped(chunks[now]), r, kv)
           IN read <= given /\ (read = given \/ CutOff(chunks[now], kv))
<1>1. Left(RunsOf(spills, r), kv) + Share(pairs, r, kv) = Share(Mapped(chunks[now]), r, kv)
  BY DEF SpillCount
<1>2. Share(pairs, r, kv) = 0
  BY OccNone DEF Share
<1>3. SpillScanners(r) = ReadOf(RunsOf(spills, r))
  BY SpillScannersAre
<1>4. LET read == Left(ReadOf(RunsOf(spills, r)), kv)
          spilt == Left(RunsOf(spills, r), kv)
      IN read <= spilt /\ (read = spilt \/ CutOff(chunks[now], kv))
  BY DEF ReadCount
<1>5. Left(RunsOf(spills, r), kv) \in Nat /\ Left(ReadOf(RunsOf(spills, r)), kv) \in Nat
  <2>1. RunsOf(spills, r) \in Seq(Seq(Pair))
    BY RunsOfTyped DEF FilesInv
  <2> QED  BY <2>1, LeftTyped, ReadOfTyped
<1> QED  BY <1>1, <1>2, <1>3, <1>4, <1>5, OccNone

LEMMA StartMergeRecords ==
    ASSUME PipelineAssumption, PipelineInv, RecordsInv, StartMerge
    PROVE  RecordsInv'
<1> USE DEF RecordsInv
<1> DEFINE x == [data |-> <<>>, index |-> <<>>]
<1>1. /\ at = "spill" /\ pairs = <<>> /\ at' = "merge" /\ inter' = Append(inter, x)
      /\ heap' = SpillScanners(0) /\ out' = <<>>
      /\ UNCHANGED <<file, isText, chunks, now, mapVars, sortVars, result>>
  BY DEF StartMerge
<1>2. x \in InterFile /\ x.index = <<>>
  BY DEF InterFile
<1> HIDE DEF x
<1>3. /\ Len(inter') = Len(inter) + 1 /\ Len(inter) \in Nat
      /\ inter'[Len(inter) + 1] = x /\ \A t \in 1..Len(inter) : inter'[t] = inter[t]
  BY <1>1, <1>2, AppendProperties DEF PipelineInv, FilesInv
<1>4. now \in 1..Len(chunks) /\ Len(inter) = now - 1 /\ Len(chunks) \in Nat
  BY <1>1, LenProperties DEF PipelineInv, Progress, FileInv
<1>5. inter'[now] = x /\ Len(x.index) = 0
  BY <1>2, <1>3, <1>4
<1>6. Quiet' /\ Stages'
  BY <1>1 DEF Quiet, Stages, mapVars, sortVars
<1>7. SpillCount' /\ ReadCount'
  BY <1>1 DEF SpillCount, ReadCount, mapVars
<1>8. MergeCount'
  <2>1. 0 \in Reducer
    BY DEF Reducer, PipelineAssumption
  <2> SUFFICES ASSUME NEW kv \in Pair
               PROVE  LET read == Left(SpillScanners(0), kv) + Occurrences(<<>>, kv)
                          given == Share(Mapped(chunks[now]), 0, kv)
                      IN read <= given /\ (read = given \/ CutOff(chunks[now], kv))
    BY <1>1, <1>5 DEF MergeCount, Merging
  <2> QED  BY <1>1, <2>1, MergeCountBegins DEF PipelineInv
<1>9. SortCount'
  BY <1>1 DEF SortCount
<1>10. InterCount'
  <2>1. \A t \in 1..Len(inter') : t = now \/ t \in 1..Len(inter)
    BY <1>3, <1>4
  <2>2. ASSUME NEW t \in 1..Len(inter'), NEW k \in 1..Len(inter'[t].index), NEW kv \in Pair
        PROVE  LET there == Occurrences(Slice(inter'[t], k), kv)
                   given == Share(Mapped(chunks[t]), k - 1, kv)
               IN there <= given /\ (there = given \/ CutOff(chunks[t], kv))
    <3>1. t # now
      BY <1>5, <2>2
    <3>2. t \in 1..Len(inter) /\ inter'[t] = inter[t]
      BY <1>3, <2>1, <3>1
    <3> QED  BY <3>2 DEF InterCount
  <2> QED  BY <1>1, <2>2 DEF InterCount
<1> QED  BY <1>6, <1>7, <1>8, <1>9, <1>10

LEMMA PopRecords ==
    ASSUME PipelineAssumption, PipelineInv, RecordsInv, Pop
    PROVE  RecordsInv'
<1> USE DEF RecordsInv
<1>1. UNCHANGED <<file, isText, chunks, at, now, mapVars, inter, sortVars, result>>
  BY DEF Pop
<1>2. heap # <<>>
  BY DEF Pop
<1>3. Quiet' /\ Stages'
  BY <1>1, <1>2 DEF Quiet, Stages, mapVars, sortVars
<1>4. SpillCount' /\ ReadCount'
  BY <1>1 DEF SpillCount, ReadCount, mapVars
<1>5. InterCount'
  BY <1>1 DEF InterCount
<1>6. \A kv \in Pair :
         Left(heap', kv) + Occurrences(out', kv) = Left(heap, kv) + Occurrences(out, kv)
  BY PopCounts DEF PipelineInv
<1>7. MergeCount'
  <2>1. \A kv \in Pair : Merging(kv)' = Merging(kv)
    BY <1>6 DEF Merging
  <2> QED  BY <1>1, <2>1 DEF MergeCount
<1>8. SortCount'
  <2>1. ASSUME NEW kv \in Pair
        PROVE  Sorting(kv)' = Sorting(kv)
    <3>1. /\ Left(inputs, kv) \in Nat /\ Left(temps, kv) \in Nat /\ Left(heap, kv) \in Nat
          /\ Occurrences(out, kv) \in Nat
      BY LeftTyped, OccTyped DEF PipelineInv, FilesInv, MergeInv, SortedRuns
    <3>2. MergeInv'
      BY PopKeeps DEF PipelineInv
    <3>3. Left(heap', kv) \in Nat /\ Occurrences(out', kv) \in Nat
      BY <3>2, LeftTyped, OccTyped DEF MergeInv, SortedRuns
    <3> DEFINE left == Left(inputs, kv) + Left(temps, kv)
    <3>4. /\ left + Left(heap, kv) + Occurrences(out, kv)
               = left + (Left(heap, kv) + Occurrences(out, kv))
          /\ left + Left(heap', kv) + Occurrences(out', kv)
               = left + (Left(heap', kv) + Occurrences(out', kv))
      BY ONLY <3>1, <3>3
    <3> HIDE DEF left
    <3>5. left + Left(heap', kv) + Occurrences(out', kv)
            = left + Left(heap, kv) + Occurrences(out, kv)
      BY <1>6, <3>4
    <3> QED  BY <1>1, <3>5 DEF left, Sorting, sortVars
  <2> QED  BY <1>1, <2>1 DEF SortCount, sortVars
<1> QED  BY <1>3, <1>4, <1>5, <1>7, <1>8

\* A partition that is written is where the index says; the others stay where
\* they are.
WithPart(x, o) ==
    [data |-> x.data \o o,
     index |-> Append(x.index, <<Len(x.data), Len(x.data) + Len(o)>>)]

LEMMA SliceGrows ==
    ASSUME NEW x \in InterFile, NEW o \in Seq(ShortPair)
    PROVE  /\ Len(x.index) \in Nat /\ Len(WithPart(x, o).index) = Len(x.index) + 1
           /\ \A k \in 1..Len(x.index) : Slice(WithPart(x, o), k) = Slice(x, k)
           /\ Slice(WithPart(x, o), Len(x.index) + 1) = o
<1> DEFINE y == WithPart(x, o)
           xd == x.data
           xi == x.index
           n == Len(xi)
           start == Len(xd)
           e == <<start, start + Len(o)>>
           d == xd \o o
           ix == Append(xi, e)
<1>1. /\ xd \in Seq(ShortPair) /\ xi \in Seq(Nat \X Nat)
      /\ start \in Nat /\ Len(o) \in Nat /\ n \in Nat
  BY LenProperties DEF InterFile
<1>2. \A k \in 1..n : xi[k][2] <= start
  BY DEF InterFile
<1>a. y.data = d /\ y.index = ix
  BY DEF WithPart
<1> HIDE DEF xd, xi, y
<1>3. \A k \in 1..n : xi[k][1] \in Nat /\ xi[k][2] \in Nat
  <2>1. \A k \in 1..n : xi[k] \in Nat \X Nat
    BY <1>1, ElementOfSeq
  <2> QED  BY <2>1
<1>4. e \in Nat \X Nat /\ e[1] = start /\ e[2] = start + Len(o)
  BY <1>1
<1> HIDE DEF e
<1>5. Len(ix) = n + 1 /\ ix[n + 1] = e /\ \A k \in 1..n : ix[k] = xi[k]
  BY <1>1, <1>4, AppendProperties
<1>6. SubSeq(d, start + 1, start + Len(o)) = o
  BY <1>1, SubSeqOfConcat
<1>7. \A p, q \in Nat : q <= start => SubSeq(d, p + 1, q) = SubSeq(xd, p + 1, q)
  BY <1>1, SubSeqOfConcat
<1> HIDE DEF d, ix, n, start
<1>8. ASSUME NEW k \in 1..n
      PROVE  Slice(y, k) = Slice(x, k)
  <2> DEFINE a == xi[k][1]
             b == xi[k][2]
  <2>1. a \in Nat /\ b \in Nat /\ b <= start
    BY <1>2, <1>3
  <2>2. Slice(y, k) = SubSeq(d, a + 1, b) /\ Slice(x, k) = SubSeq(xd, a + 1, b)
    BY <1>5, <1>a DEF Slice, xd, xi
  <2> HIDE DEF a, b
  <2>3. SubSeq(d, a + 1, b) = SubSeq(xd, a + 1, b)
    BY ONLY <1>7, <2>1
  <2> QED  BY <2>2, <2>3
<1>9. Slice(y, n + 1) = o
  BY <1>4, <1>5, <1>6, <1>a DEF Slice
<1> QED  BY <1>1, <1>5, <1>8, <1>9, <1>a DEF n, xi, y

LEMMA PartitionDoneRecords ==
    ASSUME PipelineAssumption, PipelineInv, RecordsInv, PartitionDone, PipelineInv'
    PROVE  RecordsInv'
<1> USE DEF RecordsInv
<1> DEFINE x == inter[now]
           r == Len(x.index)
           y == WithPart(x, out)
<1>1. /\ at = "merge" /\ Exhausted /\ inter' = [inter EXCEPT ![now] = y] /\ out' = <<>>
      /\ heap' = IF r + 1 \in Reducer THEN SpillScanners(r + 1) ELSE <<>>
      /\ UNCHANGED <<file, isText, chunks, mapVars, sortVars, result>>
  BY DEF PartitionDone, WithPart
<1>2. IF r + 1 \in Reducer THEN UNCHANGED <<at, now>>
      ELSE IF now < Len(chunks) THEN at' = "scan" /\ now' = now + 1
      ELSE at' = "fetch" /\ now' = 0
  BY DEF PartitionDone
<1>3. /\ now \in 1..Len(chunks) /\ Len(inter) = now /\ Len(chunks) \in Nat
      /\ inter \in Seq(InterFile) /\ x \in InterFile /\ out \in Seq(ShortPair)
  <2>1. now \in 1..Len(chunks) /\ Len(inter) = now
    BY <1>1 DEF PipelineInv, Progress
  <2>2. Len(chunks) \in Nat /\ inter \in Seq(InterFile) /\ out \in Seq(ShortPair)
    BY LenProperties DEF PipelineInv, FileInv, FilesInv, MergeInv
  <2>3. now \in 1..Len(inter)
    BY <2>1, <2>2
  <2> QED  BY <2>1, <2>2, <2>3, ElementOfSeq
<1> DEFINE Sliced == /\ r \in Nat /\ Len(y.index) = r + 1
                     /\ \A k \in 1..r : Slice(y, k) = Slice(x, k)
                     /\ Slice(y, r + 1) = out
<1>4. Sliced
  <2> HIDE DEF x
  <2> QED  BY <1>3, SliceGrows
<1> HIDE DEF y, r, x
<1>5. Len(inter') = now /\ \A t \in 1..now : inter'[t] = IF t = now THEN y ELSE inter[t]
  <2> DEFINE n == Len(inter)
  <2>1. inter \in [1..n -> InterFile] /\ n \in Nat /\ now \in 1..n /\ n = now
    BY <1>3
  <2> HIDE DEF n
  <2>2. inter' = [t \in 1..n |-> IF t = now THEN y ELSE inter[t]]
    BY <1>1, <2>1
  <2>3. inter' \in Seq({inter'[t] : t \in 1..n}) /\ Len(inter') = n
    BY <2>1, <2>2
  <2> QED  BY <2>1, <2>2, <2>3
<1>6. ASSUME NEW kv \in Pair
      PROVE  LET there == Occurrences(out, kv)
                 given == Share(Mapped(chunks[now]), r, kv)
             IN there <= given /\ (there = given \/ CutOff(chunks[now], kv))
  <2>1. LET there == Left(heap, kv) + Occurrences(out, kv)
            given == Share(Mapped(chunks[now]), r, kv)
        IN there <= given /\ (there = given \/ CutOff(chunks[now], kv))
    BY <1>1 DEF MergeCount, Merging, r, x
  <2>2. Left(heap, kv) = 0
    BY <1>1, ExhaustedLeft DEF PipelineInv
  <2>3. Occurrences(out, kv) \in Nat
    BY <1>3, OccTyped
  <2> QED  BY <2>1, <2>2, <2>3
<1>7. InterCount'
  <2> SUFFICES ASSUME NEW t \in 1..now, NEW k \in 1..Len(inter'[t].index), NEW kv \in Pair
               PROVE  LET there == Occurrences(Slice(inter'[t], k), kv)
                          given == Share(Mapped(chunks[t]), k - 1, kv)
                      IN there <= given /\ (there = given \/ CutOff(chunks[t], kv))
    BY <1>1, <1>5 DEF InterCount
  <2>1. CASE t = now
    <3>1. inter'[t] = y /\ k \in 1..r + 1
      BY <1>4, <1>5, <2>1
    <3>2. CASE k = r + 1
      <4>1. k - 1 = r
        BY <1>4, <3>2
      <4> QED  BY <1>4, <1>6, <2>1, <3>1, <3>2, <4>1
    <3>3. CASE k # r + 1
      <4>1. k \in 1..r
        BY <1>4, <3>1, <3>3
      <4>2. LET there == Occurrences(Slice(x, k), kv)
                given == Share(Mapped(chunks[now]), k - 1, kv)
            IN there <= given /\ (there = given \/ CutOff(chunks[now], kv))
        BY <1>3, <4>1 DEF InterCount, x, r
      <4> QED  BY <1>4, <2>1, <3>1, <4>1, <4>2
    <3> QED  BY <3>2, <3>3
  <2>2. CASE t # now
    <3>1. inter'[t] = inter[t] /\ t \in 1..Len(inter)
      BY <1>3, <1>5, <2>2
    <3> QED  BY <3>1 DEF InterCount
  <2> QED  BY <2>1, <2>2
<1>8. pairs = <<>> /\ fetched = {} /\ inputs = <<>> /\ temps = <<>>
  BY <1>1 DEF Stages
<1>9. CASE r + 1 \in Reducer
  <2>1. at' = "merge" /\ now' = now /\ heap' = SpillScanners(r + 1)
    BY <1>1, <1>2, <1>9
  <2>2. Quiet' /\ Stages' /\ SpillCount' /\ ReadCount' /\ SortCount'
    BY <1>1, <1>8, <2>1 DEF Quiet, Stages, SpillCount, ReadCount, SortCount, mapVars, sortVars
  <2>3. MergeCount'
    <3>1. ASSUME NEW kv \in Pair
          PROVE  LET read == Left(SpillScanners(r + 1), kv) + Occurrences(<<>>, kv)
                     given == Share(Mapped(chunks[now]), r + 1, kv)
                 IN read <= given /\ (read = given \/ CutOff(chunks[now], kv))
      BY <1>1, <1>8, <1>9, MergeCountBegins DEF PipelineInv
    <3>2. Len(inter'[now].index) = r + 1
      BY <1>3, <1>4, <1>5
    <3> QED  BY <1>1, <2>1, <3>1, <3>2 DEF MergeCount, Merging
  <2> QED  BY <1>7, <2>2, <2>3
<1>10. CASE ~(r + 1 \in Reducer)
  <2>1. at' \in {"scan", "fetch"} /\ heap' = <<>> /\ out' = <<>>
    BY <1>1, <1>2, <1>10
  <2>2. fetched' = {} /\ inputs' = <<>> /\ temps' = <<>>
    BY <1>1, <1>8 DEF sortVars
  <2>3. Quiet' /\ Stages' /\ SpillCount' /\ ReadCount' /\ MergeCount'
    BY <2>1, <2>2 DEF Quiet, Stages, SpillCount, ReadCount, MergeCount
  <2>4. SortCount'
    BY <2>1, <2>2, FetchBegins DEF PipelineInv
  <2> QED  BY <1>7, <2>3, <2>4
<1> QED  BY <1>9, <1>10

\* What a reducer fetches of a map task has the task's records of its partition.
LEMMA FetchRecords ==
    ASSUME PipelineAssumption, PipelineInv, RecordsInv, Fetch
    PROVE  RecordsInv'
<1> USE DEF RecordsInv
<1>1. PICK t \in (1..Len(chunks)) \ fetched :
         /\ fetched' = fetched \cup {t}
         /\ \/ inputs' = Append(inputs, PartitionOf(t, now))
            \/ PartitionOf(t, now) = <<>> /\ inputs' = inputs
  BY DEF Fetch
<1>2. /\ at = "fetch"
      /\ UNCHANGED <<file, isText, chunks, at, now, mapVars, inter, mergeVars, temps, result>>
  BY DEF Fetch
<1> DEFINE k == now + 1
           p == Slice(inter[t], k)
<1>3. /\ now \in Reducer /\ t \in 1..Len(inter) /\ k \in 1..Len(inter[t].index) /\ k - 1 = now
      /\ inter[t] \in InterFile /\ chunks \in Seq(Seq(Byte)) /\ inputs \in Seq(Seq(ShortPair))
  <2>1. now \in Reducer /\ t \in 1..Len(inter) /\ Len(inter[t].index) = NumReducers
    BY <1>2 DEF PipelineInv, Progress
  <2>2. k \in 1..NumReducers /\ k - 1 = now
    BY <2>1 DEF Reducer, PipelineAssumption
  <2>3. inter[t] \in InterFile
    BY <2>1, ElementOfSeq DEF PipelineInv, FilesInv
  <2> QED  BY <2>1, <2>2, <2>3 DEF PipelineInv, FileInv, FilesInv, SortedRuns
<1>4. PartitionOf(t, now) = p
  BY DEF PartitionOf, Slice
<1> HIDE DEF k
<1>5. p \in Seq(ShortPair)
  <2> DEFINE x == inter[t]
  <2> HIDE DEF x
  <2>1. x \in InterFile /\ k \in 1..Len(x.index)
    BY <1>3 DEF x
  <2>2. Slice(x, k) \in Seq(ShortPair)
    BY <2>1, PartitionOfSorted DEF Slice
  <2> QED  BY <2>2 DEF x
<1>6. ASSUME NEW kv \in Pair
      PROVE  LET there == Occurrences(p, kv)
                 given == Share(Mapped(chunks[t]), now, kv)
             IN there <= given /\ (there = given \/ CutOff(chunks[t], kv))
  BY <1>3 DEF InterCount
<1> HIDE DEF p
<1>7. \A kv \in Pair : Left(inputs', kv) = Left(inputs, kv) + Occurrences(p, kv)
  <2> SUFFICES ASSUME NEW kv \in Pair
               PROVE  Left(inputs', kv) = Left(inputs, kv) + Occurrences(p, kv)
    OBVIOUS
  <2>1. CASE inputs' = Append(inputs, p)
    BY <1>3, <1>5, <2>1, LeftAppend
  <2>2. CASE p = <<>> /\ inputs' = inputs
    <3>1. Occurrences(p, kv) = 0 /\ Left(inputs, kv) \in Nat
      BY <1>3, <2>2, OccNone, LeftTyped
    <3> QED  BY <2>2, <3>1
  <2> QED  BY <1>1, <1>4, <2>1, <2>2
<1>8. Quiet' /\ Stages'
  BY <1>2 DEF Quiet, Stages, mergeVars
<1>9. SpillCount' /\ ReadCount' /\ MergeCount'
  BY <1>2 DEF SpillCount, ReadCount, MergeCount
<1>10. InterCount'
  BY <1>2 DEF InterCount
<1>11. ASSUME NEW kv \in Pair
       PROVE  LET given == Share(Gathered(chunks, fetched'), now, kv)
              IN /\ Sorting(kv)' <= given
                 /\ Sorting(kv)' = given \/ Lost(chunks, fetched', kv)
  <2> DEFINE a == Left(inputs, kv)
             b == Left(temps, kv)
             c == Left(heap, kv)
             d == Occurrences(out, kv)
             e == Occurrences(p, kv)
             f == Share(Gathered(chunks, fetched), now, kv)
             g == Share(Mapped(chunks[t]), now, kv)
  <2>1. a + b + c + d <= f /\ (a + b + c + d = f \/ Lost(chunks, fetched, kv))
    BY <1>2 DEF SortCount, Sorting
  <2>2. a \in Nat /\ b \in Nat /\ c \in Nat /\ d \in Nat /\ e \in Nat
    BY <1>5, LeftTyped, OccTyped DEF PipelineInv, FilesInv, MergeInv, SortedRuns
  <2>3. Share(Gathered(chunks, fetched'), now, kv) = f + g
    <3>1. t \in 1..Len(chunks) /\ t \notin fetched
      OBVIOUS
    <3>2. chunks \in Seq(Seq(Byte))
      BY <1>3
    <3> HIDE DEF f, g
    <3>3. Share(Gathered(chunks, fetched \cup {t}), now, kv)
            = Share(Gathered(chunks, fetched), now, kv) + Share(Mapped(chunks[t]), now, kv)
      BY ONLY PipelineAssumption, <3>1, <3>2, TakenMore
    <3> QED  BY <1>1, <3>3 DEF f, g
  <2>4. Left(inputs', kv) = a + e
    BY <1>7
  <2>5. e <= g /\ (e = g \/ CutOff(chunks[t], kv))
    BY <1>6
  <2>6. Mapped(chunks[t]) \in Seq(Pair)
    <3>1. chunks[t] \in Seq(Byte)
      BY <1>3, ElementOfSeq
    <3> QED  BY <3>1, MapTyped
  <2>7. e = g \/ (kv \in Range(Mapped(chunks[t])) /\ CutOff(chunks[t], kv))
    <3> DEFINE m == Mapped(chunks[t])
    <3>1. g = 0 \/ Occurrences(m, kv) # 0
      BY DEF Share
    <3>2. e # g => g # 0
      <4>1. g \in Nat
        BY <2>6, ShareTyped
      <4> HIDE DEF e, g
      <4> QED  BY <2>2, <2>5, <4>1
    <3>3. Occurrences(m, kv) # 0 => kv \in Range(m)
      <4> HIDE DEF m
      <4>1. m \in Seq(Pair)
        BY <2>6 DEF m
      <4>2. DOMAIN m = 1..Len(m)
        BY <4>1, LenProperties
      <4> QED  BY <4>1, <4>2, OccThere DEF Range
    <3> HIDE DEF e, g
    <3>4. CASE e = g
      BY <3>4
    <3>5. CASE e # g
      <4>1. kv \in Range(m)
        BY <3>1, <3>2, <3>3, <3>5
      <4>2. CutOff(chunks[t], kv)
        BY <2>5, <3>5
      <4> QED  BY <4>1, <4>2
    <3> QED  BY <3>4, <3>5
  <2>8. Lost(chunks, fetched, kv) => Lost(chunks, fetched', kv)
    BY <1>1 DEF Lost
  <2>9. kv \in Range(Mapped(chunks[t])) /\ CutOff(chunks[t], kv) => Lost(chunks, fetched', kv)
    BY <1>1 DEF Lost
  <2>10. Sorting(kv)' = (a + e) + b + c + d
    BY <1>2, <2>4 DEF Sorting, mergeVars
  <2>11. f \in Nat /\ g \in Nat
    <3>1. g \in Nat
      BY <2>6, ShareTyped
    <3>2. Taken(chunks, fetched) \in Seq(Seq(Pair))
      BY <1>3, TakenTyped
    <3>3. Gathered(chunks, fetched) \in Seq(Pair)
      BY <3>2, FlattenTyped DEF Gathered
    <3> QED  BY <3>1, <3>3, ShareTyped
  <2> HIDE DEF a, b, c, d, e, f, g
  <2>12. (a + e) + b + c + d = (a + b + c + d) + e /\ a + b + c + d \in Nat
    BY ONLY <2>2
  <2> QED  BY <2>1, <2>2, <2>3, <2>5, <2>7, <2>8, <2>9, <2>10, <2>11, <2>12
<1>12. SortCount'
  BY <1>2, <1>11 DEF SortCount
<1> QED  BY <1>8, <1>9, <1>10, <1>12

LEMMA FetchDoneRecords ==
    ASSUME PipelineAssumption, PipelineInv, RecordsInv, FetchDone
    PROVE  RecordsInv'
<1> USE DEF RecordsInv
<1>1. /\ at = "fetch" /\ at' = "sort" /\ fetched = 1..Len(chunks)
      /\ UNCHANGED <<file, isText, chunks, now, mapVars, inter, mergeVars, sortVars, result>>
  BY DEF FetchDone
<1>2. Quiet' /\ Stages'
  BY <1>1 DEF Quiet, Stages, mergeVars, sortVars
<1>3. SpillCount' /\ ReadCount' /\ MergeCount' /\ InterCount'
  BY <1>1 DEF SpillCount, ReadCount, MergeCount, InterCount
<1>4. SortCount'
  BY <1>1 DEF SortCount, Sorting, mergeVars, sortVars
<1> QED  BY <1>2, <1>3, <1>4

\* A batch is taken from the inputs.
LEMMA StartBatchRecords ==
    ASSUME PipelineAssumption, PipelineInv, RecordsInv, StartBatch
    PROVE  RecordsInv'
<1> USE DEF RecordsInv
<1> DEFINE n == IF Len(inputs) < BatchSize THEN Len(inputs) ELSE BatchSize
           first == SubSeq(inputs, 1, n)
           rest == SubSeq(inputs, n + 1, Len(inputs))
<1>1. /\ at = "sort" /\ out' = <<>> /\ heap' = MapSeq(first, Readable) /\ inputs' = rest
      /\ at' = IF Len(inputs) <= BatchSize /\ temps = <<>> THEN "last" ELSE "batch"
      /\ UNCHANGED <<file, isText, chunks, now, mapVars, inter, temps, fetched, result>>
  BY DEF StartBatch
<1>2. inputs \in Seq(Seq(ShortPair)) /\ Len(inputs) \in Nat /\ n \in Nat /\ n <= Len(inputs)
  BY LenProperties DEF PipelineInv, FilesInv, SortedRuns, PipelineAssumption
<1>3. Len(inputs) <= BatchSize => rest = <<>>
  <2>1. ASSUME Len(inputs) <= BatchSize
        PROVE  n = Len(inputs)
    BY <1>2, <2>1 DEF PipelineAssumption
  <2> HIDE DEF n
  <2>2. ASSUME n = Len(inputs)
        PROVE  rest = <<>>
    <3>1. n + 1 \in Int /\ Len(inputs) \in Int /\ Len(inputs) < n + 1
      BY <1>2, <2>2
    <3> QED  BY <3>1, SubSeqEmpty
  <2> QED  BY <2>1, <2>2
<1> HIDE DEF n
<1>4. first \in Seq(Seq(ShortPair)) /\ rest \in Seq(Seq(ShortPair)) /\ inputs = first \o rest
  BY <1>2, Parted
<1>a. heap' = first
  <2>1. SortedRuns(inputs) /\ 0 \in Nat /\ 0 + 1 = 1
    BY DEF PipelineInv, FilesInv
  <2>2. SortedRuns(SubSeq(inputs, 0 + 1, n))
    BY ONLY <1>2, <2>1, RunsPart
  <2> QED  BY <1>1, <2>1, <2>2, RunsReadable
<1> HIDE DEF first, rest
<1>5. heap = <<>> /\ out = <<>>
  BY <1>1 DEF Quiet
<1>6. Quiet' /\ Stages'
  BY <1>1, <1>3 DEF Quiet, Stages
<1>7. SpillCount' /\ ReadCount' /\ MergeCount' /\ InterCount'
  BY <1>1 DEF SpillCount, ReadCount, MergeCount, InterCount
<1>8. ASSUME NEW kv \in Pair
      PROVE  Sorting(kv)' = Sorting(kv)
  <2> DEFINE a == Left(first, kv)
             b == Left(rest, kv)
             c == Left(temps, kv)
  <2>1. Left(heap, kv) = 0 /\ Occurrences(out, kv) = 0 /\ Occurrences(out', kv) = 0
    BY <1>1, <1>5, LeftNone, OccNone
  <2>2. Left(inputs, kv) = a + b
    BY <1>4, LeftConcat
  <2>3. a \in Nat /\ b \in Nat /\ c \in Nat
    BY <1>4, LeftTyped DEF PipelineInv, FilesInv, SortedRuns
  <2>4. Sorting(kv)' = b + c + a + 0
    BY <1>1, <1>a, <2>1 DEF Sorting
  <2>5. Sorting(kv) = (a + b) + c + 0 + 0
    BY <2>1, <2>2 DEF Sorting
  <2> HIDE DEF a, b, c
  <2>6. (a + b) + c + 0 + 0 = b + c + a + 0
    BY ONLY <2>3
  <2> QED  BY <2>4, <2>5, <2>6
<1>9. SortCount'
  BY <1>1, <1>8 DEF SortCount
<1> QED  BY <1>6, <1>7, <1>9

LEMMA BatchDoneRecords ==
    ASSUME PipelineAssumption, PipelineInv, RecordsInv, BatchDone
    PROVE  RecordsInv'
<1> USE DEF RecordsInv
<1>1. /\ at = "batch" /\ Exhausted /\ at' = "sort" /\ heap' = <<>> /\ out' = <<>>
      /\ temps' = Append(temps, out)
      /\ UNCHANGED <<file, isText, chunks, now, mapVars, inter, inputs, fetched, result>>
  BY DEF BatchDone
<1>2. Quiet' /\ Stages'
  BY <1>1 DEF Quiet, Stages
<1>3. SpillCount' /\ ReadCount' /\ MergeCount' /\ InterCount'
  BY <1>1 DEF SpillCount, ReadCount, MergeCount, InterCount
<1>4. ASSUME NEW kv \in Pair
      PROVE  Sorting(kv)' = Sorting(kv)
  <2> DEFINE a == Left(inputs, kv)
             b == Left(temps, kv)
             c == Occurrences(out, kv)
  <2>1. Left(heap, kv) = 0 /\ Left(heap', kv) = 0 /\ Occurrences(out', kv) = 0
    BY <1>1, ExhaustedLeft, LeftNone, OccNone DEF PipelineInv
  <2>2. Left(temps', kv) = b + c
    BY <1>1, LeftAppend DEF PipelineInv, FilesInv, MergeInv, SortedRuns
  <2>3. a \in Nat /\ b \in Nat /\ c \in Nat
    BY LeftTyped, OccTyped DEF PipelineInv, FilesInv, MergeInv, SortedRuns
  <2>4. Sorting(kv)' = a + (b + c) + 0 + 0
    BY <1>1, <2>1, <2>2 DEF Sorting
  <2>5. Sorting(kv) = a + b + 0 + c
    BY <2>1 DEF Sorting
  <2> HIDE DEF a, b, c
  <2>6. a + (b + c) + 0 + 0 = a + b + 0 + c
    BY ONLY <2>3
  <2> QED  BY <2>4, <2>5, <2>6
<1>5. SortCount'
  BY <1>1, <1>4 DEF SortCount
<1> QED  BY <1>2, <1>3, <1>5

LEMMA NextLevelRecords ==
    ASSUME PipelineAssumption, PipelineInv, RecordsInv, NextLevel
    PROVE  RecordsInv'
<1> USE DEF RecordsInv
<1>1. /\ at = "sort" /\ inputs = <<>> /\ inputs' = temps /\ temps' = <<>>
      /\ UNCHANGED <<file, isText, chunks, at, now, mapVars, inter, mergeVars, fetched, result>>
  BY DEF NextLevel
<1>2. Quiet' /\ Stages'
  BY <1>1 DEF Quiet, Stages, mergeVars
<1>3. SpillCount' /\ ReadCount' /\ MergeCount' /\ InterCount'
  BY <1>1 DEF SpillCount, ReadCount, MergeCount, InterCount
<1>4. ASSUME NEW kv \in Pair
      PROVE  Sorting(kv)' = Sorting(kv)
  <2>1. Left(inputs, kv) = 0 /\ Left(temps', kv) = 0 /\ Left(temps, kv) \in Nat
    BY <1>1, LeftNone, LeftTyped DEF PipelineInv, FilesInv, SortedRuns
  <2> QED  BY <1>1, <2>1 DEF Sorting, mergeVars
<1>5. SortCount'
  BY <1>1, <1>4 DEF SortCount
<1> QED  BY <1>2, <1>3, <1>5

LEMMA ReduceRecords ==
    ASSUME PipelineAssumption, PipelineInv, RecordsInv, Reduce, FileInv'
    PROVE  RecordsInv'
<1> USE DEF RecordsInv
<1>1. /\ at = "last" /\ heap' = <<>> /\ out' = <<>> /\ fetched' = {}
      /\ at' \in {"fetch", "done"}
      /\ UNCHANGED <<file, isText, chunks, mapVars, inter, inputs, temps>>
  BY DEF Reduce
<1>2. inputs' = <<>> /\ temps' = <<>>
  BY <1>1 DEF Stages
<1>3. Quiet' /\ Stages'
  BY <1>1, <1>2 DEF Quiet, Stages
<1>4. SpillCount' /\ ReadCount' /\ MergeCount' /\ InterCount'
  BY <1>1 DEF SpillCount, ReadCount, MergeCount, InterCount
<1>5. SortCount'
  BY <1>1, <1>2, FetchBegins
<1> QED  BY <1>3, <1>4, <1>5

LEMMA RecordsKeep ==
    ASSUME PipelineAssumption, PipelineInv, RecordsInv, [Next]_vars
    PROVE  RecordsInv'
<1>1. PipelineInv' /\ FileInv'
  BY NextKeeps DEF PipelineInv
<1>2. CASE UNCHANGED vars
  <2>1. Quiet' /\ Stages' /\ SpillCount' /\ ReadCount' /\ MergeCount'
    BY <1>2 DEF RecordsInv, Quiet, Stages, SpillCount, ReadCount, MergeCount, Merging,
                vars, mapVars, mergeVars, sortVars
  <2>2. InterCount' /\ SortCount'
    BY <1>2 DEF RecordsInv, InterCount, SortCount, Sorting, vars, mergeVars, sortVars
  <2> QED  BY <2>1, <2>2 DEF RecordsInv
<1> QED
  BY <1>1, <1>2, CutRecords, ScanRecords, SpillRecords, StartMergeRecords, PopRecords,
     PartitionDoneRecords, FetchRecords, FetchDoneRecords, StartBatchRecords,
     BatchDoneRecords, NextLevelRecords, ReduceRecords DEF Next

\* What the invariant says of a sorted file.
LEMMA SortedHasAll ==
    ASSUME PipelineAssumption, PipelineInv, RecordsInv, at = "last", Exhausted, NEW kv \in Pair
    PROVE  LET given == Share(FlattenSeq(MapSeq(chunks, Mapped)), now, kv)
           IN /\ Occurrences(out, kv) <= given
              /\ Occurrences(out, kv) = given \/ Lost(chunks, 1..Len(chunks), kv)
<1>1. /\ fetched = 1..Len(chunks) /\ inputs = <<>> /\ temps = <<>>
      /\ LET given == Share(Gathered(chunks, fetched), now, kv)
         IN /\ Sorting(kv) <= given
            /\ Sorting(kv) = given \/ Lost(chunks, fetched, kv)
  BY DEF RecordsInv, Stages, SortCount
<1>2. Left(inputs, kv) = 0 /\ Left(temps, kv) = 0 /\ Left(heap, kv) = 0
  BY <1>1, LeftNone, ExhaustedLeft DEF PipelineInv
<1>3. Occurrences(out, kv) \in Nat
  BY OccTyped DEF PipelineInv, MergeInv
<1>4. Taken(chunks, 1..Len(chunks)) = MapSeq(chunks, Mapped)
  <2>1. DOMAIN chunks = 1..Len(chunks)
    BY LenProperties DEF PipelineInv, FileInv
  <2> QED  BY <2>1 DEF Taken, MapSeq
<1>5. Sorting(kv) = Occurrences(out, kv)
  BY <1>2, <1>3 DEF Sorting
<1> QED  BY <1>1, <1>4, <1>5 DEF Gathered
-----------------------------------------------------------------------------
(* The keys of a job's results.                                            *)

\* One record more: a line of its own, or its value at the end of the last line.
Grouped(m, e) ==
    IF m = <<>> \/ Key(Last(m)) # Key(e) THEN Append(m, e)
    ELSE [m EXCEPT ![Len(m)] = <<Key(e), Value(@) \o <<Comma>> \o Value(e)>>]

\* What that does to the keys of the lines.
NewLine(M, m, e) ==
    /\ m = <<>> \/ Key(m[Len(m)]) # Key(e)
    /\ Len(M) = Len(m) + 1 /\ Key(M[Len(m) + 1]) = Key(e)
    /\ \A k \in 1..Len(m) : Key(M[k]) = Key(m[k])

SameLine(M, m, e) ==
    /\ m # <<>> /\ Key(m[Len(m)]) = Key(e)
    /\ Len(M) = Len(m) /\ \A k \in 1..Len(m) : Key(M[k]) = Key(m[k])

LEMMA GroupedKeys ==
    ASSUME PipelineAssumption, NEW m \in Seq(Pair), NEW e \in Pair
    PROVE  /\ Grouped(m, e) \in Seq(Pair)
           /\ NewLine(Grouped(m, e), m, e) \/ SameLine(Grouped(m, e), m, e)
<1> DEFINE n == Len(m)
           M == Grouped(m, e)
<1>1. n \in Nat /\ (m # <<>> => n \in 1..n) /\ \A k \in 1..n : m[k] \in Pair
  BY EmptySeq, LenProperties, ElementOfSeq
<1>2. CASE m = <<>> \/ Key(m[n]) # Key(e)
  <2>1. M = Append(m, e)
    BY <1>2 DEF Grouped, Last
  <2>2. /\ Append(m, e) \in Seq(Pair) /\ Len(Append(m, e)) = n + 1 /\ Append(m, e)[n + 1] = e
        /\ \A k \in 1..n : Append(m, e)[k] = m[k]
    BY AppendProperties
  <2> HIDE DEF M
  <2> QED  BY <1>2, <2>1, <2>2 DEF M, NewLine
<1>3. CASE ~(m = <<>> \/ Key(m[n]) # Key(e))
  <2> DEFINE v == Value(m[n]) \o <<Comma>> \o Value(e)
             l == <<Key(e), v>>
  <2>1. l \in Pair
    <3>1. m[n] \in Pair
      BY <1>1, <1>3
    <3>2. Value(m[n]) \in Seq(Byte) /\ Value(e) \in Seq(Byte) /\ <<Comma>> \in Seq(Byte)
      BY <3>1 DEF Pair, Value, PipelineAssumption
    <3> DEFINE a == Value(m[n])
               b == Value(e)
               c == <<Comma>>
    <3> HIDE DEF a, b, c
    <3>3. (a \o c) \o b \in Seq(Byte)
      <4>1. a \o c \in Seq(Byte)
        BY <3>2, ConcatProperties DEF a, c
      <4> QED  BY <3>2, <4>1, ConcatProperties DEF b
    <3>4. v \in Seq(Byte)
      BY <3>3 DEF a, b, c
    <3> HIDE DEF v
    <3> QED  BY <3>4 DEF Pair, Key
  <2>2. M = [m EXCEPT ![n] = l]
    BY <1>3 DEF Grouped, Last
  <2>3. Key(l) = Key(e)
    BY DEF Key
  <2> HIDE DEF l, M
  <2>4. M \in Seq(Pair) /\ Len(M) = n /\ \A k \in 1..n : M[k] = IF k = n THEN l ELSE m[k]
    BY <1>1, <1>3, <2>1, <2>2, ExceptSeq
  <2> QED  BY <1>3, <2>3, <2>4 DEF M, SameLine
<1> QED  BY <1>2, <1>3

\* What Merged has after each record.
Merges(g, s) ==
    /\ g[0] = <<>>
    /\ \A i \in 1..Len(s) : g[i] = Grouped(g[i - 1], s[i])
    /\ Merged(s) = g[Len(s)]

LEMMA MergedSteps ==
    ASSUME PipelineAssumption, NEW s \in Seq(Pair)
    PROVE  \E g \in [0..Len(s) -> Seq(Pair)] : Merges(g, s)
<1> DEFINE m == Len(s)
           step == [i \in 1..m |-> [p \in Seq(Pair) |-> Grouped(p, s[i])]]
<1>1. m \in Nat /\ (\A i \in 1..m : s[i] \in Pair) /\ <<>> \in Seq(Pair)
  BY LenProperties, ElementOfSeq
<1>2. \A i \in 1..m, p \in Seq(Pair) : Grouped(p, s[i]) \in Seq(Pair)
  BY <1>1, GroupedKeys
<1> HIDE DEF m
<1>3. Recursion(Seq(Pair), m, <<>>, step)
  BY <1>1, <1>2 DEF Recursion
<1>4. \A i \in 1..m, p \in Seq(Pair) : step[i][p] = Grouped(p, s[i])
  OBVIOUS
<1> HIDE DEF step
<1>5. PICK g : /\ g \in [0..m -> Seq(Pair)]
               /\ g[0] = <<>> /\ \A i \in 1..m : g[i] = step[i][g[i - 1]]
  BY <1>3, RecursionExists
<1>6. ASSUME NEW i \in 1..m
      PROVE  g[i] = Grouped(g[i - 1], s[i])
  <2>1. i - 1 \in 0..m
    BY <1>1
  <2>2. g[i - 1] \in Seq(Pair)
    BY <1>5, <2>1
  <2> QED  BY <1>4, <1>5, <2>2
<1> DEFINE F(f) == [i \in 0..m |-> IF i = 0 THEN <<>> ELSE Grouped(f[i - 1], s[i])]
           c == CHOOSE f : f = F(f)
<1>7. ASSUME NEW i \in 0..m
      PROVE  g[i] = F(g)[i]
  <2>1. i # 0 => i \in 1..m
    BY <1>1
  <2> QED  BY <1>5, <1>6, <2>1
<1>8. g = F(g)
  <2>1. DOMAIN g = 0..m /\ DOMAIN F(g) = 0..m /\ g = [i \in 0..m |-> g[i]]
    BY <1>5
  <2> QED  BY <1>7, <2>1
<1>9. c = F(c)
  <2> HIDE DEF F
  <2> QED  BY <1>8
<1>10. Merged(s) = c[m]
  BY DEF Merged, Grouped, m
<1> HIDE DEF c
<1>11. \A i \in 0..m : c[i] = F(c)[i]
  BY <1>9
<1>12. Alike(c, g, m)
  <2>1. c[0] = <<>>
    BY <1>1, <1>11
  <2>2. ASSUME NEW i \in 1..m, c[i - 1] = g[i - 1]
        PROVE  c[i] = g[i]
    <3>1. i \in 0..m /\ i # 0
      BY <1>1
    <3>2. c[i] = Grouped(c[i - 1], s[i])
      BY <1>11, <3>1
    <3> QED  BY <1>6, <2>2, <3>2
  <2> QED  BY <1>1, <1>5, <2>1, <2>2 DEF Alike
<1>13. c[m] = g[m]
  BY <1>1, <1>12, RecursionUnique
<1> QED  BY <1>5, <1>6, <1>10, <1>13 DEF Merges, m

\* Lines with each key once, in order; their keys are keys of s.
KeyLines(m, s) ==
    /\ m \in Seq(Pair)
    /\ \A k \in 1..Len(m) : \E j \in 1..Len(s) : Key(m[k]) = Key(s[j])
    /\ \A k, l \in 1..Len(m) : k < l => Key(m[k]) < Key(m[l])

\* The last line is that of the i-th record.
Top(m, s, i) == i > 0 => m # <<>> /\ Key(m[Len(m)]) = Key(s[i])

LEMMA MergesOnce ==
    ASSUME PipelineAssumption, NEW s \in Seq(Pair), KeySorted(s),
           NEW g \in [0..Len(s) -> Seq(Pair)], Merges(g, s)
    PROVE  \A i \in 0..Len(s) : KeyLines(g[i], s) /\ Top(g[i], s, i)
<1> DEFINE n == Len(s)
<1>1. /\ n \in Nat /\ DOMAIN s = 1..n
      /\ \A i \in 1..n : s[i] \in Pair /\ Key(s[i]) \in Nat
      /\ \A i, j \in 1..n : i < j => Key(s[i]) <= Key(s[j])
  <2>1. n \in Nat /\ DOMAIN s = 1..n /\ \A i \in 1..n : s[i] \in Pair
    BY LenProperties, ElementOfSeq
  <2>2. \A e \in Pair : Key(e) \in Nat
    BY DEF Pair, Key, PipelineAssumption
  <2> QED  BY <2>1, <2>2 DEF KeySorted
<1>2. g \in [0..n -> Seq(Pair)] /\ Merges(g, s)
  OBVIOUS
<1>3. /\ g[0] = <<>> /\ Merged(s) = g[n]
      /\ \A i \in 1..n : g[i] = Grouped(g[i - 1], s[i])
  BY <1>2 DEF Merges
<1> DEFINE R == {i \in 0..n : KeyLines(g[i], s) /\ Top(g[i], s, i)}
<1> USE DEF Top
<1> HIDE DEF n
<1>4. 0 \in R
  <2>1. <<>> \in Seq(Pair) /\ Len(<<>>) = 0
    OBVIOUS
  <2>2. KeyLines(<<>>, s)
    BY <2>1 DEF KeyLines
  <2> QED  BY <1>1, <1>3, <2>2
<1>5. ASSUME NEW i \in 0..n - 1, i \in R
      PROVE  i + 1 \in R
  <2> DEFINE e == s[i + 1]
             m == g[i]
             M == g[i + 1]
             q == Len(m)
  <2>1. i + 1 \in 1..n /\ (i + 1) - 1 = i /\ i \in 0..n /\ i + 1 \in 0..n
    BY <1>1
  <2>2. M = Grouped(m, e) /\ m \in Seq(Pair) /\ e \in Pair /\ Key(e) \in Nat
    BY <1>1, <1>2, <1>3, <2>1
  <2>3. KeyLines(m, s) /\ Top(m, s, i)
    BY <1>5
  <2>4. q \in Nat /\ \A k \in 1..q : Key(m[k]) \in Nat
    <3>1. q \in Nat /\ \A k \in 1..q : m[k] \in Pair
      BY <2>2, LenProperties, ElementOfSeq
    <3>2. \A x \in Pair : Key(x) \in Nat
      BY DEF Pair, Key, PipelineAssumption
    <3> QED  BY <3>1, <3>2
  \* No line so far has a key after that of the record.
  <2>5. \A k \in 1..q : Key(m[k]) <= Key(e) /\ (Key(m[q]) # Key(e) => Key(m[k]) < Key(e))
    <3>1. CASE i = 0
      <4>1. q = 0
        BY <1>3, <3>1
      <4> QED  BY <4>1
    <3>2. CASE i # 0
      <4>1. i \in 1..n /\ i < i + 1 /\ i > 0
        BY <1>1, <3>2
      <4>2. m # <<>> /\ Key(m[q]) = Key(s[i]) /\ Key(s[i]) <= Key(e)
        BY <1>1, <2>1, <2>3, <4>1
      <4>3. q \in 1..q
        BY <2>2, <2>4, <4>2, EmptySeq
      <4> SUFFICES ASSUME NEW k \in 1..q
                   PROVE  Key(m[k]) <= Key(e) /\ (Key(m[q]) # Key(e) => Key(m[k]) < Key(e))
        OBVIOUS
      <4>4. k = q \/ Key(m[k]) < Key(m[q])
        <5>1. \A a, b \in 1..q : a < b => Key(m[a]) < Key(m[b])
          BY <2>3 DEF KeyLines
        <5>2. k = q \/ k < q
          BY <2>4
        <5> HIDE DEF m, q
        <5> QED  BY ONLY <4>3, <5>1, <5>2, k \in 1..q
      <4>5. Key(m[k]) \in Nat /\ Key(m[q]) \in Nat
        BY <2>4, <4>3
      <4> HIDE DEF m, e, q
      <4> QED  BY <2>2, <4>2, <4>4, <4>5
    <3> QED  BY <3>1, <3>2
  <2> HIDE DEF M, m, e, q
  <2>6. M \in Seq(Pair)
    BY <2>2, GroupedKeys
  <2>7. CASE NewLine(M, m, e)
    <3>a. /\ m = <<>> \/ Key(m[q]) # Key(e)
          /\ Len(M) = q + 1 /\ Key(M[q + 1]) = Key(e)
          /\ \A k \in 1..q : Key(M[k]) = Key(m[k])
      BY <2>7 DEF NewLine, q
    <3>1. \A k \in 1..q : Key(m[k]) < Key(e)
      <4>1. CASE m = <<>>
        <5>1. q = 0
          BY <4>1 DEF q
        <5> QED  BY <5>1
      <4>2. CASE Key(m[q]) # Key(e)
        BY <2>5, <4>2
      <4> QED  BY <3>a, <4>1, <4>2
    <3>2. \A k \in 1..q + 1 : k = q + 1 \/ k \in 1..q
      BY <2>4
    <3>3. \A k \in 1..q + 1 : \E j \in 1..Len(s) : Key(M[k]) = Key(s[j])
      <4>1. \A k \in 1..q : \E j \in 1..Len(s) : Key(m[k]) = Key(s[j])
        BY <2>3 DEF KeyLines, q, m
      <4>2. i + 1 \in 1..Len(s) /\ Key(e) = Key(s[i + 1])
        BY <2>1 DEF e, n
      <4> QED  BY <3>a, <3>2, <4>1, <4>2
    <3>4. ASSUME NEW k \in 1..q + 1, NEW l \in 1..q + 1, k < l
          PROVE  Key(M[k]) < Key(M[l])
      <4>1. k \in 1..q
        BY <2>4, <3>4
      <4>2. CASE l = q + 1
        BY <3>a, <3>1, <4>1, <4>2
      <4>3. CASE l \in 1..q
        <5>1. Key(m[k]) < Key(m[l])
          BY <2>3, <3>4, <4>1, <4>3 DEF KeyLines, q, m
        <5> QED  BY <3>a, <4>1, <4>3, <5>1
      <4> QED  BY <3>2, <4>2, <4>3
    <3>5. KeyLines(M, s)
      BY <2>6, <3>a, <3>3, <3>4 DEF KeyLines
    <3>6. M # <<>> /\ Key(M[Len(M)]) = Key(e)
      <4>1. Len(M) # 0
        BY <2>4, <3>a
      <4> QED  BY <3>a, <4>1
    <3> QED  BY <2>1, <3>5, <3>6 DEF M, e
  <2>8. CASE SameLine(M, m, e)
    <3>a. /\ m # <<>> /\ Key(m[q]) = Key(e)
          /\ Len(M) = q /\ \A k \in 1..q : Key(M[k]) = Key(m[k])
      BY <2>8 DEF SameLine, q
    <3>1. q \in 1..q
      BY <2>2, <2>4, <3>a, EmptySeq DEF q
    <3>2. KeyLines(M, s)
      BY <2>3, <2>6, <3>a DEF KeyLines, q, m
    <3>3. M # <<>> /\ Key(M[Len(M)]) = Key(e)
      <4>1. Len(M) # 0
        BY <3>a, <3>1
      <4> QED  BY <3>a, <3>1, <4>1
    <3> QED  BY <2>1, <3>2, <3>3 DEF M, e
  <2> QED  BY <2>2, <2>7, <2>8, GroupedKeys
<1>6. 0..n \subseteq R
  <2> HIDE DEF R
  <2> QED  BY <1>1, <1>4, <1>5, SetInduction
<1> QED  BY <1>6 DEF n

LEMMA MergedOnce ==
    ASSUME PipelineAssumption, NEW s \in Seq(Pair), KeySorted(s)
    PROVE  KeyLines(Merged(s), s)
<1>1. PICK g \in [0..Len(s) -> Seq(Pair)] : Merges(g, s)
  BY MergedSteps
<1>2. Len(s) \in 0..Len(s)
  BY LenProperties
<1> QED  BY <1>1, <1>2, MergesOnce DEF Merges

\* The lines that runReduce takes have the keys of the lines of the file.
LEMMA ReducedKeys ==
    ASSUME PipelineAssumption, NEW lines \in Seq(Pair)
    PROVE  \E n \in 0..Len(lines) : /\ DOMAIN Reduced(lines) = 1..n
                                   /\ \A i \in 1..n : Key(Reduced(lines)[i]) = Key(lines[i])
<1> DEFINE ok == Readable(lines)
           n == Len(ok)
<1>1. ok \in Seq(ShortPair) /\ Before(ok, lines, LongRecords(lines)) /\ Len(lines) \in Nat
  BY ReadableBefore, LenProperties
<1>2. n \in 0..Len(lines) /\ DOMAIN ok = 1..n /\ \A i \in 1..n : ok[i] = lines[i]
  <2> HIDE DEF ok
  <2> QED  BY <1>1, LenProperties DEF Before
<1> HIDE DEF n
<1>3. Reduced(lines) = [i \in 1..n |-> <<Key(ok[i]), Split(Value(ok[i]), Comma)>>]
  BY <1>2 DEF Reduced, MapSeq
<1> HIDE DEF ok
<1>4. \A i \in 1..n : Key(Reduced(lines)[i]) = Key(lines[i])
  BY <1>2, <1>3 DEF Key
<1>5. DOMAIN Reduced(lines) = 1..n
  BY <1>3
<1> QED  BY <1>2, <1>4, <1>5

\* Each key of a result once, in order, and of the reducer's partition.
KeysOf(lines, r) ==
    /\ DOMAIN lines \subseteq Nat
    /\ \A i \in DOMAIN lines : Key(lines[i]) \in Nat /\ Partition(Key(lines[i])) = r
    /\ \A i, j \in DOMAIN lines : i < j => Key(lines[i]) < Key(lines[j])

ResultInv == \A r \in Reducer : KeysOf(result[r], r)

LEMMA ReduceResult ==
    ASSUME PipelineAssumption, PipelineInv, RecordsInv, ResultInv, Reduce
    PROVE  ResultInv'
<1> DEFINE lines == Merged(out)
           new == Reduced(lines)
<1>1. /\ at = "last" /\ Exhausted /\ result' = [result EXCEPT ![now] = new]
      /\ DOMAIN result = Reducer /\ out \in Seq(Pair) /\ KeySorted(out)
  <2>1. out \in Seq(ShortPair)
    BY DEF PipelineInv, MergeInv
  <2>2. out \in Seq(Pair) /\ Readable(out) = out
    BY <2>1, ReadableShort
  <2> QED  BY <2>2 DEF Reduce, PipelineInv, Progress, MergeInv
<1>2. ASSUME NEW j \in 1..Len(out)
      PROVE  Partition(Key(out[j])) = now /\ Key(out[j]) \in Nat
  <2> DEFINE kv == out[j]
             there == {i \in DOMAIN out : out[i] = kv}
  <2>1. kv \in Pair /\ DOMAIN out = 1..Len(out)
    BY <1>1, LenProperties, ElementOfSeq
  <2>2. there # {}
    BY <2>1
  <2>3. IsFiniteSet(there)
    BY <1>1, OccTyped
  <2> HIDE DEF kv, there
  <2>4. Cardinality(there) # 0
    BY <2>2, <2>3, FS_EmptySet
  <2>5. Occurrences(out, kv) # 0
    BY <2>4 DEF Occurrences, there
  <2>6. Occurrences(out, kv) <= Share(FlattenSeq(MapSeq(chunks, Mapped)), now, kv)
    BY <1>1, <2>1, SortedHasAll
  <2>a. Occurrences(out, kv) \in Nat
    BY <1>1, OccTyped
  <2>7. Partition(Key(kv)) = now
    <3>1. CASE Partition(Key(kv)) # now
      <4>1. Share(FlattenSeq(MapSeq(chunks, Mapped)), now, kv) = 0
        BY <3>1 DEF Share
      <4> QED  BY <2>5, <2>6, <2>a, <4>1
    <3> QED  BY <3>1
  <2>8. Key(kv) \in Nat
    BY <2>1 DEF Pair, Key, PipelineAssumption
  <2> QED  BY <2>7, <2>8 DEF kv
<1>3. KeyLines(lines, out)
  BY <1>1, MergedOnce
<1> HIDE DEF lines
<1>4. PICK n \in 0..Len(lines) : /\ DOMAIN new = 1..n
                               /\ \A i \in 1..n : Key(new[i]) = Key(lines[i])
  BY <1>3, ReducedKeys DEF KeyLines
<1>5. Len(lines) \in Nat /\ \A i \in 1..n : i \in 1..Len(lines)
  <2>1. Len(lines) \in Nat
    BY <1>3, LenProperties DEF KeyLines
  <2> QED  BY <2>1
<1> HIDE DEF new
<1>6. KeysOf(new, now)
  <2>1. DOMAIN new \subseteq Nat
    BY <1>4
  <2>2. ASSUME NEW i \in DOMAIN new
        PROVE  Key(new[i]) \in Nat /\ Partition(Key(new[i])) = now
    <3>1. i \in 1..Len(lines) /\ Key(new[i]) = Key(lines[i])
      BY <1>4, <1>5
    <3>2. PICK j \in 1..Len(out) : Key(lines[i]) = Key(out[j])
      BY <1>3, <3>1 DEF KeyLines
    <3> QED  BY <1>2, <3>1, <3>2
  <2>3. ASSUME NEW i \in DOMAIN new, NEW j \in DOMAIN new, i < j
        PROVE  Key(new[i]) < Key(new[j])
    <3>1. /\ i \in 1..Len(lines) /\ Key(new[i]) = Key(lines[i])
          /\ j \in 1..Len(lines) /\ Key(new[j]) = Key(lines[j])
      BY <1>4, <1>5
    <3>2. Key(lines[i]) < Key(lines[j])
      BY <1>3, <2>3, <3>1 DEF KeyLines
    <3> QED  BY <3>1, <3>2
  <2> QED  BY <2>1, <2>2, <2>3 DEF KeysOf
<1>7. ASSUME NEW r \in Reducer
      PROVE  KeysOf(result'[r], r)
  <2>1. CASE r = now
    BY <1>1, <1>6, <2>1
  <2>2. CASE r # now
    <3>1. result'[r] = result[r]
      BY <1>1, <2>2
    <3> QED  BY <3>1 DEF ResultInv
  <2> QED  BY <2>1, <2>2
<1> QED  BY <1>7 DEF ResultInv

LEMMA ResultKeeps ==
    ASSUME PipelineAssumption, PipelineInv, RecordsInv, ResultInv, [Next]_vars
    PROVE  ResultInv'
<1>1. CASE result' = result
  BY <1>1 DEF ResultInv
<1>2. ASSUME Next, ~Reduce
      PROVE  result' = result
  BY <1>2 DEF Next, Cut, CutDone, Scan, Spill, StartMerge, Pop, PartitionDone, Fetch, FetchDone,
              StartBatch, BatchDone, NextLevel
<1>3. CASE UNCHANGED vars
  BY <1>1, <1>3 DEF vars
<1> QED  BY <1>1, <1>2, <1>3, ReduceResult

LEMMA ResultInit ==
    ASSUME Init
    PROVE  ResultInv
<1>1. \A r \in Reducer : result[r] = <<>>
  BY DEF Init
<1>2. DOMAIN <<>> = {}
  OBVIOUS
<1>3. \A r : KeysOf(<<>>, r)
  BY <1>2 DEF KeysOf
<1> QED  BY <1>1, <1>3 DEF ResultInv
-----------------------------------------------------------------------------
(* Sequences put together from their elements.                             *)

\* A set with the empty sequence and, with a sequence, each that is one longer
\* has all sequences.
LEMMA SeqInduction ==
    ASSUME NEW T, NEW Q, <<>> \in Q, \A s \in Seq(T), e \in T : s \in Q => Append(s, e) \in Q
    PROVE  Seq(T) \subseteq Q
<1> SUFFICES ASSUME NEW u \in Seq(T) PROVE u \in Q
  OBVIOUS
<1> DEFINE n == Len(u)
           G(i) == \A s \in Seq(T) : Len(s) = i => s \in Q
           R == {i \in Nat : G(i)}
<1>1. n \in Nat
  BY LenProperties
<1>2. 0 \in R
  <2>1. \A s \in Seq(T) : Len(s) = 0 => s = <<>>
    BY EmptySeq
  <2> QED  BY <2>1
<1>3. ASSUME NEW i \in 0..n - 1, i \in R
      PROVE  i + 1 \in R
  <2> SUFFICES ASSUME NEW s \in Seq(T), Len(s) = i + 1 PROVE s \in Q
    BY <1>1
  <2>1. s # <<>>
    <3>1. Len(<<>>) = 0 /\ i + 1 # 0
      BY <1>1
    <3> QED  BY <3>1
  <2>2. \E t \in Seq(T), e \in T : s = Append(t, e)
    BY <2>1, SequenceEmptyOrAppend
  <2>3. PICK t \in Seq(T), e \in T : s = Append(t, e)
    BY <2>2
  <2>4. Len(t) \in Nat /\ Len(s) = Len(t) + 1
    BY <2>3, AppendProperties, LenProperties
  <2>5. Len(t) = i
    BY <2>4
  <2>6. t \in Q
    BY <1>3, <2>5
  <2> QED  BY <2>3, <2>6
<1>4. 0..n \subseteq R
  <2> HIDE DEF R, n
  <2> QED  BY <1>1, <1>2, <1>3, SetInduction
<1>5. n \in R
  BY <1>1, <1>4
<1> QED  BY <1>5

\* What g gives for the elements of s, one after the other.
Images(g, s) == [i \in 1..Len(s) |-> g[s[i]]]
Spread(g, s) == FlattenSeq(Images(g, s))

Gives(g, T, S) == g \in [T -> Seq(S)]

ImagesOf(l, g, s, S) ==
    l \in Seq(Seq(S)) /\ Len(l) = Len(s) /\ \A i \in 1..Len(s) : l[i] = g[s[i]]

LEMMA ImagesTyped ==
    ASSUME NEW T, NEW S, NEW g, Gives(g, T, S), NEW s \in Seq(T)
    PROVE  ImagesOf(Images(g, s), g, s, S)
<1>1. Len(s) \in Nat /\ \A i \in 1..Len(s) : s[i] \in T
  BY LenProperties, ElementOfSeq
<1>2. \A i \in 1..Len(s) : g[s[i]] \in Seq(S)
  BY <1>1 DEF Gives
<1> QED  BY <1>1, <1>2 DEF Images, ImagesOf

LEMMA SpreadTyped ==
    ASSUME NEW T, NEW S, NEW g, Gives(g, T, S), NEW s \in Seq(T)
    PROVE  Spread(g, s) \in Seq(S)
  BY ImagesTyped, FlattenTyped DEF Spread, ImagesOf

LEMMA ImagesConcat ==
    ASSUME NEW T, NEW S, NEW g, Gives(g, T, S), NEW a \in Seq(T), NEW b \in Seq(T)
    PROVE  Images(g, a \o b) = Images(g, a) \o Images(g, b)
<1> DEFINE j == a \o b
           n == Len(a)
           m == Len(b)
           x == Images(g, a)
           y == Images(g, b)
           l == Images(g, j)
<1>1. /\ n \in Nat /\ m \in Nat /\ j \in Seq(T) /\ Len(j) = n + m
      /\ \A i \in 1..n + m : j[i] = IF i <= n THEN a[i] ELSE b[i - n]
  BY LenProperties, ConcatProperties
<1> HIDE DEF j
<1>2. /\ x \in Seq(Seq(S)) /\ Len(x) = n /\ \A i \in 1..n : x[i] = g[a[i]]
      /\ y \in Seq(Seq(S)) /\ Len(y) = m /\ \A i \in 1..m : y[i] = g[b[i]]
      /\ l \in Seq(Seq(S)) /\ Len(l) = n + m /\ \A i \in 1..n + m : l[i] = g[j[i]]
  <2>1. x \in Seq(Seq(S)) /\ Len(x) = n /\ \A i \in 1..n : x[i] = g[a[i]]
    BY ImagesTyped DEF ImagesOf
  <2>2. y \in Seq(Seq(S)) /\ Len(y) = m /\ \A i \in 1..m : y[i] = g[b[i]]
    BY ImagesTyped DEF ImagesOf
  <2>3. l \in Seq(Seq(S)) /\ Len(l) = Len(j) /\ \A i \in 1..Len(j) : l[i] = g[j[i]]
    <3>1. j \in Seq(T)
      BY <1>1
    <3> QED  BY ONLY Gives(g, T, S), <3>1, ImagesTyped DEF ImagesOf
  <2> HIDE DEF x, y, l, n, m
  <2> QED  BY <1>1, <2>1, <2>2, <2>3
<1> HIDE DEF x, y, l, n, m
<1>3. /\ x \o y \in Seq(Seq(S)) /\ Len(x \o y) = n + m
      /\ \A i \in 1..n + m : (x \o y)[i] = IF i <= n THEN x[i] ELSE y[i - n]
  BY <1>2, ConcatProperties
<1>4. ASSUME NEW i \in 1..n + m
      PROVE  l[i] = (x \o y)[i]
  <2>1. CASE i <= n
    <3>1. i \in 1..n /\ j[i] = a[i]
      BY <1>1, <2>1
    <3>2. l[i] = g[a[i]] /\ x[i] = g[a[i]] /\ (x \o y)[i] = x[i]
      BY <1>2, <1>3, <2>1, <3>1
    <3> QED  BY <3>2
  <2>2. CASE ~(i <= n)
    <3>1. i - n \in 1..m /\ j[i] = b[i - n]
      BY <1>1, <2>2
    <3>2. l[i] = g[b[i - n]] /\ y[i - n] = g[b[i - n]] /\ (x \o y)[i] = y[i - n]
      BY <1>2, <1>3, <2>2, <3>1
    <3> QED  BY <3>2
  <2> QED  BY <2>1, <2>2
<1> DEFINE z == x \o y
<1>5. z \in Seq(Seq(S)) /\ Len(z) = Len(l) /\ \A i \in 1..Len(l) : l[i] = z[i]
  BY <1>2, <1>3, <1>4
<1> HIDE DEF z
<1>6. l = z
  BY <1>2, <1>5, SeqEqual
<1> QED  BY <1>6 DEF z, l, x, y, j

LEMMA SpreadConcat ==
    ASSUME NEW T, NEW S, NEW g, Gives(g, T, S), NEW a \in Seq(T), NEW b \in Seq(T)
    PROVE  Spread(g, a \o b) = Spread(g, a) \o Spread(g, b)
<1>1. Images(g, a \o b) = Images(g, a) \o Images(g, b)
  BY ImagesConcat
<1> DEFINE x == Images(g, a)
           y == Images(g, b)
<1>2. x \in Seq(Seq(S)) /\ y \in Seq(Seq(S))
  BY ImagesTyped DEF ImagesOf
<1> HIDE DEF x, y
<1>3. FlattenSeq(x \o y) = FlattenSeq(x) \o FlattenSeq(y)
  BY <1>2, FlattenConcat
<1> QED  BY <1>1, <1>3 DEF Spread, x, y

LEMMA SpreadAppend ==
    ASSUME NEW T, NEW S, NEW g, Gives(g, T, S), NEW s \in Seq(T), NEW e \in T
    PROVE  Spread(g, Append(s, e)) = Spread(g, s) \o g[e]
<1> DEFINE l == <<e>>
           d == g[e]
<1>1. l \in Seq(T) /\ d \in Seq(S) /\ Append(s, e) = s \o l /\ Len(l) = 1 /\ l[1] = e
  BY AppendIsConcat DEF Gives
<1>2. Images(g, l) = <<d>>
  <2> HIDE DEF d
  <2>1. Images(g, l) = [i \in 1..1 |-> g[l[i]]]
    BY <1>1 DEF Images
  <2>2. g[l[1]] = d
    BY DEF d
  <2> HIDE DEF l
  <2> QED  BY <2>1, <2>2
<1> HIDE DEF l, d
<1>3. Spread(g, s \o l) = Spread(g, s) \o Spread(g, l)
  BY <1>1, SpreadConcat
<1>4. FlattenSeq(<<d>>) = d
  <2>1. <<>> \in Seq(Seq(S)) /\ Append(<<>>, d) = <<d>> /\ \A i \in 1..Len(<<>>) : <<>>[i] = <<>>
    BY <1>1
  <2>2. FlattenSeq(<<>>) = <<>>
    BY <2>1, FlattenEmpty
  <2>3. FlattenSeq(Append(<<>>, d)) = FlattenSeq(<<>>) \o d
    BY <1>1, <2>1, FlattenAppend
  <2> QED  BY <1>1, <2>1, <2>2, <2>3, ConcatEmptySeq
<1> QED  BY <1>1, <1>2, <1>3, <1>4 DEF Spread, d

LEMMA SpreadNone ==
    ASSUME NEW T, NEW S, NEW g, Gives(g, T, S), NEW s \in Seq(T),
           \A i \in 1..Len(s) : g[s[i]] = <<>>
    PROVE  Spread(g, s) = <<>>
<1> DEFINE x == Images(g, s)
<1>1. ImagesOf(x, g, s, S)
  BY ImagesTyped
<1> HIDE DEF x
<1>2. x \in Seq(Seq(S)) /\ \A i \in 1..Len(x) : x[i] = <<>>
  BY <1>1 DEF ImagesOf
<1> QED  BY <1>2, FlattenEmpty DEF Spread, x


\* What g gives, counted, does not depend on the order of the elements, nor on
\* those for which it gives nothing.
AlikeFor(g, T, s, t) == \A x \in T : g[x] = <<>> \/ Occurrences(s, x) = Occurrences(t, x)

\* A sequence without its j-th element.
Without(t, j) == SubSeq(t, 1, j - 1) \o SubSeq(t, j + 1, Len(t))

LEMMA WithoutParts ==
    ASSUME NEW T, NEW t \in Seq(T), NEW j \in 1..Len(t)
    PROVE  /\ SubSeq(t, 1, j - 1) \in Seq(T) /\ SubSeq(t, j + 1, Len(t)) \in Seq(T)
           /\ t = Append(SubSeq(t, 1, j - 1), t[j]) \o SubSeq(t, j + 1, Len(t))
<1> DEFINE n == Len(t)
<1>1. n \in Nat /\ j - 1 \in Nat /\ j \in Nat /\ j <= n /\ j - 1 <= n /\ (j - 1) + 1 = j
  BY LenProperties
<1>2. /\ SubSeq(t, 1, j) \in Seq(T) /\ SubSeq(t, j + 1, n) \in Seq(T)
      /\ t = SubSeq(t, 1, j) \o SubSeq(t, j + 1, n)
  BY <1>1, Parted
<1>3. SubSeq(t, 1, j - 1) \in Seq(T)
  BY <1>1, Parted
<1>4. SubSeq(t, 1, j) = Append(SubSeq(t, 1, j - 1), t[j])
  <2> DEFINE a == SubSeq(t, 1, j - 1)
             b == Append(a, t[j])
             c == SubSeq(t, 1, j)
  <2>0. \A i \in 1..n : t[i] \in T
    BY ElementOfSeq
  <2>1. Len(a) = j - 1 /\ \A i \in 1..j - 1 : a[i] = t[i]
    BY <1>1, <2>0, SubSeqProperties
  <2>2. c \in Seq(T) /\ Len(c) = j /\ \A i \in 1..j : c[i] = t[i]
    BY <1>1, <2>0, SubSeqProperties
  <2> HIDE DEF a, c
  <2>3. /\ b \in Seq(T) /\ Len(b) = (j - 1) + 1 /\ b[(j - 1) + 1] = t[j]
        /\ \A i \in 1..j - 1 : b[i] = a[i]
    BY <1>3, <2>0, <2>1, AppendProperties DEF a
  <2> HIDE DEF b
  <2>4. \A i \in 1..j : i = j \/ i \in 1..j - 1
    BY <1>1
  <2>5. Len(c) = Len(b) /\ \A i \in 1..Len(c) : c[i] = b[i]
    BY <1>1, <2>1, <2>2, <2>3, <2>4
  <2>6. c = b
    BY <2>2, <2>3, <2>5, SeqEqual
  <2> QED  BY <2>6 DEF a, b, c
<1> QED  BY <1>2, <1>3, <1>4

LEMMA WithoutCounts ==
    ASSUME NEW T, NEW S, NEW g, Gives(g, T, S), NEW t \in Seq(T), NEW j \in 1..Len(t)
    PROVE  /\ Without(t, j) \in Seq(T)
           /\ \A x : Occurrences(t, x)
                   = Occurrences(Without(t, j), x) + IF t[j] = x THEN 1 ELSE 0
           /\ \A v : Occurrences(Spread(g, t), v)
                   = Occurrences(Spread(g, Without(t, j)), v) + Occurrences(g[t[j]], v)
<1> DEFINE a == SubSeq(t, 1, j - 1)
           b == SubSeq(t, j + 1, Len(t))
           e == t[j]
           c == Append(a, e)
<1>1. a \in Seq(T) /\ b \in Seq(T) /\ t = c \o b /\ Without(t, j) = a \o b /\ e \in T
  BY WithoutParts, ElementOfSeq DEF Without
<1> HIDE DEF a, b, e
<1>2. c \in Seq(T) /\ a \o b \in Seq(T)
  BY <1>1, AppendProperties, ConcatProperties
<1>3. ASSUME NEW x
      PROVE  Occurrences(c \o b, x) = Occurrences(a \o b, x) + IF e = x THEN 1 ELSE 0
  <2>1. Occurrences(c, x) = Occurrences(a, x) + IF e = x THEN 1 ELSE 0
    BY <1>1, OccAppend
  <2> HIDE DEF c
  <2>2. /\ Occurrences(c \o b, x) = Occurrences(c, x) + Occurrences(b, x)
        /\ Occurrences(a \o b, x) = Occurrences(a, x) + Occurrences(b, x)
    BY <1>1, <1>2, OccConcat
  <2>3. Occurrences(a, x) \in Nat /\ Occurrences(b, x) \in Nat
    BY <1>1, OccTyped
  <2> QED  BY ONLY <2>1, <2>2, <2>3
<1>4. ASSUME NEW v
      PROVE  Occurrences(Spread(g, c \o b), v)
                 = Occurrences(Spread(g, a \o b), v) + Occurrences(g[e], v)
  <2> DEFINE A == Spread(g, a)
             B == Spread(g, b)
             C == Spread(g, c)
             E == g[e]
  <2>1. C = A \o E
    BY <1>1, SpreadAppend
  <2>2. A \in Seq(S) /\ B \in Seq(S) /\ E \in Seq(S) /\ C \in Seq(S)
    BY <1>1, <1>2, SpreadTyped DEF Gives
  <2>3. Spread(g, c \o b) = C \o B /\ Spread(g, a \o b) = A \o B
    <3> HIDE DEF c
    <3> QED  BY <1>1, <1>2, SpreadConcat
  <2> HIDE DEF A, B, C, E
  <2>4. /\ Occurrences(C \o B, v) = Occurrences(C, v) + Occurrences(B, v)
        /\ Occurrences(A \o B, v) = Occurrences(A, v) + Occurrences(B, v)
        /\ Occurrences(A \o E, v) = Occurrences(A, v) + Occurrences(E, v)
    BY <2>2, OccConcat
  <2>5. Occurrences(A, v) \in Nat /\ Occurrences(B, v) \in Nat /\ Occurrences(E, v) \in Nat
    BY <2>2, OccTyped
  <2>6. Occurrences(C \o B, v) = Occurrences(A \o B, v) + Occurrences(E, v)
    BY <2>1, <2>4, <2>5
  <2> QED  BY <2>3, <2>6 DEF E
<1> HIDE DEF c
<1> QED  BY <1>1, <1>2, <1>3, <1>4 DEF e

LEMMA SpreadAlike ==
    ASSUME NEW T, NEW S, NEW g, Gives(g, T, S), NEW s \in Seq(T), NEW t \in Seq(T),
           AlikeFor(g, T, s, t), NEW v
    PROVE  Occurrences(Spread(g, s), v) = Occurrences(Spread(g, t), v)
<1> DEFINE Same(x) == \A u \in Seq(T) : AlikeFor(g, T, x, u) =>
                          Occurrences(Spread(g, x), v) = Occurrences(Spread(g, u), v)
           Q == {x \in Seq(T) : Same(x)}
<1>1. <<>> \in Q
  <2>0. <<>> \in Seq(T) /\ Len(<<>>) = 0
    OBVIOUS
  <2> SUFFICES ASSUME NEW u \in Seq(T), AlikeFor(g, T, <<>>, u)
               PROVE  Spread(g, <<>>) = Spread(g, u)
    BY <2>0
  <2>1. Spread(g, <<>>) = <<>>
    <3> DEFINE z == <<>>
    <3>1. z \in Seq(T) /\ \A i \in 1..Len(z) : g[z[i]] = <<>>
      BY <2>0
    <3> HIDE DEF z
    <3>2. Spread(g, z) = <<>>
      BY <3>1, SpreadNone
    <3> QED  BY <3>2 DEF z
  <2>2. ASSUME NEW i \in 1..Len(u)
        PROVE  g[u[i]] = <<>>
    <3>1. u[i] \in T /\ Occurrences(u, u[i]) # 0 /\ Occurrences(<<>>, u[i]) = 0
      BY ElementOfSeq, OccPositive, OccNone
    <3> QED  BY <3>1 DEF AlikeFor
  <2>3. Spread(g, u) = <<>>
    BY <2>2, SpreadNone
  <2> QED  BY <2>1, <2>3
<1>2. ASSUME NEW f \in Seq(T), NEW e \in T, f \in Q
      PROVE  Append(f, e) \in Q
  <2> DEFINE x == Append(f, e)
             E == g[e]
  <2>1. x \in Seq(T) /\ Spread(g, x) = Spread(g, f) \o E
    BY AppendProperties, SpreadAppend
  <2>2. \A y : Occurrences(x, y) = Occurrences(f, y) + IF e = y THEN 1 ELSE 0
    BY OccAppend
  <2>3. E \in Seq(S) /\ Spread(g, f) \in Seq(S)
    BY SpreadTyped DEF Gives
  <2>4. \A y : Occurrences(f, y) \in Nat
    BY OccTyped
  <2> HIDE DEF x
  <2> SUFFICES ASSUME NEW u \in Seq(T), AlikeFor(g, T, x, u)
               PROVE  Occurrences(Spread(g, x), v) = Occurrences(Spread(g, u), v)
    BY <2>1 DEF x
  <2>5. CASE E = <<>>
    <3>1. Spread(g, x) = Spread(g, f)
      BY <2>1, <2>3, <2>5, ConcatEmptySeq
    <3>2. ASSUME NEW y \in T
          PROVE  g[y] = <<>> \/ Occurrences(f, y) = Occurrences(u, y)
      <4>1. CASE y = e
        BY <2>5, <4>1
      <4>2. CASE y # e
        <5>1. Occurrences(x, y) = Occurrences(f, y)
          BY <2>2, <2>4, <4>2
        <5> QED  BY <5>1 DEF AlikeFor
      <4> QED  BY <4>1, <4>2
    <3>3. AlikeFor(g, T, f, u)
      BY <3>2 DEF AlikeFor
    <3>4. Same(f)
      BY <1>2
    <3> QED  BY <3>1, <3>3, <3>4
  <2>6. CASE E # <<>>
    <3>1. Occurrences(u, e) = Occurrences(x, e) /\ Occurrences(x, e) # 0
      <4>1. Occurrences(x, e) = Occurrences(f, e) + 1 /\ Occurrences(f, e) \in Nat
        BY <2>2, <2>4
      <4> QED  BY <2>6, <4>1 DEF AlikeFor
    <3>2. PICK j \in 1..Len(u) : u[j] = e
      BY <3>1, OccThere
    <3> DEFINE w == Without(u, j)
    <3>3. /\ w \in Seq(T)
          /\ \A y : Occurrences(u, y) = Occurrences(w, y) + IF e = y THEN 1 ELSE 0
          /\ Occurrences(Spread(g, u), v) = Occurrences(Spread(g, w), v) + Occurrences(E, v)
      BY <3>2, WithoutCounts
    <3> HIDE DEF w
    <3>4. ASSUME NEW y \in T
          PROVE  g[y] = <<>> \/ Occurrences(f, y) = Occurrences(w, y)
      <4>1. Occurrences(f, y) \in Nat /\ Occurrences(w, y) \in Nat
        BY <2>4, <3>3, OccTyped
      <4>2. g[y] = <<>> \/ Occurrences(x, y) = Occurrences(u, y)
        BY DEF AlikeFor
      <4>3. Occurrences(x, y) = Occurrences(f, y) + IF e = y THEN 1 ELSE 0
        BY <2>2
      <4>4. Occurrences(u, y) = Occurrences(w, y) + IF e = y THEN 1 ELSE 0
        BY <3>3
      <4> QED  BY ONLY <4>1, <4>2, <4>3, <4>4
    <3>5. AlikeFor(g, T, f, w)
      BY <3>4 DEF AlikeFor
    <3>6. Occurrences(Spread(g, f), v) = Occurrences(Spread(g, w), v)
      <4>1. Same(f)
        BY <1>2
      <4> QED  BY <3>3, <3>5, <4>1
    <3>7. Occurrences(Spread(g, x), v) = Occurrences(Spread(g, f), v) + Occurrences(E, v)
      <4> DEFINE F == Spread(g, f)
      <4> HIDE DEF E, F
      <4> QED  BY <2>1, <2>3, OccConcat DEF F
    <3> QED  BY <3>3, <3>6, <3>7
  <2> QED  BY <2>5, <2>6
<1> HIDE DEF Q
<1>3. Seq(T) \subseteq Q
  BY <1>1, <1>2, SeqInduction
<1> QED  BY <1>3 DEF Q

\* A sequence of some elements has no others in its parts.
LEMMA PartsOf ==
    ASSUME NEW S, NEW U, NEW a \in Seq(S), NEW b \in Seq(S), a \o b \in Seq(U)
    PROVE  a \in Seq(U) /\ b \in Seq(U)
<1> DEFINE n == Len(a)
           m == Len(b)
           j == a \o b
<1>1. /\ n \in Nat /\ m \in Nat /\ Len(j) = n + m
      /\ \A i \in 1..n + m : j[i] = IF i <= n THEN a[i] ELSE b[i - n]
      /\ a = [i \in 1..n |-> a[i]] /\ b = [i \in 1..m |-> b[i]]
  BY LenProperties, ConcatProperties
<1>2. \A i \in 1..Len(j) : j[i] \in U
  BY ElementOfSeq
<1> HIDE DEF j, n, m
<1>3. ASSUME NEW i \in 1..n
      PROVE  a[i] \in U
  <2>1. i \in 1..n + m /\ i <= n
    BY <1>1
  <2> QED  BY <1>1, <1>2, <2>1
<1>4. ASSUME NEW i \in 1..m
      PROVE  b[i] \in U
  <2>1. n + i \in 1..n + m /\ ~(n + i <= n) /\ (n + i) - n = i
    BY <1>1
  <2> QED  BY <1>1, <1>2, <2>1
<1>5. a \in [1..n -> U] /\ b \in [1..m -> U]
  BY <1>1, <1>3, <1>4
<1> QED  BY <1>1, <1>5

LEMMA FlattenParts ==
    ASSUME NEW S, NEW U, NEW ss \in Seq(Seq(S)), FlattenSeq(ss) \in Seq(U)
    PROVE  ss \in Seq(Seq(U))
<1> DEFINE T == Seq(S)
           V == Seq(U)
           Q == {x \in Seq(T) : FlattenSeq(x) \in V => x \in Seq(V)}
<1>1. <<>> \in Q
  OBVIOUS
<1>2. ASSUME NEW x \in Seq(T), NEW s \in T, x \in Q
      PROVE  Append(x, s) \in Q
  <2>1. FlattenSeq(Append(x, s)) = FlattenSeq(x) \o s /\ FlattenSeq(x) \in Seq(S)
    BY FlattenAppend, FlattenTyped
  <2>2. Append(x, s) \in Seq(T)
    <3> HIDE DEF T
    <3> QED  BY AppendProperties
  <2> SUFFICES ASSUME FlattenSeq(x) \o s \in V PROVE Append(x, s) \in Seq(V)
    BY <2>1, <2>2
  <2>3. FlattenSeq(x) \in V /\ s \in V
    BY <2>1, PartsOf
  <2>4. x \in Seq(V)
    BY <1>2, <2>3
  <2> HIDE DEF V
  <2> QED  BY <2>3, <2>4, AppendProperties
<1>3. Seq(T) \subseteq Q
  <2> HIDE DEF Q, T
  <2> QED  BY <1>1, <1>2, SeqInduction
<1> QED  BY <1>3
-----------------------------------------------------------------------------
(* What Split gives for joined values, and the length of what they spell.  *)

LEMMA SplitAppend ==
    ASSUME NEW S, NEW s \in Seq(S), NEW b \in S, NEW sep
    PROVE  Split(Append(s, b), sep) = Grown(Split(s, sep), b, sep)
<1> DEFINE n == Len(s)
           t == Append(s, b)
<1>1. /\ t \in Seq(S) /\ Len(t) = n + 1 /\ n \in Nat
      /\ \A i \in 1..n : t[i] = s[i]
      /\ t[n + 1] = b
  BY AppendProperties, LenProperties
<1> HIDE DEF t
<1>2. PICK g : Splits(g, s, sep)
  BY SplitSteps
<1>3. PICK h : Splits(h, t, sep)
  BY <1>1, SplitSteps
<1>4. /\ g[0] = << <<>> >> /\ \A i \in 1..n : g[i] = Grown(g[i - 1], s[i], sep)
      /\ Split(s, sep) = g[n]
  BY <1>2 DEF Splits
<1>5. /\ h[0] = << <<>> >> /\ \A i \in 1..n + 1 : h[i] = Grown(h[i - 1], t[i], sep)
      /\ Split(t, sep) = h[n + 1]
  BY <1>1, <1>3 DEF Splits
<1> HIDE DEF n
<1>6. ASSUME NEW i \in 1..n, g[i - 1] = h[i - 1]
      PROVE  g[i] = h[i]
  <2>1. i \in 1..n + 1
    BY <1>1
  <2> QED  BY <1>1, <1>4, <1>5, <1>6, <2>1
<1>7. Alike(g, h, n)
  BY <1>1, <1>4, <1>5, <1>6 DEF Alike
<1>8. g[n] = h[n]
  BY <1>1, <1>7, RecursionUnique
<1>9. h[n + 1] = Grown(h[n], b, sep)
  <2>1. n + 1 \in 1..n + 1 /\ (n + 1) - 1 = n
    BY <1>1
  <2> QED  BY <1>1, <1>5, <2>1
<1> QED  BY <1>4, <1>5, <1>8, <1>9 DEF t

\* Splitting what was joined with a separator gives the pieces of both.
Joining(s, t, sep) == Split(s \o <<sep>> \o t, sep) = Split(s, sep) \o Split(t, sep)

LEMMA SplitJoined ==
    ASSUME NEW S, NEW s \in Seq(S), NEW t \in Seq(S), NEW sep \in S
    PROVE  Joining(s, t, sep)
<1> DEFINE u == s \o <<sep>>
           a == Split(s, sep)
<1>1. u = Append(s, sep) /\ u \in Seq(S) /\ u # <<>> /\ Last(u) = sep
  BY AppendIsConcat, AppendProperties DEF Last
<1>2. a \in Seq(Seq(S)) /\ <<>> \in Seq(S)
  BY SplitTyped DEF Pieces
<1>3. Split(u, sep) = a \o EmptyPiece
  <2>1. Split(u, sep) = Grown(a, sep, sep)
    BY <1>1, SplitAppend
  <2> HIDE DEF a
  <2>2. Append(a, <<>>) = a \o EmptyPiece
    BY <1>2, AppendIsConcat DEF EmptyPiece
  <2> QED  BY <2>1, <2>2 DEF Grown
<1> HIDE DEF u, a
<1>4. SplitsBehind(S, u, t, sep)
  BY <1>1, SplitConcat DEF EndsWith
<1>5. PICK p \in Seq(Seq(S)) : /\ Split(u, sep) = p \o EmptyPiece
                               /\ Split(u \o t, sep) = p \o Split(t, sep)
  BY <1>4 DEF SplitsBehind
<1>6. p = a
  <2> DEFINE T == Seq(S)
  <2>1. a \in Seq(T) /\ p \in Seq(T) /\ <<>> \in T
    BY <1>2
  <2>2. a \o EmptyPiece = p \o EmptyPiece
    BY <1>3, <1>5
  <2> HIDE DEF T
  <2>3. Append(a, <<>>) = Append(p, <<>>)
    BY <2>1, <2>2, AppendIsConcat DEF EmptyPiece
  <2> QED  BY <2>1, <2>3, AppendInjective
<1> QED  BY <1>5, <1>6 DEF u, a, Joining

\* The bytes of a sequence are in its pieces, or separate them.
Spelled(p) == Len(FlattenSeq(p)) + Len(p)

LEMMA SpelledAppend ==
    ASSUME NEW S, NEW p \in Seq(Seq(S)), NEW l \in Seq(S)
    PROVE  Spelled(Append(p, l)) = Spelled(p) + Len(l) + 1 /\ Spelled(p) \in Nat
<1> DEFINE f == FlattenSeq(p)
<1>1. f \in Seq(S) /\ FlattenSeq(Append(p, l)) = f \o l
  BY FlattenTyped, FlattenAppend
<1>2. Len(Append(p, l)) = Len(p) + 1 /\ Len(p) \in Nat
  BY AppendProperties, LenProperties
<1> HIDE DEF f
<1>3. Len(f \o l) = Len(f) + Len(l) /\ Len(f) \in Nat /\ Len(l) \in Nat
  BY <1>1, ConcatProperties, LenProperties
<1>4. Spelled(Append(p, l)) = Len(f \o l) + Len(Append(p, l)) /\ Spelled(p) = Len(f) + Len(p)
  BY <1>1 DEF Spelled, f
<1> QED  BY <1>2, <1>3, <1>4

LEMMA SplitSpelled ==
    ASSUME NEW S, NEW s \in Seq(S), NEW sep
    PROVE  Spelled(Split(s, sep)) = Len(s) + 1
<1> DEFINE Q == {x \in Seq(S) : Spelled(Split(x, sep)) = Len(x) + 1}
<1>1. <<>> \in Q
  <2>0. <<>> \in Seq(S) /\ Len(<<>>) = 0 /\ <<>> \in Seq(Seq(S)) /\ Append(<<>>, <<>>) = << <<>> >>
    OBVIOUS
  <2>1. Split(<<>>, sep) = << <<>> >>
    <3>1. PICK g : Splits(g, <<>>, sep)
      BY <2>0, SplitSteps
    <3> QED  BY <2>0, <3>1 DEF Splits
  <2>2. Spelled(<<>>) = 0
    <3>1. FlattenSeq(<<>>) = <<>>
      <4>1. \A i \in 1..Len(<<>>) : <<>>[i] = <<>>
        OBVIOUS
      <4> QED  BY <2>0, <4>1, FlattenEmpty
    <3> QED  BY <2>0, <3>1 DEF Spelled
  <2>3. Spelled(Append(<<>>, <<>>)) = 0 + 0 + 1
    BY <2>0, <2>2, SpelledAppend
  <2> QED  BY <2>0, <2>1, <2>3
<1>2. ASSUME NEW f \in Seq(S), NEW b \in S, f \in Q
      PROVE  Append(f, b) \in Q
  <2> DEFINE x == Append(f, b)
             p == Split(f, sep)
             n == Len(p)
  <2>1. x \in Seq(S) /\ Len(x) = Len(f) + 1 /\ Len(f) \in Nat /\ Split(x, sep) = Grown(p, b, sep)
    BY AppendProperties, LenProperties, SplitAppend
  <2>2. p \in Seq(Seq(S)) /\ p # <<>> /\ Spelled(p) = Len(f) + 1
    <3>1. p \in Pieces(S)
      BY SplitTyped
    <3>2. Spelled(p) = Len(f) + 1
      BY <1>2
    <3> HIDE DEF p
    <3> QED  BY <3>1, <3>2 DEF Pieces
  <2> HIDE DEF x, p
  <2> SUFFICES Spelled(Split(x, sep)) = Len(x) + 1
    BY <2>1 DEF x
  <2>3. CASE b = sep
    <3>1. Split(x, sep) = Append(p, <<>>)
      BY <2>1, <2>3 DEF Grown
    <3>2. <<>> \in Seq(S) /\ Len(<<>>) = 0
      OBVIOUS
    <3>3. Spelled(Append(p, <<>>)) = Spelled(p) + 0 + 1
      BY <2>2, <3>2, SpelledAppend
    <3> QED  BY <2>1, <2>2, <3>1, <3>3
  <2>4. CASE b # sep
    <3>1. PICK q \in Seq(Seq(S)), l \in Seq(S) : p = Append(q, l)
      <4>1. \E q \in Seq(Seq(S)), l \in Seq(S) : p = Append(q, l)
        BY <2>2, SequenceEmptyOrAppend
      <4> QED  BY <4>1
    <3>2. n = Len(q) + 1 /\ Len(q) \in Nat /\ p[n] = l /\ \A i \in 1..Len(q) : p[i] = q[i]
      BY <3>1, AppendProperties, LenProperties
    <3> DEFINE m == Append(l, b)
               P == [p EXCEPT ![n] = m]
    <3>3. m \in Seq(S) /\ Len(m) = Len(l) + 1 /\ Len(l) \in Nat
      BY AppendProperties, LenProperties
    <3>4. Split(x, sep) = P
      BY <2>1, <2>4, <3>2 DEF Grown
    <3> HIDE DEF m
    <3>5. P = Append(q, m)
      <4> DEFINE r == Append(q, m)
      <4>1. r \in Seq(Seq(S)) /\ Len(r) = n /\ r[n] = m /\ \A i \in 1..Len(q) : r[i] = q[i]
        BY <3>2, <3>3, AppendProperties
      <4>2. n \in 1..n /\ n \in 1..Len(p)
        BY <3>2
      <4>3. P \in Seq(Seq(S)) /\ Len(P) = n /\ \A i \in 1..n : P[i] = IF i = n THEN m ELSE p[i]
        BY <2>2, <3>3, <4>2, ExceptSeq
      <4> HIDE DEF r, P
      <4>4. ASSUME NEW i \in 1..n
            PROVE  P[i] = r[i]
        <5>1. i = n \/ i \in 1..Len(q)
          BY <3>2
        <5>2. CASE i = n
          BY <4>1, <4>3, <5>2
        <5>3. CASE i # n
          <6>1. i \in 1..Len(q)
            BY <5>1, <5>3
          <6> QED  BY <3>2, <4>1, <4>3, <5>3, <6>1
        <5> QED  BY <5>2, <5>3
      <4>5. P = r
        BY <4>1, <4>3, <4>4, SeqEqual
      <4> QED  BY <4>5 DEF r
    <3> HIDE DEF P
    <3>6. /\ Spelled(Append(q, m)) = Spelled(q) + Len(m) + 1
          /\ Spelled(Append(q, l)) = Spelled(q) + Len(l) + 1
          /\ Spelled(q) \in Nat
      BY <3>3, SpelledAppend
    <3>7. Spelled(Split(x, sep)) = Spelled(q) + Len(m) + 1
      BY <3>4, <3>5, <3>6
    <3>8. Len(f) + 1 = Spelled(q) + Len(l) + 1
      BY <2>2, <3>1, <3>6
    <3>9. Len(x) = Len(f) + 1 /\ Len(f) \in Nat /\ Len(l) \in Nat /\ Len(m) = Len(l) + 1
      BY <2>1, <3>3
    <3> QED  BY ONLY <3>6, <3>7, <3>8, <3>9
  <2> QED  BY <2>3, <2>4
<1> HIDE DEF Q
<1>3. Seq(S) \subseteq Q
  BY <1>1, <1>2, SeqInduction
<1> QED  BY <1>3 DEF Q

\* The length of the line that values make does not depend on their order.
Lengths(S) == [v \in Seq(S) |-> [i \in 1..Len(v) + 1 |-> 0]]

LEMMA LengthsGive ==
    ASSUME NEW S
    PROVE  Gives(Lengths(S), Seq(S), {0})
<1>1. ASSUME NEW v \in Seq(S)
      PROVE  [i \in 1..Len(v) + 1 |-> 0] \in Seq({0})
  <2>1. Len(v) + 1 \in Nat
    BY LenProperties
  <2> QED  BY <2>1
<1> QED  BY <1>1 DEF Gives, Lengths

LEMMA LengthsCount ==
    ASSUME NEW S, NEW vs \in Seq(Seq(S))
    PROVE  Occurrences(Spread(Lengths(S), vs), 0) = Spelled(vs)
<1> DEFINE g == Lengths(S)
           Q == {x \in Seq(Seq(S)) : Occurrences(Spread(g, x), 0) = Spelled(x)}
<1>1. Gives(g, Seq(S), {0})
  BY LengthsGive
<1>2. ASSUME NEW v \in Seq(S)
      PROVE  Occurrences(g[v], 0) = Len(v) + 1
  <2> DEFINE n == Len(v) + 1
             z == [i \in 1..n |-> 0]
  <2>1. n \in Nat /\ g[v] = z
    BY LenProperties DEF Lengths
  <2>2. {i \in DOMAIN z : z[i] = 0} = 1..n
    OBVIOUS
  <2>3. Cardinality(1..n) = n
    <3> HIDE DEF n
    <3>1. Cardinality(1..n) = n - 1 + 1 \/ (n = 0 /\ Cardinality({}) = 0)
      BY <2>1, FS_Interval, FS_EmptySet
    <3>2. n = 0 => 1..n = {}
      BY <2>1
    <3> QED  BY <2>1, <3>1, <3>2
  <2> QED  BY <2>1, <2>2, <2>3 DEF Occurrences
<1> HIDE DEF g
<1> DEFINE T == Seq(S)
<1>3. <<>> \in Q
  <2> DEFINE z == <<>>
  <2>0. /\ z \in Seq(Seq(S)) /\ Len(z) = 0
        /\ \A i \in 1..Len(z) : g[z[i]] = <<>> /\ z[i] = <<>>
    OBVIOUS
  <2> HIDE DEF z
  <2>1. Spread(g, z) = <<>>
    <3>1. z \in Seq(T) /\ Gives(g, T, {0})
      BY <1>1, <2>0
    <3> HIDE DEF T
    <3> QED  BY <2>0, <3>1, SpreadNone
  <2>2. FlattenSeq(z) = <<>>
    BY <2>0, FlattenEmpty
  <2>3. Len(<<>>) = 0
    OBVIOUS
  <2>4. Spelled(z) = 0
    BY <2>0, <2>2, <2>3 DEF Spelled
  <2> QED  BY <2>0, <2>1, <2>4, OccNone DEF z
<1>4. ASSUME NEW x \in Seq(Seq(S)), NEW v \in Seq(S), x \in Q
      PROVE  Append(x, v) \in Q
  <2> DEFINE a == Spread(g, x)
             b == g[v]
  <2>1. a \in Seq({0}) /\ b \in Seq({0}) /\ Spread(g, Append(x, v)) = a \o b
    <3>1. x \in Seq(T) /\ Gives(g, T, {0}) /\ v \in T
      BY <1>1
    <3> HIDE DEF T
    <3>2. b \in Seq({0})
      BY <3>1 DEF Gives
    <3> QED  BY <3>1, <3>2, SpreadTyped, SpreadAppend
  <2>2. Occurrences(b, 0) = Len(v) + 1 /\ Occurrences(a, 0) = Spelled(x)
    <3>1. Occurrences(b, 0) = Len(v) + 1
      BY <1>2
    <3>2. Occurrences(a, 0) = Spelled(x)
      BY <1>4
    <3> QED  BY <3>1, <3>2
  <2> HIDE DEF a, b
  <2>3. Occurrences(a \o b, 0) = Occurrences(a, 0) + Occurrences(b, 0)
    BY <2>1, OccConcat
  <2>4. Spelled(Append(x, v)) = Spelled(x) + Len(v) + 1 /\ Spelled(x) \in Nat /\ Len(v) \in Nat
    BY SpelledAppend, LenProperties
  <2>5. Append(x, v) \in Seq(Seq(S))
    BY AppendProperties
  <2>6. Occurrences(Spread(g, Append(x, v)), 0) = Spelled(Append(x, v))
    BY <2>1, <2>2, <2>3, <2>4
  <2> QED  BY <2>5, <2>6
<1> HIDE DEF Q
<1>5. Seq(Seq(S)) \subseteq Q
  BY <1>3, <1>4, SeqInduction
<1> QED  BY <1>5 DEF Q, g

LEMMA SpelledAlike ==
    ASSUME NEW S, NEW vs \in Seq(Seq(S)), NEW ws \in Seq(Seq(S)),
           \A x : Occurrences(vs, x) = Occurrences(ws, x)
    PROVE  Spelled(vs) = Spelled(ws)
<1> DEFINE g == Lengths(S)
           T == Seq(S)
<1>1. Gives(g, T, {0}) /\ AlikeFor(g, T, vs, ws)
  BY LengthsGive DEF AlikeFor
<1>2. Occurrences(Spread(g, vs), 0) = Occurrences(Spread(g, ws), 0)
  <2> HIDE DEF g
  <2>1. vs \in Seq(T) /\ ws \in Seq(T)
    OBVIOUS
  <2> HIDE DEF T
  <2> QED  BY <1>1, <2>1, SpreadAlike
<1> QED  BY <1>2, LengthsCount
-----------------------------------------------------------------------------
(* The values of a key.                                                    *)

\* The values of a key, as g of a Spread.
ValuesFor(k) ==
    [kv \in Pair |-> IF Key(kv) = k THEN Split(Value(kv), Comma) ELSE <<>>]

LEMMA ValuesGive ==
    ASSUME PipelineAssumption, NEW k
    PROVE  Gives(ValuesFor(k), Pair, Seq(Byte))
<1>1. ASSUME NEW kv \in Pair
      PROVE  Split(Value(kv), Comma) \in Seq(Seq(Byte))
  <2>1. Value(kv) \in Seq(Byte)
    BY DEF Pair, Value
  <2> QED  BY <2>1, SplitTyped DEF Pieces
<1>2. <<>> \in Seq(Seq(Byte))
  OBVIOUS
<1> QED  BY <1>1, <1>2 DEF Gives, ValuesFor

LEMMA ValuesSpread ==
    ASSUME PipelineAssumption, NEW s \in Seq(Pair), NEW k
    PROVE  ValuesOf(s, k) = Spread(ValuesFor(k), s)
<1>1. DOMAIN s = 1..Len(s) /\ \A i \in 1..Len(s) : s[i] \in Pair
  BY LenProperties, ElementOfSeq
<1>2. \A i \in 1..Len(s) : ValuesFor(k)[s[i]]
          = IF Key(s[i]) = k THEN Split(Value(s[i]), Comma) ELSE <<>>
  BY <1>1 DEF ValuesFor
<1> QED  BY <1>1, <1>2 DEF ValuesOf, MapSeq, Spread, Images

LEMMA ValuesTyped ==
    ASSUME PipelineAssumption, NEW s \in Seq(Pair), NEW k
    PROVE  ValuesOf(s, k) \in Seq(Seq(Byte))
<1> DEFINE g == ValuesFor(k)
           S == Seq(Byte)
<1>1. Gives(g, Pair, S)
  BY ValuesGive
<1>2. ValuesOf(s, k) = Spread(g, s)
  BY ValuesSpread
<1> HIDE DEF g, S
<1>3. Spread(g, s) \in Seq(S)
  BY <1>1, SpreadTyped
<1> QED  BY <1>2, <1>3 DEF S

LEMMA ValuesAppend ==
    ASSUME PipelineAssumption, NEW s \in Seq(Pair), NEW e \in Pair, NEW k
    PROVE  ValuesOf(Append(s, e), k)
               = IF Key(e) = k THEN ValuesOf(s, k) \o Split(Value(e), Comma) ELSE ValuesOf(s, k)
<1> DEFINE g == ValuesFor(k)
           S == Seq(Byte)
           t == Append(s, e)
<1>1. Gives(g, Pair, S) /\ g[e] = IF Key(e) = k THEN Split(Value(e), Comma) ELSE <<>>
  BY ValuesGive DEF ValuesFor
<1>2. t \in Seq(Pair)
  BY AppendProperties
<1>3. ValuesOf(s, k) = Spread(g, s) /\ ValuesOf(t, k) = Spread(g, t)
  <2> HIDE DEF t
  <2> QED  BY <1>2, ValuesSpread
<1> HIDE DEF g, S
<1>4. Spread(g, t) = Spread(g, s) \o g[e] /\ Spread(g, s) \in Seq(S)
  <2>1. Spread(g, s) \in Seq(S)
    BY <1>1, SpreadTyped
  <2>2. Spread(g, Append(s, e)) = Spread(g, s) \o g[e]
    BY <1>1, SpreadAppend
  <2> QED  BY <2>1, <2>2
<1>5. Spread(g, s) \o <<>> = Spread(g, s)
  BY <1>4, ConcatEmptySeq
<1> QED  BY <1>1, <1>3, <1>4, <1>5

LEMMA ValuesNone ==
    ASSUME PipelineAssumption, NEW s \in Seq(Pair), NEW k,
           \A i \in 1..Len(s) : Key(s[i]) # k
    PROVE  ValuesOf(s, k) = <<>>
<1> DEFINE g == ValuesFor(k)
           S == Seq(Byte)
<1>1. Gives(g, Pair, S) /\ \A i \in 1..Len(s) : g[s[i]] = <<>>
  <2>1. \A i \in 1..Len(s) : s[i] \in Pair
    BY ElementOfSeq
  <2> QED  BY <2>1, ValuesGive DEF ValuesFor
<1>2. ValuesOf(s, k) = Spread(g, s)
  BY ValuesSpread
<1> HIDE DEF g, S
<1> QED  BY <1>1, <1>2, SpreadNone

\* What one record more does to the lines.
LongerLine(M, m, e) ==
    /\ m # <<>> /\ Key(m[Len(m)]) = Key(e) /\ M \in Seq(Pair) /\ Len(M) = Len(m)
    /\ \A k \in 1..Len(m) - 1 : M[k] = m[k]
    /\ M[Len(m)] = <<Key(e), Value(m[Len(m)]) \o <<Comma>> \o Value(e)>>

OneMoreLine(M, m, e) ==
    /\ m = <<>> \/ Key(m[Len(m)]) # Key(e)
    /\ M \in Seq(Pair) /\ Len(M) = Len(m) + 1 /\ M[Len(m) + 1] = e
    /\ \A k \in 1..Len(m) : M[k] = m[k]

LEMMA GroupedLines ==
    ASSUME PipelineAssumption, NEW m \in Seq(Pair), NEW e \in Pair
    PROVE  OneMoreLine(Grouped(m, e), m, e) \/ LongerLine(Grouped(m, e), m, e)
<1> DEFINE n == Len(m)
           M == Grouped(m, e)
<1>1. n \in Nat /\ (m # <<>> => n \in 1..n) /\ M \in Seq(Pair)
  BY EmptySeq, LenProperties, GroupedKeys
<1>2. CASE m = <<>> \/ Key(m[n]) # Key(e)
  <2>1. M = Append(m, e)
    BY <1>2 DEF Grouped, Last
  <2>2. /\ Append(m, e) \in Seq(Pair) /\ Len(Append(m, e)) = n + 1 /\ Append(m, e)[n + 1] = e
        /\ \A k \in 1..n : Append(m, e)[k] = m[k]
    BY AppendProperties
  <2> HIDE DEF M
  <2> QED  BY <1>2, <2>1, <2>2 DEF M, OneMoreLine
<1>3. CASE ~(m = <<>> \/ Key(m[n]) # Key(e))
  <2> DEFINE l == <<Key(e), Value(m[n]) \o <<Comma>> \o Value(e)>>
  <2>1. M = [m EXCEPT ![n] = l]
    BY <1>3 DEF Grouped, Last
  <2>2. DOMAIN m = 1..n
    BY LenProperties
  <2>3. Len(M) = n
    BY <1>1, <1>3, GroupedKeys DEF NewLine, SameLine
  <2> HIDE DEF l, M
  <2>4. M[n] = l /\ \A k \in 1..n - 1 : M[k] = m[k]
    <3>1. n \in 1..n /\ \A k \in 1..n - 1 : k \in 1..n /\ k # n
      BY <1>1, <1>3
    <3> HIDE DEF n
    <3> QED  BY <2>1, <2>2, <3>1
  <2> QED  BY <1>1, <1>3, <2>3, <2>4 DEF M, l, LongerLine
<1> QED  BY <1>2, <1>3

\* The lines have the values of their keys in s, and s has no other key.
LineExact(l, s) == Split(Value(l), Comma) = ValuesOf(s, Key(l))

LinesExact(m, s) ==
    /\ \A k \in 1..Len(m) : LineExact(m[k], s)
    /\ \A j \in 1..Len(s) : \E k \in 1..Len(m) : Key(m[k]) = Key(s[j])

\* A record more changes the values of its key only.
LEMMA OtherLine ==
    ASSUME PipelineAssumption, NEW p \in Seq(Pair), NEW e \in Pair, NEW l,
           LineExact(l, p), Key(l) # Key(e)
    PROVE  LineExact(l, Append(p, e))
  BY ValuesAppend DEF LineExact

LEMMA FirstLine ==
    ASSUME PipelineAssumption, NEW p \in Seq(Pair), NEW e \in Pair,
           \A j \in 1..Len(p) : Key(p[j]) # Key(e)
    PROVE  LineExact(e, Append(p, e))
<1> DEFINE w == Split(Value(e), Comma)
<1>1. w \in Seq(Seq(Byte))
  <2>1. Value(e) \in Seq(Byte)
    BY DEF Pair, Value
  <2> QED  BY <2>1, SplitTyped DEF Pieces
<1>2. ValuesOf(p, Key(e)) = <<>>
  BY ValuesNone
<1>3. ValuesOf(Append(p, e), Key(e)) = ValuesOf(p, Key(e)) \o w
  BY ValuesAppend
<1> HIDE DEF w
<1>4. <<>> \o w = w
  BY <1>1, ConcatEmptySeq
<1> QED  BY <1>2, <1>3, <1>4 DEF LineExact, w

LEMMA NextValue ==
    ASSUME PipelineAssumption, NEW p \in Seq(Pair), NEW e \in Pair, NEW l \in Pair,
           LineExact(l, p), Key(l) = Key(e)
    PROVE  LineExact(<<Key(e), Value(l) \o <<Comma>> \o Value(e)>>, Append(p, e))
<1> DEFINE v == Value(l)
           w == Value(e)
           x == <<Key(e), v \o <<Comma>> \o w>>
<1>1. v \in Seq(Byte) /\ w \in Seq(Byte) /\ Comma \in Byte
  BY DEF Pair, Value, PipelineAssumption
<1>2. Key(x) = Key(e) /\ Value(x) = v \o <<Comma>> \o w
  BY DEF Key, Value
<1> HIDE DEF v, w
<1>3. Split(v \o <<Comma>> \o w, Comma) = Split(v, Comma) \o Split(w, Comma)
  <2>1. Joining(v, w, Comma)
    BY <1>1, SplitJoined
  <2> QED  BY <2>1 DEF Joining
<1>4. ValuesOf(Append(p, e), Key(e)) = ValuesOf(p, Key(e)) \o Split(w, Comma)
  BY ValuesAppend DEF w
<1>5. Split(v, Comma) = ValuesOf(p, Key(e))
  BY DEF LineExact, v
<1> HIDE DEF x
<1>6. LineExact(x, Append(p, e))
  BY <1>2, <1>3, <1>4, <1>5 DEF LineExact
<1> QED  BY <1>6 DEF x, v, w

LEMMA GroupedExact ==
    ASSUME PipelineAssumption, NEW p \in Seq(Pair), NEW e \in Pair, NEW m \in Seq(Pair), NEW M,
           OneMoreLine(M, m, e) \/ LongerLine(M, m, e), LinesExact(m, p),
           \A k, l \in 1..Len(M) : k < l => Key(M[k]) < Key(M[l]),
           OneMoreLine(M, m, e) => \A j \in 1..Len(p) : Key(p[j]) # Key(e)
    PROVE  LinesExact(M, Append(p, e))
<1> DEFINE P == Append(p, e)
           n == Len(p)
           q == Len(m)
<1>1. /\ P \in Seq(Pair) /\ Len(P) = n + 1 /\ n \in Nat /\ P[n + 1] = e
      /\ \A j \in 1..n : P[j] = p[j]
  BY AppendProperties, LenProperties
<1>2. /\ q \in Nat /\ \A k \in 1..q : m[k] \in Pair /\ LineExact(m[k], p)
      /\ \A j \in 1..n : \E k \in 1..q : Key(m[k]) = Key(p[j])
  BY LenProperties, ElementOfSeq DEF LinesExact
<1>3. \A j \in 1..n + 1 : j = n + 1 \/ j \in 1..n
  BY <1>1
<1>a. M \in Seq(Pair) /\ \A k \in 1..Len(M) : Key(M[k]) \in Nat
  <2>1. M \in Seq(Pair)
    BY DEF OneMoreLine, LongerLine
  <2>2. \A x \in Pair : Key(x) \in Nat
    BY DEF Pair, Key, PipelineAssumption
  <2> QED  BY <2>1, <2>2, ElementOfSeq
<1> HIDE DEF P
<1>4. CASE OneMoreLine(M, m, e)
  <2>1. /\ Len(M) = q + 1 /\ M[q + 1] = e /\ \A k \in 1..q : M[k] = m[k]
        /\ \A j \in 1..n : Key(p[j]) # Key(e)
    BY <1>4 DEF OneMoreLine
  <2> HIDE DEF n, q
  <2>2. ASSUME NEW k \in 1..q + 1
        PROVE  LineExact(M[k], P)
    <3>1. CASE k = q + 1
      <4>1. LineExact(e, P)
        BY <2>1, FirstLine DEF P, n
      <4> QED  BY <2>1, <3>1, <4>1
    <3>2. CASE k # q + 1
      <4>1. k \in 1..q /\ q + 1 \in 1..q + 1 /\ k < q + 1
        BY <1>2, <3>2
      <4>2. Key(M[k]) < Key(M[q + 1]) /\ Key(M[k]) \in Nat /\ Key(M[q + 1]) \in Nat
        BY <1>a, <2>1, <4>1
      <4>3. Key(m[k]) # Key(e)
        BY <2>1, <4>1, <4>2
      <4>4. LineExact(m[k], P)
        BY <1>2, <4>1, <4>3, OtherLine DEF P
      <4> QED  BY <2>1, <4>1, <4>4
    <3> QED  BY <3>1, <3>2
  <2>3. ASSUME NEW j \in 1..n + 1
        PROVE  \E k \in 1..q + 1 : Key(M[k]) = Key(P[j])
    <3>1. CASE j = n + 1
      <4>1. q + 1 \in 1..q + 1
        BY <1>2
      <4> QED  BY <1>1, <2>1, <3>1, <4>1
    <3>2. CASE j # n + 1
      <4>1. j \in 1..n
        BY <1>3, <3>2
      <4>2. PICK k \in 1..q : Key(m[k]) = Key(p[j])
        BY <1>2, <4>1
      <4>3. k \in 1..q + 1
        BY <1>2
      <4> QED  BY <1>1, <2>1, <4>1, <4>2, <4>3
    <3> QED  BY <3>1, <3>2
  <2> QED  BY <1>1, <2>1, <2>2, <2>3 DEF LinesExact, P
<1>5. CASE LongerLine(M, m, e)
  <2>1. /\ m # <<>> /\ Len(M) = q /\ \A k \in 1..q - 1 : M[k] = m[k]
        /\ M[q] = <<Key(e), Value(m[q]) \o <<Comma>> \o Value(e)>> /\ Key(m[q]) = Key(e)
    BY <1>5 DEF LongerLine
  <2>2. q \in 1..q
    BY <1>2, <2>1, EmptySeq
  <2>3. Key(M[q]) = Key(e)
    BY <2>1 DEF Key
  <2> HIDE DEF n, q
  <2>4. \A k \in 1..q : k = q \/ (k \in 1..q - 1 /\ k < q)
    BY <1>2
  <2>5. ASSUME NEW k \in 1..q
        PROVE  LineExact(M[k], P) /\ Key(M[k]) = Key(m[k])
    <3>1. CASE k = q
      <4>1. LineExact(<<Key(e), Value(m[q]) \o <<Comma>> \o Value(e)>>, P)
        BY <1>2, <2>1, <2>2, NextValue DEF P
      <4> QED  BY <2>1, <2>3, <3>1, <4>1
    <3>2. CASE k # q
      <4>1. k \in 1..q - 1 /\ k < q
        BY <2>4, <3>2
      <4>2. Key(M[k]) < Key(M[q]) /\ Key(M[k]) \in Nat /\ Key(M[q]) \in Nat
        BY <1>a, <2>1, <2>2, <4>1
      <4>3. Key(m[k]) # Key(e)
        BY <2>1, <2>3, <4>1, <4>2
      <4>4. LineExact(m[k], P)
        BY <1>2, <4>1, <4>3, OtherLine DEF P
      <4> QED  BY <2>1, <4>1, <4>4
    <3> QED  BY <3>1, <3>2
  <2>6. ASSUME NEW j \in 1..n + 1
        PROVE  \E k \in 1..q : Key(M[k]) = Key(P[j])
    <3>1. CASE j = n + 1
      BY <1>1, <2>2, <2>3, <3>1
    <3>2. CASE j # n + 1
      <4>1. j \in 1..n
        BY <1>3, <3>2
      <4>2. PICK k \in 1..q : Key(m[k]) = Key(p[j])
        BY <1>2, <4>1
      <4> QED  BY <1>1, <2>5, <4>1, <4>2
    <3> QED  BY <3>1, <3>2
  <2> QED  BY <1>1, <2>1, <2>5, <2>6 DEF LinesExact, P
<1> QED  BY <1>4, <1>5

\* shuffle's lines have the values of their keys.
LEMMA MergedExact ==
    ASSUME PipelineAssumption, NEW s \in Seq(Pair), KeySorted(s)
    PROVE  LinesExact(Merged(s), s)
<1> DEFINE n == Len(s)
           pre(i) == SubSeq(s, 1, i)
<1>1. /\ n \in Nat /\ DOMAIN s = 1..n
      /\ \A i \in 1..n : s[i] \in Pair /\ Key(s[i]) \in Nat
      /\ \A i, j \in 1..n : i < j => Key(s[i]) <= Key(s[j])
  <2>1. n \in Nat /\ DOMAIN s = 1..n /\ \A i \in 1..n : s[i] \in Pair
    BY LenProperties, ElementOfSeq
  <2>2. \A e \in Pair : Key(e) \in Nat
    BY DEF Pair, Key, PipelineAssumption
  <2> QED  BY <2>1, <2>2 DEF KeySorted
<1>2. PICK g \in [0..n -> Seq(Pair)] : Merges(g, s)
  BY MergedSteps
<1>3. /\ g[0] = <<>> /\ Merged(s) = g[n]
      /\ \A i \in 1..n : g[i] = Grouped(g[i - 1], s[i])
  BY <1>2 DEF Merges
<1>4. \A i \in 0..n : KeyLines(g[i], s) /\ Top(g[i], s, i)
  BY <1>2, MergesOnce
<1>5. \A i \in 0..n : /\ pre(i) \in Seq(Pair) /\ Len(pre(i)) = i
                      /\ \A j \in 1..i : pre(i)[j] = s[j]
  <2> SUFFICES ASSUME NEW i \in 0..n
               PROVE  /\ pre(i) \in Seq(Pair) /\ Len(pre(i)) = i
                      /\ \A j \in 1..i : pre(i)[j] = s[j]
    OBVIOUS
  <2>1. i \in Nat /\ \A j \in 1..i : s[j] \in Pair
    BY <1>1
  <2> QED  BY <2>1, SubSeqProperties
<1>6. ASSUME NEW i \in 0..n - 1
      PROVE  pre(i + 1) = Append(pre(i), s[i + 1])
  <2>1. i + 1 \in 1..Len(s) /\ (i + 1) - 1 = i
    BY <1>1
  <2>2. s = s /\ SubSeq(s, 1, i + 1) = Append(SubSeq(s, 1, (i + 1) - 1), s[i + 1])
    <3> DEFINE a == pre(i)
               e == s[i + 1]
               b == Append(a, e)
               c == pre(i + 1)
    <3>1. /\ i \in 0..n /\ i + 1 \in 0..n /\ e \in Pair
          /\ \A j \in 1..i + 1 : j = i + 1 \/ j \in 1..i
      BY <1>1, <2>1
    <3>2. /\ a \in Seq(Pair) /\ Len(a) = i /\ \A j \in 1..i : a[j] = s[j]
          /\ c \in Seq(Pair) /\ Len(c) = i + 1 /\ \A j \in 1..i + 1 : c[j] = s[j]
      BY <1>5, <3>1
    <3> HIDE DEF a, c, e
    <3>3. /\ b \in Seq(Pair) /\ Len(b) = i + 1 /\ b[i + 1] = e
          /\ \A j \in 1..i : b[j] = a[j]
      BY <3>1, <3>2, AppendProperties
    <3> HIDE DEF b
    <3>4. ASSUME NEW j \in 1..Len(c)
          PROVE  c[j] = b[j]
      <4>1. CASE j = i + 1
        BY <2>1, <3>2, <3>3, <4>1 DEF e
      <4>2. CASE j # i + 1
        BY <3>1, <3>2, <3>3, <4>2
      <4> QED  BY <4>1, <4>2
    <3>5. c = b
      BY <3>2, <3>3, <3>4, SeqEqual
    <3> QED  BY <2>1, <3>5 DEF a, b, c, e
  <2> QED  BY <2>1, <2>2
<1> DEFINE R == {i \in 0..n : LinesExact(g[i], pre(i))}
<1> HIDE DEF n, pre
<1>7. 0 \in R
  <2>1. 0 \in 0..n /\ Len(pre(0)) = 0
    BY <1>1, <1>5
  <2>2. Len(g[0]) = 0
    BY <1>3
  <2> QED  BY <2>1, <2>2 DEF LinesExact
<1>8. ASSUME NEW i \in 0..n - 1, i \in R
      PROVE  i + 1 \in R
  <2> DEFINE e == s[i + 1]
             m == g[i]
             M == g[i + 1]
             p == pre(i)
  <2>1. i + 1 \in 1..n /\ (i + 1) - 1 = i /\ i \in 0..n /\ i + 1 \in 0..n
    BY <1>1
  <2>2. M = Grouped(m, e) /\ m \in Seq(Pair) /\ e \in Pair /\ p \in Seq(Pair) /\ Len(p) = i
    BY <1>1, <1>2, <1>3, <1>5, <2>1
  <2>3. \A k, l \in 1..Len(M) : k < l => Key(M[k]) < Key(M[l])
    BY <1>4, <2>1 DEF KeyLines
  <2>4. ASSUME OneMoreLine(M, m, e), NEW j \in 1..Len(p)
        PROVE  Key(p[j]) # Key(e)
    <3>1. j \in 1..i /\ i > 0 /\ i \in 1..n /\ j \in 1..n /\ i < i + 1 /\ (j = i \/ j < i)
      BY <1>1, <2>2
    <3>2. p[j] = s[j]
      BY <1>5, <2>1, <3>1
    <3>3. m # <<>> /\ Key(m[Len(m)]) = Key(s[i])
      BY <1>4, <2>1, <3>1 DEF Top
    <3>4. Key(s[i]) # Key(e)
      BY <2>4, <3>3 DEF OneMoreLine
    <3>5. Key(s[j]) <= Key(s[i]) /\ Key(s[i]) <= Key(e)
      BY <1>1, <2>1, <3>1
    <3>6. Key(s[j]) \in Nat /\ Key(s[i]) \in Nat /\ Key(e) \in Nat
      BY <1>1, <2>1, <3>1
    <3> HIDE DEF e
    <3>7. Key(s[j]) # Key(e)
      BY ONLY <3>4, <3>5, <3>6
    <3> QED  BY <3>2, <3>7
  <2>5. LinesExact(m, p)
    BY <1>8
  <2>6. pre(i + 1) = Append(p, e)
    BY <1>6
  <2> HIDE DEF m, M, p, e
  <2>7. OneMoreLine(M, m, e) \/ LongerLine(M, m, e)
    BY <2>2, GroupedLines
  <2>8. LinesExact(M, Append(p, e))
    BY <2>2, <2>3, <2>4, <2>5, <2>7, GroupedExact
  <2> QED  BY <2>1, <2>6, <2>8 DEF M
<1>9. 0..n \subseteq R
  <2> HIDE DEF R
  <2> QED  BY <1>1, <1>7, <1>8, SetInduction
<1>10. n \in 0..n
  BY <1>1
<1>11. pre(n) = s
  BY SubSeqFull DEF pre, n
<1> QED  BY <1>3, <1>9, <1>10, <1>11
-----------------------------------------------------------------------------
(* The lines that scanners take, and what Map gives for them.              *)

\* A scanner takes exactly what comes before the first one of I.
LEMMA BeforeExact ==
    ASSUME NEW t, NEW u, NEW I, Before(u, t, I), Len(t) \in Nat
    PROVE  \A i \in 1..Len(t) : i <= Len(u) <=> \A j \in 1..i : j \notin I
<1> DEFINE m == Len(t)
           n == Len(u)
<1>1. /\ m \in Nat /\ n \in Nat /\ (\A i \in 1..n : i \notin I)
      /\ n < m => n + 1 \in I
  BY DEF Before
<1> SUFFICES ASSUME NEW i \in 1..m
             PROVE  i <= n <=> \A j \in 1..i : j \notin I
  OBVIOUS
<1> HIDE DEF m, n
<1>2. CASE i <= n
  <2>1. \A j \in 1..i : j \in 1..n
    BY <1>1, <1>2
  <2> QED  BY <1>1, <1>2, <2>1
<1>3. CASE ~(i <= n)
  <2>1. n + 1 \in 1..i /\ n < m
    BY <1>1, <1>3
  <2> QED  BY <1>1, <1>3, <2>1
<1> QED  BY <1>2, <1>3

\* The lines that a scanner takes.
FitLine == {l \in Seq(Byte) : Len(l) <= MaxToken}

LEMMA ScannedAll ==
    ASSUME PipelineAssumption, NEW t \in Seq(Seq(Byte))
    PROVE  Scanned(t) = t <=> t \in Seq(FitLine)
<1> DEFINE ok == Scanned(t)
           n == Len(t)
<1>1. n \in Nat /\ \A i \in 1..n : t[i] \in Seq(Byte)
  BY LenProperties, ElementOfSeq
<1>2. /\ ok \in Seq(Seq(Byte)) /\ Before(ok, t, LongTokens(t))
      /\ \A i \in 1..Len(ok) : Len(ok[i]) <= MaxToken
  BY ScannedTyped, ScannedBefore
<1> HIDE DEF ok
<1>3. ASSUME ok = t
      PROVE  t \in Seq(FitLine)
  <2>1. \A i \in 1..n : t[i] \in FitLine
    BY <1>1, <1>2, <1>3 DEF FitLine
  <2>2. t \in [1..n -> FitLine]
    BY <2>1, LenProperties
  <2> HIDE DEF n
  <2> QED  BY <1>1, <2>2
<1>4. ASSUME t \in Seq(FitLine)
      PROVE  ok = t
  <2>1. \A i \in 1..n : Len(t[i]) <= MaxToken
    BY <1>4, ElementOfSeq DEF FitLine
  <2>2. Len(ok) = n
    <3>1. LongTokens(t) = {}
      <4>1. \A i \in 1..n : Len(t[i]) \in Nat
        BY <1>1, LenProperties
      <4> QED  BY <2>1, <4>1 DEF LongTokens, PipelineAssumption
    <3>2. Len(ok) \in Nat /\ Len(ok) <= n /\ ~(Len(ok) < n)
      BY <1>2, <3>1 DEF Before
    <3> QED  BY <1>1, <3>2
  <2>3. \A i \in 1..Len(ok) : ok[i] = t[i]
    BY <1>2 DEF Before
  <2> QED  BY <1>2, <2>2, <2>3, SeqEqual
<1> QED  BY <1>3, <1>4 DEF ok

\* What is spread in two steps can be spread in one.
LEMMA SpreadTwice ==
    ASSUME NEW C, NEW T, NEW S, NEW f, Gives(f, C, T), NEW g, Gives(g, T, S),
           NEW h, Gives(h, C, S), \A c \in C : h[c] = Spread(g, f[c]), NEW cs \in Seq(C)
    PROVE  Spread(h, cs) = Spread(g, Spread(f, cs))
<1> DEFINE Q == {x \in Seq(C) : Spread(h, x) = Spread(g, Spread(f, x))}
<1>1. <<>> \in Q
  <2> DEFINE z == <<>>
  <2>1. /\ z \in Seq(C) /\ z \in Seq(T)
        /\ \A i \in 1..Len(z) : h[z[i]] = <<>> /\ f[z[i]] = <<>> /\ g[z[i]] = <<>>
    OBVIOUS
  <2> HIDE DEF z
  <2>2. Spread(h, z) = <<>> /\ Spread(f, z) = <<>> /\ Spread(g, z) = <<>>
    BY <2>1, SpreadNone
  <2> QED  BY <2>1, <2>2 DEF z
<1>2. ASSUME NEW x \in Seq(C), NEW c \in C, x \in Q
      PROVE  Append(x, c) \in Q
  <2> DEFINE a == Spread(f, x)
             b == f[c]
  <2>1. a \in Seq(T) /\ b \in Seq(T) /\ Spread(f, Append(x, c)) = a \o b
    <3>1. a \in Seq(T)
      BY SpreadTyped
    <3>2. b \in Seq(T)
      BY DEF Gives
    <3>3. Spread(f, Append(x, c)) = a \o b
      BY SpreadAppend
    <3> QED  BY <3>1, <3>2, <3>3
  <2>2. Spread(h, Append(x, c)) = Spread(h, x) \o h[c]
    BY SpreadAppend
  <2>3. Spread(h, x) = Spread(g, a) /\ h[c] = Spread(g, b)
    BY <1>2
  <2> HIDE DEF a, b
  <2>4. Spread(g, a \o b) = Spread(g, a) \o Spread(g, b)
    BY <2>1, SpreadConcat
  <2>5. Append(x, c) \in Seq(C)
    BY AppendProperties
  <2> QED  BY <2>1, <2>2, <2>3, <2>4, <2>5
<1> HIDE DEF Q
<1>3. Seq(C) \subseteq Q
  BY <1>1, <1>2, SeqInduction
<1> QED  BY <1>3 DEF Q

\* What Map gives for the lines of the chunks is what it gives for those of the
\* file, when the chunks have its lines and a scanner takes them all.
MapAll(lines) == FlattenSeq(MapSeq(lines, MapLine))
AllMapped(cs) == FlattenSeq(MapSeq(cs, Mapped))

MapFor == [l \in FitLine |-> MapLine(l)]
FitChunk == {c \in Seq(Byte) : Lines(c) \in Seq(FitLine)}

LEMMA MapSpread ==
    ASSUME PipelineAssumption, NEW t \in Seq(FitLine)
    PROVE  Gives(MapFor, FitLine, Pair) /\ MapAll(t) = Spread(MapFor, t)
<1>1. \A l \in FitLine : MapLine(l) \in Seq(Pair)
  BY MapLineTyped DEF FitLine
<1>2. DOMAIN t = 1..Len(t) /\ \A i \in 1..Len(t) : t[i] \in FitLine
  BY LenProperties, ElementOfSeq
<1>3. \A i \in 1..Len(t) : MapFor[t[i]] = MapLine(t[i])
  BY <1>2 DEF MapFor
<1> QED  BY <1>1, <1>2, <1>3 DEF Gives, MapFor, MapAll, MapSeq, Spread, Images

LEMMA AllMappedLines ==
    ASSUME PipelineAssumption, NEW cs \in Seq(Seq(Byte)), FlattenSeq(LinesOf(cs)) \in Seq(FitLine)
    PROVE  AllMapped(cs) = MapAll(FlattenSeq(LinesOf(cs)))
<1> DEFINE f == [c \in FitChunk |-> Lines(c)]
           h == [c \in FitChunk |-> Mapped(c)]
           n == Len(cs)
<1>1. /\ n \in Nat /\ DOMAIN cs = 1..n /\ cs = [i \in 1..n |-> cs[i]]
      /\ \A i \in 1..n : cs[i] \in Seq(Byte)
  BY LenProperties, ElementOfSeq
<1>2. LinesOf(cs) \in Seq(Seq(FitLine))
  <2> DEFINE B == Seq(Byte)
             X == LinesOf(cs)
             Y == Seq(B)
  <2>1. \A i \in 1..n : Lines(cs[i]) \in Seq(B)
    BY <1>1, LinesTyped
  <2>2. LinesOf(cs) = [i \in 1..n |-> Lines(cs[i])]
    BY <1>1 DEF LinesOf, MapSeq
  <2>3. X \in [1..n -> Y]
    BY <2>1, <2>2
  <2> HIDE DEF n, B, X, Y
  <2>4. n \in Nat
    BY <1>1
  <2>5. X \in Seq(Y)
    BY ONLY <2>3, <2>4
  <2> QED  BY <2>5, FlattenParts DEF X, Y, B
<1>3. \A i \in 1..n : cs[i] \in FitChunk
  <2> SUFFICES ASSUME NEW i \in 1..n PROVE Lines(cs[i]) \in Seq(FitLine)
    BY <1>1 DEF FitChunk
  <2>1. LinesOf(cs)[i] = Lines(cs[i]) /\ Len(LinesOf(cs)) = n
    BY <1>1 DEF LinesOf, MapSeq
  <2> DEFINE X == LinesOf(cs)
             V == Seq(FitLine)
  <2>2. X \in Seq(V)
    BY <1>2
  <2>3. i \in 1..Len(X)
    BY <2>1
  <2> HIDE DEF X, V
  <2>4. X[i] \in V
    BY <2>2, <2>3, ElementOfSeq
  <2> QED  BY <2>1, <2>4 DEF X, V
<1>4. cs \in Seq(FitChunk)
  <2>1. cs \in [1..n -> FitChunk]
    BY <1>1, <1>3
  <2> HIDE DEF n
  <2> QED  BY <1>1, <2>1
<1>5. ASSUME NEW c \in FitChunk
      PROVE  /\ c \in Seq(Byte) /\ Lines(c) \in Seq(FitLine)
             /\ Mapped(c) = Spread(MapFor, Lines(c))
  <2>1. c \in Seq(Byte) /\ Lines(c) \in Seq(FitLine) /\ Lines(c) \in Seq(Seq(Byte))
    BY LinesTyped DEF FitChunk
  <2>2. Scanned(Lines(c)) = Lines(c)
    BY <2>1, ScannedAll
  <2>3. Mapped(c) = MapAll(Lines(c))
    BY <2>2 DEF Mapped, MapAll
  <2> QED  BY <2>1, <2>3, MapSpread
<1>6. Gives(f, FitChunk, FitLine)
  BY <1>5 DEF Gives
<1>7. Gives(h, FitChunk, Pair)
  <2>1. \A c \in FitChunk : Mapped(c) \in Seq(Pair)
    BY <1>5, MapTyped
  <2> QED  BY <2>1 DEF Gives
<1>8. \A c \in FitChunk : h[c] = Spread(MapFor, f[c])
  BY <1>5
<1>9. Gives(MapFor, FitLine, Pair)
  <2>1. <<>> \in Seq(FitLine)
    OBVIOUS
  <2> QED  BY <2>1, MapSpread
<1>10. AllMapped(cs) = Spread(h, cs) /\ FlattenSeq(LinesOf(cs)) = Spread(f, cs)
  <2>1. \A i \in 1..n : h[cs[i]] = Mapped(cs[i]) /\ f[cs[i]] = Lines(cs[i])
    BY <1>3
  <2> HIDE DEF f, h
  <2>2. Images(h, cs) = MapSeq(cs, Mapped) /\ Images(f, cs) = MapSeq(cs, Lines)
    BY <1>1, <2>1 DEF Images, MapSeq
  <2> QED  BY <2>2 DEF Spread, AllMapped, LinesOf
<1> HIDE DEF f, h
<1>11. Spread(h, cs) = Spread(MapFor, Spread(f, cs))
  BY <1>4, <1>6, <1>7, <1>8, <1>9, SpreadTwice
<1>12. MapAll(FlattenSeq(LinesOf(cs))) = Spread(MapFor, FlattenSeq(LinesOf(cs)))
  BY MapSpread
<1> QED  BY <1>10, <1>11, <1>12
-----------------------------------------------------------------------------
(* A result is made from the records that Map gives.                       *)

\* The keys that records s have for a reducer, and those before the first one
\* with an overlong record.
Mine(s, r) == {i \in DOMAIN s : Partition(Key(s[i])) = r}
KeysFor(s, r) == {Key(s[i]) : i \in Mine(s, r)}
SoundFor(s, r) ==
    {k \in KeysFor(s, r) : \A i \in Mine(s, r) : Overlong(s[i]) => k < Key(s[i])}

\* A reducer's file o has nothing but records of s, and all of a sound key.
Shared(o, s, r) ==
    \A kv \in Pair :
        /\ Occurrences(o, kv) <= Share(s, r, kv)
        /\ Key(kv) \in SoundFor(s, r) => Occurrences(o, kv) = Share(s, r, kv)

\* The values of a sound key do not depend on the order of the records, nor on
\* those of other partitions.
LEMMA ValuesAlike ==
    ASSUME PipelineAssumption, NEW o \in Seq(Pair), NEW s \in Seq(Pair), NEW r, Shared(o, s, r),
           NEW k \in SoundFor(s, r), NEW v
    PROVE  Occurrences(ValuesOf(o, k), v) = Occurrences(ValuesOf(s, k), v)
<1> DEFINE g == ValuesFor(k)
           S == Seq(Byte)
<1>1. Gives(g, Pair, S)
  BY ValuesGive
<1>2. ASSUME NEW x \in Pair
      PROVE  g[x] = <<>> \/ Occurrences(o, x) = Occurrences(s, x)
  <2>1. CASE Key(x) = k
    <3>1. Partition(k) = r
      BY DEF SoundFor, KeysFor, Mine
    <3> QED  BY <2>1, <3>1 DEF Shared, Share
  <2>2. CASE Key(x) # k
    BY <2>2 DEF ValuesFor
  <2> QED  BY <2>1, <2>2
<1>3. ValuesOf(o, k) = Spread(g, o) /\ ValuesOf(s, k) = Spread(g, s)
  BY ValuesSpread
<1> HIDE DEF g, S
<1>4. AlikeFor(g, Pair, o, s)
  BY <1>2 DEF AlikeFor
<1> QED  BY <1>1, <1>3, <1>4, SpreadAlike

LEMMA BagAlike ==
    ASSUME NEW S, NEW s \in Seq(S), NEW t \in Seq(S), \A v : Occurrences(s, v) = Occurrences(t, v)
    PROVE  ToBag(s) = ToBag(t)
<1>1. \A u \in Seq(S) : ToBag(u) = [v \in Range(u) |-> Occurrences(u, v)]
  BY DEF ToBag, Occurrences
<1>2. ASSUME NEW a \in Seq(S), NEW b \in Seq(S), \A v : Occurrences(a, v) = Occurrences(b, v)
      PROVE  Range(a) \subseteq Range(b)
  <2> SUFFICES ASSUME NEW v \in Range(a) PROVE v \in Range(b)
    OBVIOUS
  <2>1. PICK i \in 1..Len(a) : v = a[i]
    BY LenProperties DEF Range
  <2>2. Occurrences(b, v) # 0
    BY <1>2, <2>1, OccPositive
  <2>3. PICK j \in 1..Len(b) : b[j] = v
    BY <2>2, OccThere
  <2> QED  BY <2>3, LenProperties DEF Range
<1>3. Range(s) = Range(t)
  BY <1>2
<1> QED  BY <1>1, <1>3

\* What runReduce takes of the lines.
Takes(new, lines) ==
    \E n \in 0..Len(lines) :
        /\ DOMAIN new = 1..n
        /\ \A i \in 1..n : /\ Key(new[i]) = Key(lines[i])
                           /\ new[i][2] = Split(Value(lines[i]), Comma)
        /\ \A i \in 1..Len(lines) : i <= n <=> \A j \in 1..i : ~Overlong(lines[j])

LEMMA ReducedTakes ==
    ASSUME PipelineAssumption, NEW lines \in Seq(Pair)
    PROVE  Takes(Reduced(lines), lines)
<1> DEFINE m == Len(lines)
           ok == Readable(lines)
           n == Len(ok)
           new == Reduced(lines)
<1>1. m \in Nat
  BY LenProperties
<1>2. /\ ok \in Seq(ShortPair) /\ Before(ok, lines, LongRecords(lines))
      /\ DOMAIN ok = 1..n
  <2>1. ok \in Seq(ShortPair) /\ Before(ok, lines, LongRecords(lines))
    BY ReadableBefore
  <2> HIDE DEF ok
  <2> QED  BY <2>1, LenProperties
<1> HIDE DEF ok
<1>3. n \in 0..m /\ \A i \in 1..n : ok[i] = lines[i]
  BY <1>1, <1>2 DEF Before
<1>4. \A i \in 1..m : i <= n <=> \A j \in 1..i : j \notin LongRecords(lines)
  BY <1>1, <1>2, BeforeExact
<1>5. new = [i \in 1..n |-> <<Key(ok[i]), Split(Value(ok[i]), Comma)>>]
  BY <1>2 DEF Reduced, MapSeq, ok
<1> HIDE DEF n, new, m
<1>6. \A i \in 1..n : Key(new[i]) = Key(lines[i]) /\ new[i][2] = Split(Value(lines[i]), Comma)
  BY <1>3, <1>5 DEF Key
<1>7. \A i \in 1..m : \A j \in 1..i : j \notin LongRecords(lines) <=> ~Overlong(lines[j])
  <2>1. \A i \in 1..m : \A j \in 1..i : j \in 1..m
    BY <1>1
  <2> QED  BY <2>1 DEF LongRecords, m
<1>8. \A i \in 1..m : i <= n <=> \A j \in 1..i : ~Overlong(lines[j])
  BY <1>4, <1>7
<1>9. DOMAIN new = 1..n
  BY <1>5
<1> QED  BY <1>3, <1>6, <1>8, <1>9 DEF Takes, m, new

\* What a reducer's result is, when Map gives the records s.
Fitting(s, r) == {k \in KeysFor(s, r) : LineLength(ValuesOf(s, k)) <= MaxToken}

ResultFor(lines, s, r) ==
    LET called == {Key(lines[i]) : i \in DOMAIN lines}
    IN /\ \A i, j \in DOMAIN lines : i < j => Key(lines[i]) < Key(lines[j])
       /\ called \subseteq KeysFor(s, r)
       /\ called \cap SoundFor(s, r)
              = {k \in SoundFor(s, r) : \A l \in KeysFor(s, r) : l <= k => l \in Fitting(s, r)}
       /\ \A i \in DOMAIN lines : Key(lines[i]) \in SoundFor(s, r) =>
              ToBag(lines[i][2]) = ToBag(ValuesOf(s, Key(lines[i])))

ReducedFrom(lines, s, r) ==
    \E o \in Seq(Pair) : KeySorted(o) /\ Shared(o, s, r) /\ lines = Reduced(Merged(o))

\* The keys of shuffle's lines are keys of the partition, and the sound ones
\* are there.
LEMMA SortedKeys ==
    ASSUME PipelineAssumption, NEW o \in Seq(Pair), NEW s \in Seq(Pair), NEW r, Shared(o, s, r),
           NEW m, KeyLines(m, o), LinesExact(m, o)
    PROVE  /\ {Key(m[i]) : i \in 1..Len(m)} \subseteq KeysFor(s, r)
           /\ SoundFor(s, r) \subseteq {Key(m[i]) : i \in 1..Len(m)}
<1>1. /\ DOMAIN s = 1..Len(s) /\ (\A i \in 1..Len(s) : s[i] \in Pair)
      /\ \A i \in 1..Len(o) : o[i] \in Pair
  BY LenProperties, ElementOfSeq
<1>2. ASSUME NEW k \in SoundFor(s, r)
      PROVE  k \in {Key(m[i]) : i \in 1..Len(m)}
  <2>1. PICK i \in 1..Len(s) : k = Key(s[i]) /\ Partition(k) = r
    BY <1>1 DEF SoundFor, KeysFor, Mine
  <2>2. s[i] \in Pair /\ Occurrences(s, s[i]) # 0
    BY <1>1, OccPositive
  <2>3. Occurrences(o, s[i]) # 0
    BY <2>1, <2>2 DEF Shared, Share
  <2>4. PICK j \in 1..Len(o) : o[j] = s[i]
    BY <2>3, OccThere
  <2> QED  BY <2>1, <2>4 DEF LinesExact
<1>3. ASSUME NEW i \in 1..Len(m)
      PROVE  Key(m[i]) \in KeysFor(s, r)
  <2>1. PICK j \in 1..Len(o) : Key(m[i]) = Key(o[j])
    BY DEF KeyLines
  <2>2. o[j] \in Pair /\ Occurrences(o, o[j]) # 0 /\ Occurrences(o, o[j]) \in Nat
    BY <1>1, OccPositive, OccTyped
  <2>3. Share(s, r, o[j]) # 0
    <3>1. Occurrences(o, o[j]) <= Share(s, r, o[j])
      BY <2>2 DEF Shared
    <3> QED  BY <2>2, <3>1
  <2>4. Partition(Key(o[j])) = r /\ Occurrences(s, o[j]) # 0
    BY <2>3 DEF Share
  <2>5. PICK n \in 1..Len(s) : s[n] = o[j]
    BY <2>4, OccThere
  <2> QED  BY <1>1, <2>1, <2>4, <2>5 DEF KeysFor, Mine
<1> QED  BY <1>2, <1>3

LEMMA ReducedResult ==
    ASSUME PipelineAssumption, NEW lines, NEW s \in Seq(Pair), NEW r, ReducedFrom(lines, s, r)
    PROVE  ResultFor(lines, s, r)
<1>1. PICK o \in Seq(Pair) : KeySorted(o) /\ Shared(o, s, r) /\ lines = Reduced(Merged(o))
  BY DEF ReducedFrom
<1> DEFINE m == Merged(o)
           q == Len(m)
           keys == KeysFor(s, r)
           sound == SoundFor(s, r)
<1>2. KeyLines(m, o) /\ LinesExact(m, o)
  BY <1>1, MergedOnce, MergedExact
<1>3. Takes(lines, m) /\ m \in Seq(Pair)
  BY <1>1, <1>2, ReducedTakes DEF KeyLines
<1> HIDE DEF m
<1>4. /\ \A i \in 1..q : Key(m[i]) \in keys
      /\ \A k \in sound : k \in keys /\ \E i \in 1..q : k = Key(m[i])
  <2>1. /\ {Key(m[i]) : i \in 1..Len(m)} \subseteq KeysFor(s, r)
        /\ SoundFor(s, r) \subseteq {Key(m[i]) : i \in 1..Len(m)}
    BY <1>1, <1>2, SortedKeys
  <2> QED  BY <2>1 DEF SoundFor
<1>5. /\ q \in Nat /\ (\A i \in 1..q : m[i] \in Pair /\ Key(m[i]) \in Nat)
      /\ \A i, j \in 1..q : i < j => Key(m[i]) < Key(m[j])
  <2>1. q \in Nat /\ \A i \in 1..q : m[i] \in Pair
    BY <1>3, LenProperties, ElementOfSeq
  <2>2. \A x \in Pair : Key(x) \in Nat
    BY DEF Pair, Key, PipelineAssumption
  <2> QED  BY <1>2, <2>1, <2>2 DEF KeyLines
<1>6. PICK n \in 0..q :
         /\ DOMAIN lines = 1..n
         /\ \A i \in 1..n : /\ Key(lines[i]) = Key(m[i])
                            /\ lines[i][2] = Split(Value(m[i]), Comma)
         /\ \A i \in 1..q : i <= n <=> \A j \in 1..i : ~Overlong(m[j])
  BY <1>3 DEF Takes
\* The values of a sound key's line are, up to their order, those that Map gives.
<1>7. ASSUME NEW i \in 1..q, Key(m[i]) \in sound
      PROVE  /\ ToBag(Split(Value(m[i]), Comma)) = ToBag(ValuesOf(s, Key(m[i])))
             /\ LineLength(ValuesOf(s, Key(m[i]))) = Len(Value(m[i])) + 2
             /\ Len(Value(m[i])) \in Nat
  <2> DEFINE k == Key(m[i])
             a == Split(Value(m[i]), Comma)
             b == ValuesOf(o, k)
             c == ValuesOf(s, k)
  <2>1. k \in sound
    BY <1>7
  <2>2. Value(m[i]) \in Seq(Byte)
    BY <1>5 DEF Pair, Value
  <2>3. a = b
    BY <1>2 DEF LinesExact, LineExact
  <2>4. b \in Seq(Seq(Byte)) /\ c \in Seq(Seq(Byte))
    BY ValuesTyped
  <2>5. \A v : Occurrences(b, v) = Occurrences(c, v)
    BY <1>1, <2>1, ValuesAlike
  <2>6. Spelled(a) = Len(Value(m[i])) + 1 /\ Len(Value(m[i])) \in Nat
    BY <2>2, SplitSpelled, LenProperties
  <2> HIDE DEF a, b, c
  <2>7. ToBag(b) = ToBag(c) /\ Spelled(b) = Spelled(c)
    BY <2>4, <2>5, BagAlike, SpelledAlike
  <2>8. LineLength(c) = Spelled(c) + 1
    BY DEF LineLength, Spelled
  <2>9. LineLength(c) = Len(Value(m[i])) + 2
    BY <2>3, <2>6, <2>7, <2>8
  <2> QED  BY <2>3, <2>6, <2>7, <2>9 DEF a, c
\* A key before a sound one is sound.
<1>8. ASSUME NEW k \in sound, NEW l \in keys, l <= k
      PROVE  l \in sound
  <2>1. \A i \in Mine(s, r) : Key(s[i]) \in Nat
    <3>1. DOMAIN s = 1..Len(s)
      BY LenProperties
    <3>2. \A i \in Mine(s, r) : s[i] \in Pair
      BY <3>1, ElementOfSeq DEF Mine
    <3> QED  BY <3>2 DEF Pair, Key, PipelineAssumption
  <2>2. k \in Nat /\ l \in Nat
    BY <1>4, <2>1 DEF KeysFor
  <2> SUFFICES ASSUME NEW i \in Mine(s, r), Overlong(s[i])
               PROVE  l < Key(s[i])
    BY DEF SoundFor
  <2>3. k < Key(s[i]) /\ Key(s[i]) \in Nat
    BY <2>1 DEF SoundFor
  <2> QED  BY <1>8, <2>2, <2>3
<1>9. ASSUME NEW i \in 1..q, Key(m[i]) \in sound
      PROVE  Key(m[i]) \in Fitting(s, r) <=> ~Overlong(m[i])
  <2>1. Key(m[i]) \in Fitting(s, r) <=> LineLength(ValuesOf(s, Key(m[i]))) <= MaxToken
    BY <1>4 DEF Fitting
  <2> QED  BY <1>7, <1>9, <2>1 DEF Overlong, PipelineAssumption
<1> HIDE DEF q, keys, sound
<1>10. \A i \in 1..n : i \in 1..q
  BY <1>5
<1>11. ASSUME NEW i \in DOMAIN lines, NEW j \in DOMAIN lines, i < j
      PROVE  Key(lines[i]) < Key(lines[j])
  BY <1>5, <1>6, <1>10, <1>11
<1>12. ASSUME NEW i \in DOMAIN lines, Key(lines[i]) \in sound
       PROVE  ToBag(lines[i][2]) = ToBag(ValuesOf(s, Key(lines[i])))
  <2>1. i \in 1..n /\ i \in 1..q
    BY <1>6, <1>10
  <2> QED  BY <1>6, <1>7, <1>12, <2>1
<1>13. \A i, j \in 1..q : Key(m[j]) <= Key(m[i]) <=> j <= i
  <2> SUFFICES ASSUME NEW i \in 1..q, NEW j \in 1..q
               PROVE  Key(m[j]) <= Key(m[i]) <=> j <= i
    OBVIOUS
  <2>1. i \in Nat /\ j \in Nat /\ Key(m[i]) \in Nat /\ Key(m[j]) \in Nat
    BY <1>5
  <2>2. (i < j => Key(m[i]) < Key(m[j])) /\ (j < i => Key(m[j]) < Key(m[i]))
    BY <1>5
  <2>3. i = j => Key(m[i]) = Key(m[j])
    OBVIOUS
  <2> QED  BY ONLY <2>1, <2>2, <2>3
\* The sound keys of the result are those before the first that does not fit.
<1>14. ASSUME NEW i \in 1..q, Key(m[i]) \in sound
       PROVE  i <= n <=> \A l \in keys : l <= Key(m[i]) => l \in Fitting(s, r)
  <2>1. ASSUME i <= n, NEW l \in keys, l <= Key(m[i])
        PROVE  l \in Fitting(s, r)
    <3>1. l \in sound
      BY <1>8, <1>14, <2>1
    <3>2. PICK j \in 1..q : l = Key(m[j])
      BY <1>4, <3>1
    <3>3. j \in 1..i
      BY <1>5, <1>13, <2>1, <3>2
    <3>4. ~Overlong(m[j])
      BY <1>6, <2>1, <3>3
    <3> QED  BY <1>9, <3>1, <3>2, <3>4
  <2>2. ASSUME \A l \in keys : l <= Key(m[i]) => l \in Fitting(s, r)
        PROVE  i <= n
    <3>1. ASSUME NEW j \in 1..i
          PROVE  ~Overlong(m[j])
      <4>1. j \in 1..q /\ j <= i
        BY <1>5
      <4>2. Key(m[j]) \in keys /\ Key(m[j]) <= Key(m[i])
        BY <1>4, <1>13, <4>1
      <4>3. Key(m[j]) \in sound /\ Key(m[j]) \in Fitting(s, r)
        BY <1>8, <1>14, <2>2, <4>2
      <4> QED  BY <1>9, <4>1, <4>3
    <3> QED  BY <1>6, <3>1
  <2> QED  BY <2>1, <2>2
<1>15. \A i \in DOMAIN lines : i \in 1..n /\ i \in 1..q /\ i <= n /\ Key(lines[i]) = Key(m[i])
  BY <1>6, <1>10
<1>16. {Key(lines[i]) : i \in DOMAIN lines} \cap sound
           = {k \in sound : \A l \in keys : l <= k => l \in Fitting(s, r)}
  <2>1. ASSUME NEW i \in DOMAIN lines, Key(lines[i]) \in sound
        PROVE  \A l \in keys : l <= Key(lines[i]) => l \in Fitting(s, r)
    BY <1>14, <1>15, <2>1
  <2>2. ASSUME NEW k \in sound, \A l \in keys : l <= k => l \in Fitting(s, r)
        PROVE  \E i \in DOMAIN lines : k = Key(lines[i])
    <3>1. PICK i \in 1..q : k = Key(m[i])
      BY <1>4
    <3>2. i <= n
      BY <1>14, <2>2, <3>1
    <3>3. i \in 1..n
      BY <3>2
    <3> QED  BY <1>6, <3>1, <3>3
  <2> QED  BY <2>1, <2>2
<1>17. {Key(lines[i]) : i \in DOMAIN lines} \subseteq keys
  BY <1>4, <1>15
<1> QED  BY <1>11, <1>12, <1>16, <1>17 DEF ResultFor, keys, sound
-----------------------------------------------------------------------------
\* The result of a reducer that has finished is made from its sorted records.
Finished(r) == at = "done" \/ (at \in {"fetch", "sort", "batch", "last"} /\ r < now)

ExactInv == \A r \in Reducer : Finished(r) => ReducedFrom(result[r], AllMapped(chunks), r)

\* What Map gives for a chunk is among what it gives for all.
AmongAll(x, cs) == x \in Pair /\ \E j \in DOMAIN AllMapped(cs) : AllMapped(cs)[j] = x

LEMMA GivenInAll ==
    ASSUME PipelineAssumption, NEW cs \in Seq(Seq(Byte)), NEW t \in 1..Len(cs),
           NEW i \in DOMAIN Mapped(cs[t])
    PROVE  AmongAll(Mapped(cs[t])[i], cs)
<1> DEFINE m == Mapped(cs[t])
           x == m[i]
           F == (1..Len(cs)) \ {t}
           r == Partition(Key(x))
           all == AllMapped(cs)
<1>1. m \in Seq(Pair)
  <2>1. cs[t] \in Seq(Byte)
    BY ElementOfSeq
  <2> QED  BY <2>1, MapTyped
<1>2. x \in Pair /\ Occurrences(m, x) # 0 /\ Occurrences(m, x) \in Nat
  <2>1. i \in DOMAIN m
    OBVIOUS
  <2> HIDE DEF m
  <2>2. i \in 1..Len(m)
    BY <1>1, <2>1, LenProperties
  <2> QED  BY <1>1, <2>2, ElementOfSeq, OccPositive, OccTyped
<1>3. all \in Seq(Pair) /\ all = Gathered(cs, 1..Len(cs))
  <2>1. DOMAIN cs = 1..Len(cs)
    BY LenProperties
  <2>2. Taken(cs, 1..Len(cs)) = MapSeq(cs, Mapped)
    BY <2>1 DEF Taken, MapSeq
  <2>3. Taken(cs, 1..Len(cs)) \in Seq(Seq(Pair))
    BY TakenTyped
  <2> QED  BY <2>2, <2>3, FlattenTyped DEF AllMapped, Gathered
<1>4. F \cup {t} = 1..Len(cs) /\ t \notin F
  OBVIOUS
<1> HIDE DEF F, all, m, x
<1>5. Share(Gathered(cs, F \cup {t}), r, x) = Share(Gathered(cs, F), r, x) + Share(m, r, x)
  BY <1>4, TakenMore DEF m
<1>6. Share(m, r, x) = Occurrences(m, x)
  BY DEF Share
<1>7. Share(Gathered(cs, F), r, x) \in Nat
  <2>1. Taken(cs, F) \in Seq(Seq(Pair))
    BY TakenTyped
  <2>2. Gathered(cs, F) \in Seq(Pair)
    BY <2>1, FlattenTyped DEF Gathered
  <2> QED  BY <2>2, ShareTyped
<1>8. Occurrences(all, x) # 0
  <2>1. Gathered(cs, F \cup {t}) = all
    BY <1>3, <1>4
  <2>2. Share(all, r, x) = Share(Gathered(cs, F), r, x) + Occurrences(m, x)
    BY <1>5, <1>6, <2>1
  <2>3. Share(all, r, x) # 0
    BY <1>2, <1>7, <2>2
  <2> QED  BY <2>3 DEF Share
<1>9. PICK j \in 1..Len(all) : all[j] = x
  BY <1>3, <1>8, OccThere
<1>10. j \in DOMAIN all
  BY <1>3, LenProperties
<1> QED  BY <1>2, <1>9, <1>10 DEF AmongAll, all, x, m

LEMMA ReduceExact ==
    ASSUME PipelineAssumption, PipelineInv, RecordsInv, ExactInv, Reduce
    PROVE  ExactInv'
<1> DEFINE new == Reduced(Merged(out))
           all == AllMapped(chunks)
<1>1. /\ at = "last" /\ Exhausted /\ result' = [result EXCEPT ![now] = new] /\ chunks' = chunks
      /\ DOMAIN result = Reducer /\ out \in Seq(Pair) /\ KeySorted(out) /\ now \in Reducer
      /\ \/ now + 1 \in Reducer /\ at' = "fetch" /\ now' = now + 1
         \/ now + 1 \notin Reducer /\ at' = "done"
  <2>1. out \in Seq(ShortPair)
    BY DEF PipelineInv, MergeInv
  <2>2. out \in Seq(Pair) /\ Readable(out) = out
    BY <2>1, ReadableShort
  <2> QED  BY <2>2 DEF Reduce, PipelineInv, Progress, MergeInv
\* What may be lost for a key is lost to an overlong record that is not after it.
<1>a. ASSUME NEW kv \in Pair, Key(kv) \in SoundFor(all, now), Lost(chunks, 1..Len(chunks), kv)
      PROVE  FALSE
  <2>1. Partition(Key(kv)) = now
    BY <1>a DEF SoundFor, KeysFor, Mine
  <2>2. PICK t \in 1..Len(chunks) : CutOff(chunks[t], kv)
    BY <1>a DEF Lost
  <2>3. PICK i \in DOMAIN Mapped(chunks[t]) :
           /\ Overlong(Mapped(chunks[t])[i])
           /\ Partition(Key(Mapped(chunks[t])[i])) = now
           /\ Key(Mapped(chunks[t])[i]) <= Key(kv)
    BY <2>1, <2>2 DEF CutOff
  <2>4. chunks \in Seq(Seq(Byte))
    BY DEF PipelineInv, FileInv
  <2> HIDE DEF all
  <2>5. PICK j \in DOMAIN all : all[j] = Mapped(chunks[t])[i] /\ all[j] \in Pair
    <3>1. AmongAll(Mapped(chunks[t])[i], chunks)
      BY <2>4, GivenInAll
    <3> QED  BY <3>1 DEF AmongAll, all
  <2>6. j \in Mine(all, now) /\ Overlong(all[j]) /\ Key(all[j]) <= Key(kv)
    BY <2>3, <2>5 DEF Mine
  <2>7. Key(kv) < Key(all[j])
    BY <1>a, <2>6 DEF SoundFor
  <2>8. Key(kv) \in Nat /\ Key(all[j]) \in Nat
    BY <2>5 DEF Pair, Key, PipelineAssumption
  <2> QED  BY <2>6, <2>7, <2>8
<1>2. ReducedFrom(new, AllMapped(chunks), now)
  <2>1. ASSUME NEW kv \in Pair
        PROVE  /\ Occurrences(out, kv) <= Share(all, now, kv)
               /\ Key(kv) \in SoundFor(all, now) =>
                      Occurrences(out, kv) = Share(all, now, kv)
    <3>1. /\ Occurrences(out, kv) <= Share(all, now, kv)
          /\ \/ Occurrences(out, kv) = Share(all, now, kv)
             \/ Lost(chunks, 1..Len(chunks), kv)
      BY <1>1, SortedHasAll DEF AllMapped
    <3> HIDE DEF all
    <3> QED  BY <1>a, <3>1
  <2>2. Shared(out, AllMapped(chunks), now)
    BY <2>1 DEF Shared
  <2> QED  BY <1>1, <2>2 DEF ReducedFrom
<1> HIDE DEF new
<1>3. ASSUME NEW r \in Reducer, Finished(r)'
      PROVE  ReducedFrom(result'[r], AllMapped(chunks), r)
  <2>1. CASE r = now
    <3>1. result'[r] = new
      BY <1>1, <2>1
    <3> QED  BY <1>2, <2>1, <3>1
  <2>2. CASE r # now
    <3>1. r < now
      <4>1. NumReducers \in Nat /\ r \in Nat /\ now \in Nat /\ r < NumReducers
        BY <1>1 DEF Reducer, PipelineAssumption
      <4>2. CASE now + 1 \in Reducer /\ at' = "fetch" /\ now' = now + 1
        <5>1. r < now + 1
          BY <1>3, <4>2 DEF Finished
        <5> QED  BY <2>2, <4>1, <5>1
      <4>3. CASE now + 1 \notin Reducer
        <5>1. ~(now + 1 < NumReducers)
          BY <4>1, <4>3 DEF Reducer
        <5> QED  BY <2>2, <4>1, <5>1
      <4> QED  BY <1>1, <4>2, <4>3
    <3>2. result'[r] = result[r] /\ Finished(r)
      BY <1>1, <2>2, <3>1 DEF Finished
    <3> QED  BY <3>2 DEF ExactInv
  <2> QED  BY <2>1, <2>2
<1>4. AllMapped(chunks)' = AllMapped(chunks)
  BY <1>1
<1> QED  BY <1>3, <1>4 DEF ExactInv

LEMMA ExactKeeps ==
    ASSUME PipelineAssumption, PipelineInv, RecordsInv, ExactInv, [Next]_vars
    PROVE  ExactInv'
<1> SUFFICES ASSUME ~Reduce,
                    NEW r \in Reducer, Finished(r)'
             PROVE  ReducedFrom(result[r], AllMapped(chunks), r)'
  BY ReduceExact DEF ExactInv
<1>1. ~(r < 0)
  BY DEF Reducer, PipelineAssumption
<1>2. result' = result /\ chunks' = chunks /\ Finished(r)
  <2>1. CASE Cut \/ CutDone \/ Scan \/ Spill \/ StartMerge
    BY <1>1, <2>1 DEF Cut, CutDone, Scan, Spill, StartMerge, Finished
  <2>2. CASE Pop
    BY <2>2 DEF Pop, Finished
  <2>3. CASE PartitionDone
    BY <1>1, <2>3 DEF PartitionDone, Finished
  <2>4. CASE Fetch \/ FetchDone \/ StartBatch \/ BatchDone \/ NextLevel
    BY <2>4 DEF Fetch, FetchDone, StartBatch, BatchDone, NextLevel, Finished
  <2>5. CASE UNCHANGED vars
    BY <2>5 DEF vars, Finished
  <2> QED  BY <2>1, <2>2, <2>3, <2>4, <2>5 DEF Next
<1>3. ReducedFrom(result[r], AllMapped(chunks), r)
  BY <1>2 DEF ExactInv
<1> QED  BY <1>2, <1>3

LEMMA ExactInit ==
    ASSUME Init
    PROVE  ExactInv
  BY DEF Init, ExactInv, Finished
-----------------------------------------------------------------------------
(* The theorems.                                                           *)

\* The invariant of the pipeline: what is cut is the file so far, every file
\* and run it sorts is sorted, no record a merge has left comes before one it
\* has written, and each finished map task has all of its index.
THEOREM PipelineInvariant == Spec => []PipelineInv
<1>1. Init => PipelineInv
  BY InitHolds, PipelineAssumption
<1>2. PipelineInv /\ [Next]_vars => PipelineInv'
  BY NextKeeps, PipelineAssumption
<1> QED  BY <1>1, <1>2, PTL DEF Spec

\* The chunks of a file are the file, and the map tasks of a text file with
\* lines that fit see its lines (calculateChunks, runMap): whatever the size of
\* the chunks, no chunk's end cuts a line in two.
THEOREM ChunksMakeFile == Spec => []ChunksAreFile
<1>1. Init => PipelineInv /\ LinesInv
  BY InitHolds, LinesInit, PipelineAssumption
<1>2. PipelineInv /\ LinesInv /\ [Next]_vars => PipelineInv' /\ LinesInv'
  BY NextKeeps, LinesKeep, PipelineAssumption
<1>3. PipelineInv /\ LinesInv => ChunksAreFile
  <2> SUFFICES ASSUME PipelineInv, LinesInv PROVE ChunksAreFile
    OBVIOUS
  <2>1. ASSUME at # "cut", ShortLines
        PROVE  FlattenSeq(MapSeq(chunks, Lines)) = Lines(file)
    BY <2>1 DEF PipelineInv, FileInv, LinesInv, CutAtLines, LinesOf
  <2> QED  BY <2>1 DEF PipelineInv, FileInv, ChunksAreFile
<1> QED  BY <1>1, <1>2, <1>3, PTL DEF Spec

\* The pipeline is typed: in particular a fetch names a chunk, and no task has
\* more intermediate files than there are chunks.
THEOREM PipelineTyped == Spec => []TypeOK
<1>1. PipelineInv => TypeOK
  <2> SUFFICES ASSUME PipelineInv PROVE TypeOK
    OBVIOUS
  <2>1. /\ chunks \in Seq(Seq(Byte)) /\ DOMAIN chunks = 1..Len(chunks) /\ Len(chunks) \in Nat
        /\ 0 \in Reducer
    BY PipelineAssumption, LenProperties DEF PipelineInv, FileInv, Reducer, PipelineAssumption
  <2>2. now \in Reducer \cup DOMAIN chunks /\ Len(inter) <= Len(chunks)
    <3>1. Len(<<>>) = 0
      OBVIOUS
    <3> QED  BY <2>1, <3>1 DEF PipelineInv, Progress
  <2> QED  BY <2>1, <2>2 DEF PipelineInv, FileInv, Progress, TypeOK
<1> QED  BY <1>1, PipelineInvariant, PTL

\* Every merge writes its output in key order (mergeSpills, ExternalSort): for
\* any number of spills, batches and levels.
THEOREM MergesAreSorted == Spec => []MergesSorted
<1>1. PipelineInv => MergesSorted
  <2> SUFFICES ASSUME PipelineInv PROVE MergesSorted
    OBVIOUS
  <2>1. DOMAIN inputs = 1..Len(inputs) /\ DOMAIN temps = 1..Len(temps)
    BY LenProperties DEF PipelineInv, FilesInv, SortedRuns
  <2> QED  BY <2>1 DEF PipelineInv, FilesInv, MergeInv, SortedRuns, MergesSorted
<1> QED  BY <1>1, PipelineInvariant, PTL

\* A reducer's sorted file has no record that Map did not give for it and none
\* more often, and each one as often unless mergeSpills' scanner stopped at a
\* longer record of the same task that is not after it (spill, mergeSpills,
\* KVScanner, handleFetchIntermediate, ExternalSort): for any number of spills,
\* partitions, fetches and levels of merges, and any Map.
THEOREM RecordsAreKept == Spec => []RecordsKept
<1>1. Init => PipelineInv /\ RecordsInv
  BY InitHolds, RecordsInit, PipelineAssumption
<1>2. PipelineInv /\ RecordsInv /\ [Next]_vars => PipelineInv' /\ RecordsInv'
  BY NextKeeps, RecordsKeep, PipelineAssumption
<1>3. PipelineInv /\ RecordsInv => RecordsKept
  <2> DEFINE all == FlattenSeq(MapSeq(chunks, Mapped))
  <2> SUFFICES ASSUME PipelineInv, RecordsInv, at = "last", Exhausted,
                      NEW kv \in Range(all) \cup Range(out)
               PROVE  IF Partition(Key(kv)) # now THEN Occurrences(out, kv) = 0
                      ELSE /\ Occurrences(out, kv) <= Occurrences(all, kv)
                           /\ \/ Occurrences(out, kv) = Occurrences(all, kv)
                              \/ Lost(chunks, 1..Len(chunks), kv)
    <3>1. DOMAIN chunks = 1..Len(chunks)
      BY LenProperties DEF PipelineInv, FileInv
    <3> QED  BY <3>1 DEF RecordsKept, Lost
  <2>1. all \in Seq(Pair) /\ out \in Seq(Pair) /\ Occurrences(out, kv) \in Nat
    <3>1. Taken(chunks, 1..Len(chunks)) \in Seq(Seq(Pair))
      BY PipelineAssumption, TakenTyped DEF PipelineInv, FileInv
    <3>2. Taken(chunks, 1..Len(chunks)) = MapSeq(chunks, Mapped)
      <4>1. DOMAIN chunks = 1..Len(chunks)
        BY LenProperties DEF PipelineInv, FileInv
      <4> QED  BY <4>1 DEF Taken, MapSeq
    <3>3. out \in Seq(ShortPair)
      BY DEF PipelineInv, MergeInv
    <3> QED  BY <3>1, <3>2, <3>3, FlattenTyped, ReadableShort, OccTyped
  <2> HIDE DEF all
  <2>2. kv \in Pair
    BY <2>1, LenProperties, ElementOfSeq DEF Range
  <2>3. /\ Occurrences(out, kv) <= Share(all, now, kv)
        /\ \/ Occurrences(out, kv) = Share(all, now, kv)
           \/ Lost(chunks, 1..Len(chunks), kv)
    BY <2>2, PipelineAssumption, SortedHasAll DEF all
  <2>4. CASE Partition(Key(kv)) = now
    BY <2>3, <2>4 DEF Share
  <2>5. CASE Partition(Key(kv)) # now
    <3>1. Share(all, now, kv) = 0
      BY <2>5 DEF Share
    <3> QED  BY <2>1, <2>3, <2>5, <3>1
  <2> QED  BY <2>4, <2>5
<1> QED  BY <1>1, <1>2, <1>3, PTL DEF Spec

\* No two calls of Reduce in a job have the same key (shuffle, runReduce,
\* ihash): the lines of a result have the keys of its partition, each once.
THEOREM KeysReducedOnce == Spec => []KeyReducedOnce
<1>1. Init => PipelineInv /\ RecordsInv /\ ResultInv
  BY InitHolds, RecordsInit, ResultInit, PipelineAssumption
<1>2. PipelineInv /\ RecordsInv /\ ResultInv /\ [Next]_vars
        => PipelineInv' /\ RecordsInv' /\ ResultInv'
  BY NextKeeps, RecordsKeep, ResultKeeps, PipelineAssumption
<1>3. ResultInv => KeyReducedOnce
  <2> SUFFICES ASSUME ResultInv, NEW r \in Reducer, NEW q \in Reducer,
                      NEW i \in DOMAIN result[r], NEW j \in DOMAIN result[q],
                      Key(result[r][i]) = Key(result[q][j])
               PROVE  r = q /\ i = j
    BY DEF KeyReducedOnce
  <2>1. KeysOf(result[r], r) /\ KeysOf(result[q], q)
    BY DEF ResultInv
  <2>2. r = q
    BY <2>1 DEF KeysOf
  <2>3. i \in Nat /\ j \in Nat /\ Key(result[r][i]) \in Nat
    BY <2>1 DEF KeysOf
  <2>4. ~(i < j) /\ ~(j < i)
    BY <2>1, <2>2, <2>3 DEF KeysOf
  <2> QED  BY <2>2, <2>3, <2>4
<1> QED  BY <1>1, <1>2, <1>3, PTL DEF Spec

\* A reducer is called in key order, once for a key, and only for keys of its
\* partition; of the keys before the first with an overlong record, exactly
\* for those before the first that does not fit, with the values that Map gives
\* for them (runMap, spill, mergeSpills, KVScanner, shuffle, ExternalSort,
\* runReduce): for every text file whose lines fit, and any Map, chunks, spills,
\* batches and ties.
THEOREM ResultsAreExact == Spec => []ResultExact
<1>1. Init => PipelineInv /\ LinesInv /\ RecordsInv /\ ExactInv
  BY InitHolds, LinesInit, RecordsInit, ExactInit, PipelineAssumption
<1>2. PipelineInv /\ LinesInv /\ RecordsInv /\ ExactInv /\ [Next]_vars
        => PipelineInv' /\ LinesInv' /\ RecordsInv' /\ ExactInv'
  BY NextKeeps, LinesKeep, RecordsKeep, ExactKeeps, PipelineAssumption
<1>3. PipelineInv /\ LinesInv /\ RecordsInv /\ ExactInv => ResultExact
  <2> SUFFICES ASSUME PipelineInv, LinesInv, ExactInv,
                      at = "done", ShortLines, Scanned(Lines(file)) = Lines(file),
                      NEW r \in Reducer
               PROVE  ResultFor(result[r], MapAll(Lines(file)), r)
    BY DEF ResultExact, ResultFor, KeysFor, SoundFor, Mine, Fitting, MapAll
  <2>1. chunks \in Seq(Seq(Byte)) /\ file \in Seq(Byte) /\ FlattenSeq(chunks) = file
    BY DEF PipelineInv, FileInv
  <2>2. FlattenSeq(LinesOf(chunks)) = Lines(file)
    BY <2>1 DEF LinesInv, CutAtLines
  <2>3. Lines(file) \in Seq(FitLine)
    BY <2>1, LinesTyped, ScannedAll, PipelineAssumption
  <2>4. AllMapped(chunks) = MapAll(Lines(file))
    BY <2>1, <2>2, <2>3, AllMappedLines, PipelineAssumption
  <2>5. MapAll(Lines(file)) \in Seq(Pair)
    <3>1. Gives(MapFor, FitLine, Pair) /\ MapAll(Lines(file)) = Spread(MapFor, Lines(file))
      BY <2>3, MapSpread, PipelineAssumption
    <3> QED  BY <2>3, <3>1, SpreadTyped
  <2>6. ReducedFrom(result[r], AllMapped(chunks), r)
    BY DEF ExactInv, Finished
  <2> QED  BY <2>4, <2>5, <2>6, ReducedResult, PipelineAssumption
<1> QED  BY <1>1, <1>2, <1>3, PTL DEF Spec
=============================================================================
