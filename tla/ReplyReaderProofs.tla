-------------------------- MODULE ReplyReaderProofs --------------------------
(***************************************************************************)
(* Proofs about ReplyReader: for every number of lines, every length of a   *)
(* line and every cut, the real parsers stop at the end of a reply and      *)
(* return what was written.  Where the line ends of a text are is proved by *)
(* induction on numbers (WFMin), as a fact about sets.                      *)
(***************************************************************************)
EXTENDS ReplyReader, FiniteSetTheorems, SequenceTheorems, WellFoundedInduction, TLAPS

\* Every set of numbers that is not empty has a least one.
LEMMA Least ==
  ASSUME NEW T, T \subseteq Nat, T # {}
  PROVE  \E x \in T : \A y \in T : x <= y
<1>. DEFINE R == OpToRel(<, Nat)
<1>1. IsWellFoundedOn(R, Nat)
  BY NatLessThanWellFounded
<1>2. \A x, y \in Nat : <<y, x>> \in R <=> y < x
  BY DEF OpToRel
<1>. HIDE DEF R
<1>3. PICK x \in T : \A y \in T : ~(<<y, x>> \in R)
  BY <1>1, WFMin
<1>4. ASSUME NEW y \in T PROVE x <= y
  <2>1. x \in Nat /\ y \in Nat /\ ~(y < x)
    BY <1>2, <1>3
  <2>. QED
    BY <2>1
<1>. QED
  BY <1>4

\* A set with 0 in it, and with each number the next, holds them all.
LEMMA Induction ==
  ASSUME NEW S, S \subseteq Nat, 0 \in S, \A n \in S : n + 1 \in S
  PROVE  S = Nat
<1>. SUFFICES ASSUME Nat \ S # {} PROVE FALSE
  OBVIOUS
<1>1. PICK x \in Nat \ S : \A y \in Nat \ S : x <= y
  BY Least
<1>2. x - 1 \in S
  BY <1>1
<1>. QED
  BY <1>1, <1>2

\* The least of some numbers, as CHOOSE gives it.
LEMMA MinIs ==
  ASSUME NEW S, S \subseteq Nat, NEW m \in S, \A x \in S : m <= x
  PROVE  Min(S) = m
<1>1. \A x \in S : (\A y \in S : x <= y) => x = m
  OBVIOUS
<1>. QED
  BY <1>1 DEF Min

\* A sequence of the elements of a set of numbers, in their order.
Listed(e, S) ==
  /\ Len(e) \in Nat /\ e \in [1..Len(e) -> S]
  /\ \A i \in 1..Len(e) : e[i] \in S /\ e[i] \in Nat
  /\ \A i, j \in 1..Len(e) : i < j => e[i] < e[j]
  /\ \A x \in S : \E i \in 1..Len(e) : e[i] = x

\* A list, and one more number that is above them all, in their order.
LEMMA ListsMore ==
  ASSUME NEW S, NEW e, Listed(e, S), NEW x \in Nat, \A y \in S : y < x
  PROVE  \E f : Listed(f, S \cup {x})
<1>. DEFINE n == Len(e)
            f == [i \in 1..(n + 1) |-> IF i = n + 1 THEN x ELSE e[i]]
            U == S \cup {x}
<1>1. n \in Nat /\ \A i \in 1..n : e[i] \in S /\ e[i] \in Nat
  BY DEF Listed
<1>2. Len(f) = n + 1 /\ f[n + 1] = x /\ \A i \in 1..n : f[i] = e[i]
  BY <1>1
<1>3. \A i \in 1..(n + 1) : f[i] \in U /\ f[i] \in Nat
  BY <1>1
<1>4. f \in [1..(n + 1) -> U]
  BY <1>3
<1>. HIDE DEF f
<1>5. ASSUME NEW i \in 1..(n + 1), NEW j \in 1..(n + 1), i < j PROVE f[i] < f[j]
  <2>1. i \in 1..n
    BY <1>1, <1>5
  <2>2. CASE j = n + 1
    BY <1>1, <1>2, <2>1, <2>2
  <2>3. CASE j # n + 1
    <3>1. j \in 1..n
      BY <1>1, <2>3
    <3>2. e[i] < e[j]
      BY <1>5, <2>1, <3>1 DEF Listed
    <3>. QED
      BY <1>2, <2>1, <3>1, <3>2
  <2>. QED
    BY <2>2, <2>3
<1>6. ASSUME NEW y \in U PROVE \E i \in 1..(n + 1) : f[i] = y
  <2>1. CASE y = x
    BY <1>1, <1>2, <2>1
  <2>2. CASE y \in S
    <3>1. PICK i \in 1..n : e[i] = y
      BY <2>2 DEF Listed
    <3>. QED
      BY <1>1, <1>2, <3>1
  <2>. QED
    BY <2>1, <2>2
<1>7. Listed(f, U)
  BY <1>1, <1>2, <1>3, <1>4, <1>5, <1>6 DEF Listed
<1>. QED
  BY <1>7

\* Every bounded set of numbers can be listed.
LEMMA CanBeListed ==
  ASSUME NEW b \in Nat, NEW S, \A x \in S : x \in Nat /\ x <= b
  PROVE  \E e : Listed(e, S)
<1>. DEFINE Upper(k) == {x \in S : x <= k}
            G == {k \in Nat : \E e : Listed(e, Upper(k))}
<1>1. \E e : Listed(e, Upper(0))
  <2>1. \A x \in S : x <= 0 => x = 0
    OBVIOUS
  <2>2. CASE 0 \notin S
    <3>1. Upper(0) = {}
      BY <2>1, <2>2
    <3>2. Listed(<<>>, {})
      BY DEF Listed
    <3>. QED
      BY <3>1, <3>2
  <2>3. CASE 0 \in S
    <3>1. Upper(0) = {0}
      BY <2>1, <2>3
    <3>2. Listed(<<0>>, {0})
      BY DEF Listed
    <3>. QED
      BY <3>1, <3>2
  <2>. QED
    BY <2>2, <2>3
<1>2. ASSUME NEW k \in G PROVE k + 1 \in G
  <2>1. PICK e : Listed(e, Upper(k))
    OBVIOUS
  <2>2. CASE k + 1 \notin S
    <3>1. \A x \in S : x <= k + 1 <=> x <= k
      BY <2>2
    <3>2. Upper(k + 1) = Upper(k)
      BY <3>1
    <3>. QED
      BY <2>1, <3>2
  <2>3. CASE k + 1 \in S
    <3>1. \A x \in S : x <= k + 1 <=> x <= k \/ x = k + 1
      OBVIOUS
    <3>2. Upper(k + 1) = Upper(k) \cup {k + 1}
      BY <2>3, <3>1
    <3>3. \A y \in Upper(k) : y < k + 1
      OBVIOUS
    <3>4. \E f : Listed(f, Upper(k) \cup {k + 1})
      <4>. HIDE DEF Upper
      <4>. QED
        BY <2>1, <3>3, ListsMore
    <3>. QED
      BY <3>2, <3>4
  <2>. QED
    BY <2>2, <2>3
<1>3. G = Nat
  <2>1. G \subseteq Nat /\ 0 \in G
    BY <1>1
  <2>. HIDE DEF G
  <2>. QED
    BY <1>2, <2>1, Induction
<1>4. Upper(b) = S
  OBVIOUS
<1>. QED
  BY <1>3, <1>4

\* Up to the k-th of a list there are k.
LEMMA PlaceInList ==
  ASSUME NEW S, NEW e, Listed(e, S), NEW k \in 1..Len(e)
  PROVE  Cardinality({j \in S : j <= e[k]}) = k
<1>. DEFINE T == {j \in S : j <= e[k]}
            f == [i \in 1..k |-> e[i]]
<1>1. Len(e) \in Nat /\ k \in Nat /\ \A i \in 1..Len(e) : e[i] \in S /\ e[i] \in Nat
  BY DEF Listed
<1>2. \A i \in 1..k : i \in 1..Len(e) /\ f[i] = e[i]
  BY <1>1
<1>3. ASSUME NEW i \in 1..k PROVE f[i] \in T
  <2>1. i \in 1..Len(e) /\ (i = k \/ i < k)
    BY <1>1
  <2>2. i < k => e[i] < e[k]
    BY <2>1 DEF Listed
  <2>. QED
    BY <1>1, <2>1, <2>2
<1>4. f \in [1..k -> T]
  BY <1>3
<1>5. ASSUME NEW i \in 1..k, NEW j \in 1..k, f[i] = f[j] PROVE i = j
  <2>. SUFFICES ASSUME i # j PROVE FALSE
    OBVIOUS
  <2>1. i \in 1..Len(e) /\ j \in 1..Len(e) /\ (i < j \/ j < i)
    BY <1>1
  <2>2. e[i] < e[j] \/ e[j] < e[i]
    BY <2>1 DEF Listed
  <2>. QED
    BY <1>1, <1>5, <2>1, <2>2
<1>6. ASSUME NEW x \in T PROVE \E i \in 1..k : f[i] = x
  <2>1. PICK i \in 1..Len(e) : e[i] = x
    BY DEF Listed
  <2>2. k < i => e[k] < e[i]
    BY <1>1 DEF Listed
  <2>3. i \in 1..k
    BY <1>1, <2>1, <2>2
  <2>. QED
    BY <2>1, <2>3
<1>. HIDE DEF f, T
<1>7. f \in Bijection(1..k, T)
  BY <1>4, <1>5, <1>6 DEF Bijection, Injection, Surjection, IsInjective
<1>8. Cardinality(T) = k
  BY <1>1, <1>7, FS_CountingElements DEF ExistsBijection
<1>. QED
  BY <1>8 DEF T

\* A list is as long as its set has elements.
LEMMA ListLength ==
  ASSUME NEW S, NEW e, Listed(e, S)
  PROVE  Cardinality(S) = Len(e)
<1>. DEFINE n == Len(e)
<1>1. CASE n = 0
  <2>1. S = {}
    BY <1>1 DEF Listed
  <2>. QED
    BY <1>1, <2>1, FS_EmptySet
<1>2. CASE n # 0
  <2>1. n \in Nat /\ n \in 1..n /\ \A i \in 1..n : e[i] \in S /\ e[i] \in Nat
    BY <1>2 DEF Listed
  <2>2. ASSUME NEW x \in S PROVE x <= e[n]
    <3>1. PICK i \in 1..n : e[i] = x
      BY DEF Listed
    <3>2. i < n => e[i] < e[n]
      BY <2>1 DEF Listed
    <3>. QED
      BY <2>1, <3>1, <3>2
  <2>3. {j \in S : j <= e[n]} = S
    BY <2>2
  <2>. QED
    BY <2>1, <2>3, PlaceInList
<1>. QED
  BY <1>1, <1>2

\* How a list begins.
LEMMA ListBegins ==
  ASSUME NEW S, NEW e, Listed(e, S), NEW f, NEW i \in Nat \ {0},
         \A k \in 1..i : f[k] \in S, \A j, k \in 1..i : j < k => f[j] < f[k],
         \A x \in S : x <= f[i] => \E k \in 1..i : f[k] = x
  PROVE  i \in 1..Len(e) /\ e[i] = f[i]
<1>. DEFINE T == {x \in S : x <= f[i]}
            g == [k \in 1..i |-> f[k]]
<1>1. PICK j \in 1..Len(e) : e[j] = f[i]
  BY DEF Listed
<1>2. Cardinality(T) = j
  BY <1>1, PlaceInList
<1>3. Len(g) = i /\ \A k \in 1..i : g[k] = f[k]
  OBVIOUS
<1>4. \A x \in S : x \in Nat
  BY DEF Listed
<1>5. ASSUME NEW k \in 1..i PROVE g[k] \in T /\ g[k] \in Nat
  <2>1. k < i \/ k = i
    OBVIOUS
  <2>2. f[k] \in Nat /\ f[i] \in Nat
    BY <1>4
  <2>. QED
    BY <2>1, <2>2
<1>6. g \in [1..i -> T]
  BY <1>5
<1>. HIDE DEF g
<1>7. Listed(g, T)
  BY <1>3, <1>5, <1>6 DEF Listed
<1>8. Cardinality(T) = i
  <2>. HIDE DEF T
  <2>. QED
    BY <1>3, <1>7, ListLength
<1>. QED
  BY <1>1, <1>2, <1>8
-----------------------------------------------------------------------------
\* Where CR LF is.
CRLFs(data) == {i \in 1 .. Len(data) - 1 : data[i] = CR /\ data[i + 1] = LF}

\* LineEnds lists where CR LF is in the data: what the loop over
\* data.find("\\r\\n", offset) of both parsers finds, in that order.
LEMMA LineEndsListed ==
  ASSUME NEW data, Len(data) \in Nat
  PROVE  Listed(LineEnds(data), CRLFs(data))
<1>. DEFINE S == CRLFs(data)
            place(i) == Cardinality({j \in S : j <= i})
            q == [k \in 1..Cardinality(S) |-> CHOOSE i \in S : place(i) = k]
<1>1. \A x \in S : x \in Nat /\ x <= Len(data)
  BY DEF CRLFs
<1>. HIDE DEF S
<1>2. PICK e : Listed(e, S)
  BY <1>1, CanBeListed
<1>3. Cardinality(S) = Len(e)
  BY <1>2, ListLength
<1>4. \A k \in 1..Len(e) : place(e[k]) = k
  BY <1>2, PlaceInList
<1>. HIDE DEF place
<1>5. ASSUME NEW k \in 1..Len(e) PROVE (CHOOSE i \in S : place(i) = k) = e[k]
  <2>1. e[k] \in S /\ place(e[k]) = k
    BY <1>2, <1>4 DEF Listed
  <2>2. \A i \in S : place(i) = k => i = e[k]
    BY <1>2, <1>4 DEF Listed
  <2>. QED
    BY <2>1, <2>2
<1>6. q = [k \in 1..Len(e) |-> e[k]]
  BY <1>3, <1>5
<1>7. LineEnds(data) = q
  BY DEF LineEnds, CRLFs, S, place
<1>8. e = [k \in 1..Len(e) |-> e[k]]
  BY <1>2 DEF Listed
<1>. QED
  BY <1>2, <1>6, <1>7, <1>8 DEF S

-----------------------------------------------------------------------------
\* The text of some lines, one after the other.

\* The lines of a text.
TextLines(ws, T) ==
  Len(ws) \in Nat /\ DOMAIN ws = 1..Len(ws) /\ \A i \in 1..Len(ws) : ws[i] \in Seq(T)

\* F[k] is the first k of them, one after the other.
Sums(F, n, T, ss) ==
  /\ F[0] = <<>> /\ \A k \in 0..n : F[k] \in Seq(T)
  /\ \A k \in 1..n : F[k] = F[k - 1] \o ss[k]

\* With one more line there is one more sum.
LEMMA SumsOneMore ==
  ASSUME NEW T, NEW ss, NEW m \in Nat, NEW F, Sums(F, m, T, ss), ss[m + 1] \in Seq(T)
  PROVE  \E H : Sums(H, m + 1, T, ss)
<1>. DEFINE H == [k \in 0..(m + 1) |-> IF k = m + 1 THEN F[m] \o ss[m + 1] ELSE F[k]]
<1>1. F[m] \in Seq(T)
  BY DEF Sums
<1>2. H[m + 1] = F[m] \o ss[m + 1]
  OBVIOUS
<1>3. ASSUME NEW k \in 0..m PROVE H[k] = F[k] /\ F[k] \in Seq(T)
  BY DEF Sums
<1>4. H[0] = <<>>
  BY <1>3 DEF Sums
<1>. HIDE DEF H
<1>5. ASSUME NEW k \in 0..(m + 1) PROVE H[k] \in Seq(T)
  <2>1. CASE k = m + 1
    BY <1>1, <1>2, <2>1, ConcatProperties
  <2>2. CASE k # m + 1
    BY <1>3, <2>2
  <2>. QED
    BY <2>1, <2>2
<1>6. ASSUME NEW k \in 1..(m + 1) PROVE H[k] = H[k - 1] \o ss[k]
  <2>1. CASE k = m + 1
    <3>1. k - 1 = m /\ m \in 0..m
      BY <2>1
    <3>. QED
      BY <1>2, <1>3, <2>1, <3>1
  <2>2. CASE k # m + 1
    <3>1. k \in 1..m /\ k \in 0..m /\ k - 1 \in 0..m
      BY <2>2
    <3>2. F[k] = F[k - 1] \o ss[k]
      BY <3>1 DEF Sums
    <3>. QED
      BY <1>3, <3>1, <3>2
  <2>. QED
    BY <2>1, <2>2
<1>7. Sums(H, m + 1, T, ss)
  BY <1>4, <1>5, <1>6 DEF Sums
<1>. QED
  BY <1>7

\* The lines of every text have sums.
LEMMA HasSums ==
  ASSUME NEW T, NEW ss, TextLines(ss, T)
  PROVE  \E F : Sums(F, Len(ss), T, ss)
<1>. DEFINE n == Len(ss)
            G == {m \in Nat : m <= n => \E F : Sums(F, m, T, ss)}
<1>1. n \in Nat /\ \A i \in 1..n : ss[i] \in Seq(T)
  BY DEF TextLines
<1>2. 0 \in G
  <2>1. Sums([k \in {0} |-> <<>>], 0, T, ss)
    BY DEF Sums
  <2>. QED
    BY <2>1
<1>3. ASSUME NEW m \in G PROVE m + 1 \in G
  <2>. SUFFICES ASSUME m + 1 <= n PROVE \E F : Sums(F, m + 1, T, ss)
    OBVIOUS
  <2>1. m \in Nat /\ m <= n /\ ss[m + 1] \in Seq(T)
    BY <1>1
  <2>2. PICK F : Sums(F, m, T, ss)
    BY <2>1
  <2>. QED
    BY <2>1, <2>2, SumsOneMore
<1>4. G = Nat
  <2>1. G \subseteq Nat
    OBVIOUS
  <2>. HIDE DEF G
  <2>. QED
    BY <1>2, <1>3, <2>1, Induction
<1>5. n \in G
  BY <1>1, <1>4
<1>. HIDE DEF n
<1>6. n <= n
  BY <1>1
<1>. QED
  BY <1>5, <1>6 DEF n

\* A recursive function over 1..n has one value.
LEMMA FlattenIsSum ==
  ASSUME NEW T, NEW ss, TextLines(ss, T), NEW F, Sums(F, Len(ss), T, ss)
  PROVE  FlattenSeq(ss) = F[Len(ss)]
<1>. DEFINE n == Len(ss)
            Def(g) == [i \in 1..n |-> IF i = 1 THEN ss[i] ELSE g[i - 1] \o ss[i]]
            f == CHOOSE g : g = Def(g)
            h == [i \in 1..n |-> F[i]]
<1>1. n \in Nat /\ \A i \in 1..n : ss[i] \in Seq(T)
  BY DEF TextLines
<1>2. CASE n = 0
  <2>1. F[n] = <<>>
    BY <1>2 DEF Sums
  <2>2. ss = <<>>
    BY <1>2 DEF TextLines
  <2>. QED
    BY <2>1, <2>2 DEF FlattenSeq
<1>3. CASE n # 0
  <2>1. ASSUME NEW i \in 1..n PROVE h[i] = IF i = 1 THEN ss[i] ELSE h[i - 1] \o ss[i]
    <3>1. F[i] = F[i - 1] \o ss[i]
      BY <1>1 DEF Sums
    <3>2. CASE i = 1
      <4>1. F[i - 1] = <<>>
        BY <3>2 DEF Sums
      <4>2. <<>> \o ss[i] = ss[i]
        BY <1>1
      <4>. QED
        BY <3>1, <3>2, <4>1, <4>2
    <3>3. CASE i # 1
      <4>1. i - 1 \in 1..n
        BY <1>1, <3>3
      <4>. QED
        BY <3>1, <3>3, <4>1
    <3>. QED
      BY <3>2, <3>3
  <2>2. h = Def(h)
    <3>. DEFINE d == Def(h)
    <3>1. d = [i \in 1..n |-> d[i]] /\ h = [i \in 1..n |-> h[i]]
      OBVIOUS
    <3>2. \A i \in 1..n : h[i] = d[i]
      BY <2>1
    <3>. HIDE DEF d, h
    <3>3. h = d
      BY <3>1, <3>2
    <3>. QED
      BY <3>3 DEF d
  <2>3. f = Def(f)
    <3>. HIDE DEF h, Def
    <3>. QED
      BY <2>2
  <2>. HIDE DEF f
  <2>4. \A i \in 1..n : f[i] = IF i = 1 THEN ss[i] ELSE f[i - 1] \o ss[i]
    BY <2>3
  <2>. HIDE DEF h
  <2>6. \A i \in 1..n : f[i] = h[i]
    <3>. DEFINE D == {i \in 1..n : f[i] # h[i]}
    <3>. SUFFICES ASSUME D # {} PROVE FALSE
      OBVIOUS
    <3>1. D \subseteq Nat
      OBVIOUS
    <3>2. PICK i \in D : \A j \in D : i <= j
      <4>. HIDE DEF D
      <4>. QED
        BY <3>1, Least
    <3>3. i = 1 \/ (i - 1 \in 1..n /\ i - 1 \notin D)
      BY <3>2
    <3>. QED
      BY <2>1, <2>4, <3>2, <3>3
  <2>7. FlattenSeq(ss) = f[n]
    BY <1>3 DEF FlattenSeq, f
  <2>. QED
    BY <1>1, <1>3, <2>6, <2>7 DEF h
<1>. QED
  BY <1>2, <1>3

\* Lines with their line ends.
Ended(lines) == [k \in DOMAIN lines |-> lines[k] \o <<CR, LF>>]

\* Lines with their line ends are lines of the same symbols.
LEMMA EndedLines ==
  ASSUME NEW T, CR \in T, LF \in T, NEW ws, TextLines(ws, T)
  PROVE  /\ TextLines(Ended(ws), T) /\ Len(Ended(ws)) = Len(ws)
         /\ \A i \in 1..Len(ws) : Ended(ws)[i] = ws[i] \o <<CR, LF>>
<1>1. Len(ws) \in Nat /\ DOMAIN ws = 1..Len(ws) /\ \A i \in 1..Len(ws) : ws[i] \in Seq(T)
  BY DEF TextLines
<1>2. DOMAIN Ended(ws) = 1..Len(ws) /\ Len(Ended(ws)) = Len(ws)
  BY <1>1 DEF Ended
<1>3. \A i \in 1..Len(ws) : Ended(ws)[i] = ws[i] \o <<CR, LF>>
  BY <1>1 DEF Ended
<1>4. <<CR, LF>> \in Seq(T)
  OBVIOUS
<1>5. ASSUME NEW i \in 1..Len(ws) PROVE Ended(ws)[i] \in Seq(T)
  <2>1. ws[i] \in Seq(T)
    BY <1>1
  <2>. QED
    BY <1>3, <1>4, <2>1, ConcatProperties
<1>. QED
  BY <1>1, <1>2, <1>3, <1>5 DEF TextLines

\* The text of the lines is the last of their sums.
LEMMA JoinedIsSum ==
  ASSUME NEW T, CR \in T, LF \in T, NEW ws \in Seq(Seq(T)),
         NEW F, Sums(F, Len(ws), T, Ended(ws)), NEW k \in 0..Len(ws)
  PROVE  Joined(SubSeq(ws, 1, k)) = F[k]
<1>. DEFINE us == SubSeq(ws, 1, k)
<1>1. Len(ws) \in Nat /\ k \in Nat /\ TextLines(ws, T)
  BY DEF TextLines
<1>2. TextLines(us, T) /\ Len(us) = k /\ \A i \in 1..k : us[i] = ws[i]
  <2>1. us \in Seq(Seq(T)) /\ Len(us) = k /\ \A i \in 1..k : us[i] = ws[i]
    OBVIOUS
  <2>. HIDE DEF us
  <2>. QED
    BY <2>1 DEF TextLines
<1>. HIDE DEF us
<1>3. /\ TextLines(Ended(us), T) /\ Len(Ended(us)) = k
      /\ \A i \in 1..k : Ended(us)[i] = Ended(ws)[i]
  <2>1. TextLines(Ended(us), T) /\ Len(Ended(us)) = k
    BY <1>2, EndedLines
  <2>2. \A i \in 1..k : Ended(us)[i] = us[i] \o <<CR, LF>>
    BY <1>2, EndedLines
  <2>3. \A i \in 1..Len(ws) : Ended(ws)[i] = ws[i] \o <<CR, LF>>
    BY <1>1, EndedLines
  <2>4. \A i \in 1..k : i \in 1..Len(ws)
    BY <1>1
  <2>. QED
    BY <1>2, <2>1, <2>2, <2>3, <2>4
<1>4. Sums(F, k, T, Ended(us))
  <2>1. /\ F[0] = <<>> /\ \A i \in 0..Len(ws) : F[i] \in Seq(T)
        /\ \A i \in 1..Len(ws) : F[i] = F[i - 1] \o Ended(ws)[i]
    BY DEF Sums
  <2>2. (\A i \in 0..k : i \in 0..Len(ws)) /\ (\A i \in 1..k : i \in 1..Len(ws))
    BY <1>1
  <2>. QED
    BY <1>3, <2>1, <2>2 DEF Sums
<1>5. FlattenSeq(Ended(us)) = F[k]
  BY <1>3, <1>4, FlattenIsSum
<1>6. Joined(us) = FlattenSeq(Ended(us))
  BY DEF Joined, Ended
<1>. QED
  BY <1>5, <1>6 DEF us

-----------------------------------------------------------------------------
\* Where each line lies in it.

\* One sequence behind another, element by element.
LEMMA Concat ==
  ASSUME NEW T, NEW p \in Seq(T), NEW s \in Seq(T), NEW q, q = p \o s
  PROVE  /\ q \in Seq(T) /\ Len(p) \in Nat /\ Len(s) \in Nat /\ Len(q) = Len(p) + Len(s)
         /\ \A i \in 1..Len(p) : i \in 1..Len(q) /\ q[i] = p[i]
         /\ \A i \in 1..Len(s) : Len(p) + i \in 1..Len(q) /\ q[Len(p) + i] = s[i]
<1>1. Len(p) \in Nat /\ Len(s) \in Nat
  OBVIOUS
<1>2. /\ q \in Seq(T) /\ Len(q) = Len(p) + Len(s)
      /\ \A i \in 1..(Len(p) + Len(s)) : q[i] = IF i <= Len(p) THEN p[i] ELSE s[i - Len(p)]
  BY ConcatProperties
<1>3. ASSUME NEW i \in 1..Len(p) PROVE i \in 1..Len(q) /\ q[i] = p[i]
  <2>1. i \in 1..(Len(p) + Len(s)) /\ i <= Len(p)
    BY <1>1
  <2>. QED
    BY <1>2, <2>1
<1>4. ASSUME NEW i \in 1..Len(s) PROVE Len(p) + i \in 1..Len(q) /\ q[Len(p) + i] = s[i]
  <2>1. Len(p) + i \in 1..(Len(p) + Len(s)) /\ ~(Len(p) + i <= Len(p)) /\ (Len(p) + i) - Len(p) = i
    BY <1>1
  <2>. QED
    BY <1>2, <2>1
<1>. QED
  BY <1>1, <1>2, <1>3, <1>4

\* A line with its line end.
LEMMA WithLineEnd ==
  ASSUME NEW T, CR \in T, LF \in T, NEW w \in Seq(T), NEW s, s = w \o <<CR, LF>>
  PROVE  /\ s \in Seq(T) /\ Len(w) \in Nat /\ Len(s) = Len(w) + 2 /\ \A i \in 1..Len(w) : s[i] = w[i]
         /\ s[Len(w) + 1] = CR /\ s[Len(w) + 2] = LF
<1>. DEFINE c == <<CR, LF>>
<1>1. c \in Seq(T) /\ Len(c) = 2 /\ c[1] = CR /\ c[2] = LF
  OBVIOUS
<1>2. 1 \in 1..2 /\ 2 \in 1..2
  OBVIOUS
<1>. HIDE DEF c
<1>3. s = w \o c
  BY DEF c
<1>4. /\ s \in Seq(T) /\ Len(w) \in Nat /\ Len(s) = Len(w) + Len(c) /\ \A i \in 1..Len(w) : s[i] = w[i]
      /\ \A i \in 1..Len(c) : s[Len(w) + i] = c[i]
  BY <1>1, <1>3, Concat
<1>. QED
  BY <1>1, <1>2, <1>4

\* t begins with p.
Begins(p, t) == Len(p) <= Len(t) /\ \A i \in 1..Len(p) : t[i] = p[i]

\* What begins a text begins what that begins.
LEMMA PrefixStep ==
  ASSUME NEW T, NEW p \in Seq(T), NEW s \in Seq(T), NEW q, q = p \o s, NEW t, Len(t) \in Nat,
         Begins(q, t)
  PROVE  Begins(p, t)
<1>1. /\ q \in Seq(T) /\ Len(p) \in Nat /\ Len(s) \in Nat /\ Len(q) = Len(p) + Len(s)
      /\ \A i \in 1..Len(p) : i \in 1..Len(q) /\ q[i] = p[i]
  BY Concat
<1>2. Len(q) <= Len(t) /\ \A i \in 1..Len(q) : t[i] = q[i]
  BY DEF Begins
<1>3. Len(p) <= Len(t)
  BY <1>1, <1>2
<1>. QED
  BY <1>1, <1>2, <1>3 DEF Begins

\* The text begins with each of the sums.
LEMMA SumsArePrefixes ==
  ASSUME NEW T, NEW ss, TextLines(ss, T), NEW F, Sums(F, Len(ss), T, ss), NEW more \in Seq(T),
         NEW k \in 0..Len(ss)
  PROVE  Begins(F[k], F[Len(ss)] \o more)
<1>. DEFINE n == Len(ss)
            t == F[n] \o more
            G == {d \in Nat : d <= n => Begins(F[n - d], t)}
<1>1. n \in Nat /\ (\A j \in 0..n : F[j] \in Seq(T) /\ Len(F[j]) \in Nat) /\ \A j \in 1..n : ss[j] \in Seq(T)
  BY DEF TextLines, Sums
<1>2. 0 \in G
  <2>1. F[n] \in Seq(T) /\ n - 0 = n
    BY <1>1
  <2>2. /\ Len(F[n]) \in Nat /\ Len(t) = Len(F[n]) + Len(more) /\ Len(more) \in Nat
        /\ \A i \in 1..Len(F[n]) : t[i] = F[n][i]
    BY <2>1, Concat
  <2>3. Begins(F[n], t)
    BY <2>2 DEF Begins
  <2>. QED
    BY <2>1, <2>3
<1>3. Len(t) \in Nat
  <2>1. F[n] \in Seq(T)
    BY <1>1
  <2>. QED
    BY <2>1, ConcatProperties
<1>. HIDE DEF t
<1>4. ASSUME NEW d \in G PROVE d + 1 \in G
  <2>. SUFFICES ASSUME d + 1 <= n PROVE Begins(F[n - (d + 1)], t)
    OBVIOUS
  <2>. DEFINE j == n - d
              p == F[j - 1]
              q == F[j]
              s == ss[j]
  <2>1. j \in 1..n /\ j \in 0..n /\ j - 1 \in 0..n /\ n - (d + 1) = j - 1 /\ d <= n
    BY <1>1
  <2>2. Begins(q, t)
    BY <2>1
  <2>. HIDE DEF j
  <2>3. q = p \o s
    BY <2>1 DEF Sums
  <2>4. p \in Seq(T) /\ s \in Seq(T)
    BY <1>1, <2>1
  <2>. HIDE DEF p, q, s
  <2>5. Begins(p, t)
    BY <1>3, <2>2, <2>3, <2>4, PrefixStep
  <2>. QED
    BY <2>1, <2>5 DEF p
<1>5. G = Nat
  <2>1. G \subseteq Nat
    OBVIOUS
  <2>. HIDE DEF G
  <2>. QED
    BY <1>2, <1>4, <2>1, Induction
<1>6. n - k \in Nat /\ n - k <= n /\ n - (n - k) = k
  BY <1>1
<1>7. Begins(F[k], t)
  BY <1>5, <1>6
<1>. QED
  BY <1>7 DEF t

\* A sequence, as a function.
Line(w) == Len(w) \in Nat /\ w = [i \in 1..Len(w) |-> w[i]]

\* Where the lines ws are in a text: the k-th is behind a[k - 1] and ends, with
\* its line end, at a[k].
LaidOut(t, ws, a) ==
  /\ Len(t) \in Nat /\ Len(ws) \in Nat
  /\ a[0] = 0 /\ \A k \in 0..Len(ws) : a[k] \in Nat /\ a[k] <= Len(t)
  /\ \A k \in 1..Len(ws) :
       /\ Line(ws[k]) /\ Len(ws[k]) \in Nat
       /\ a[k] = a[k - 1] + Len(ws[k]) + 2
       /\ \A i \in 1..Len(ws[k]) : t[a[k - 1] + i] = ws[k][i]
       /\ t[a[k] - 1] = CR /\ t[a[k]] = LF

\* The lines lie in the text at the lengths of the sums.
LEMMA SumsAreLaidOut ==
  ASSUME NEW T, CR \in T, LF \in T, NEW ws, TextLines(ws, T), NEW more \in Seq(T),
         NEW F, Sums(F, Len(ws), T, Ended(ws)),
         NEW t, t = F[Len(ws)] \o more,
         NEW a, a = [k \in 0..Len(ws) |-> Len(F[k])]
  PROVE  LaidOut(t, ws, a)
<1>. DEFINE n == Len(ws)
            ss == Ended(ws)
<1>1. n \in Nat /\ \A k \in 1..n : ws[k] \in Seq(T) /\ Len(ws[k]) \in Nat
  BY DEF TextLines
<1>2. TextLines(ss, T) /\ Len(ss) = n /\ \A i \in 1..n : ss[i] = ws[i] \o <<CR, LF>>
  BY EndedLines
<1>3. \A k \in 0..n : F[k] \in Seq(T) /\ Len(F[k]) \in Nat /\ a[k] = Len(F[k])
  BY DEF Sums
<1>4. \A k \in 1..n : F[k] = F[k - 1] \o ss[k]
  BY DEF Sums
<1>5. a[0] = 0
  BY <1>1, <1>3 DEF Sums
<1>. HIDE DEF ss
<1>6. \A k \in 0..n : Len(F[k]) <= Len(t) /\ \A i \in 1..Len(F[k]) : t[i] = F[k][i]
  <2>1. Sums(F, Len(ss), T, ss) /\ t = F[Len(ss)] \o more
    BY <1>2 DEF ss
  <2>2. ASSUME NEW k \in 0..n PROVE Len(F[k]) <= Len(t) /\ \A i \in 1..Len(F[k]) : t[i] = F[k][i]
    <3>1. k \in 0..Len(ss)
      BY <1>2
    <3>2. Begins(F[k], t)
      BY <1>2, <2>1, <3>1, SumsArePrefixes
    <3>. QED
      BY <3>2 DEF Begins
  <2>. QED
    BY <2>2
<1>7. Len(t) \in Nat
  <2>1. F[n] \in Seq(T)
    BY <1>1, <1>3
  <2>. QED
    BY <2>1, ConcatProperties
<1>8. ASSUME NEW k \in 1..n
      PROVE  /\ a[k] = a[k - 1] + Len(ws[k]) + 2
             /\ \A i \in 1..Len(ws[k]) : t[a[k - 1] + i] = ws[k][i]
             /\ t[a[k] - 1] = CR /\ t[a[k]] = LF
  <2>. DEFINE w == ws[k]
              s == ss[k]
              p == F[k - 1]
              q == F[k]
  <2>1. k \in 0..n /\ k - 1 \in 0..n
    BY <1>1
  <2>2. w \in Seq(T) /\ Len(w) \in Nat /\ p \in Seq(T) /\ Len(p) \in Nat
    BY <1>1, <1>3, <2>1
  <2>3. a[k - 1] = Len(p) /\ a[k] = Len(q) /\ Len(q) \in Nat
    BY <1>3, <2>1
  <2>4. q = p \o s /\ s = w \o <<CR, LF>>
    BY <1>2, <1>4
  <2>5. Len(q) <= Len(t) /\ \A i \in 1..Len(q) : t[i] = q[i]
    BY <1>6, <2>1
  <2>. HIDE DEF w, s, p, q
  <2>6. /\ s \in Seq(T) /\ Len(s) = Len(w) + 2 /\ \A i \in 1..Len(w) : s[i] = w[i]
        /\ s[Len(w) + 1] = CR /\ s[Len(w) + 2] = LF
    BY <2>2, <2>4, WithLineEnd
  <2>7. Len(q) = Len(p) + Len(s) /\ \A i \in 1..Len(s) : q[Len(p) + i] = s[i]
    BY <2>2, <2>4, <2>6, Concat
  <2>8. \A i \in 1..Len(s) : Len(p) + i \in 1..Len(q) /\ t[Len(p) + i] = s[i]
    <3>1. \A i \in 1..Len(s) : Len(p) + i \in 1..Len(q)
      BY <2>2, <2>4, <2>6, Concat
    <3>. QED
      BY <2>5, <2>7, <3>1
  <2>9. Len(w) + 1 \in 1..Len(s) /\ Len(w) + 2 \in 1..Len(s) /\ \A i \in 1..Len(w) : i \in 1..Len(s)
    BY <2>2, <2>6
  <2>10. Len(q) = Len(p) + Len(w) + 2 /\ Len(q) = Len(p) + (Len(w) + 2)
         /\ Len(q) - 1 = Len(p) + (Len(w) + 1)
    BY <2>2, <2>6, <2>7
  <2>11. \A i \in 1..Len(w) : t[Len(p) + i] = w[i]
    BY <2>6, <2>8, <2>9
  <2>12. t[Len(p) + (Len(w) + 1)] = CR /\ t[Len(p) + (Len(w) + 2)] = LF
    BY <2>6, <2>8, <2>9
  <2>13. t[Len(q) - 1] = CR /\ t[Len(q)] = LF
    BY <2>10, <2>12
  <2>. QED
    BY <2>3, <2>10, <2>11, <2>13 DEF w
<1>9. ASSUME NEW k \in 1..n PROVE Line(ws[k])
  <2>. DEFINE w == ws[k]
  <2>1. w \in Seq(T)
    BY <1>1
  <2>. HIDE DEF w
  <2>2. Line(w)
    BY <2>1 DEF Line
  <2>. QED
    BY <2>2 DEF w
<1>. QED
  BY <1>1, <1>3, <1>5, <1>6, <1>7, <1>8, <1>9 DEF LaidOut

\* ... and in the text that Joined gives, whatever is behind it.
LEMMA JoinedIsLaidOut ==
  ASSUME NEW T, CR \in T, LF \in T, NEW ws \in Seq(Seq(T)), NEW more \in Seq(T)
  PROVE  \E a : /\ LaidOut(Joined(ws) \o more, ws, a)
                /\ \A k \in 0..Len(ws) : a[k] = Len(Joined(SubSeq(ws, 1, k)))
<1>. DEFINE n == Len(ws)
            ss == Ended(ws)
<1>1. n \in Nat /\ n \in 0..n /\ TextLines(ws, T) /\ SubSeq(ws, 1, n) = ws
  BY DEF TextLines
<1>2. TextLines(ss, T) /\ Len(ss) = n
  BY <1>1, EndedLines
<1>3. PICK F : Sums(F, n, T, ss)
  BY <1>2, HasSums
<1>4. \A k \in 0..n : Joined(SubSeq(ws, 1, k)) = F[k]
  BY <1>3, JoinedIsSum
<1>5. Joined(ws) = F[n]
  BY <1>1, <1>4
<1>. DEFINE a == [k \in 0..n |-> Len(F[k])]
<1>6. LaidOut(Joined(ws) \o more, ws, a)
  BY <1>1, <1>3, <1>5, SumsAreLaidOut
<1>7. \A k \in 0..n : a[k] = Len(Joined(SubSeq(ws, 1, k)))
  BY <1>4
<1>. QED
  BY <1>6, <1>7

\* It is a text of the same symbols.
LEMMA JoinedIsText ==
  ASSUME NEW T, CR \in T, LF \in T, NEW ws \in Seq(Seq(T))
  PROVE  Joined(ws) \in Seq(T)
<1>. DEFINE n == Len(ws)
            ss == Ended(ws)
<1>1. n \in Nat /\ n \in 0..n /\ TextLines(ws, T) /\ SubSeq(ws, 1, n) = ws
  BY DEF TextLines
<1>2. TextLines(ss, T) /\ Len(ss) = n
  BY <1>1, EndedLines
<1>3. PICK F : Sums(F, n, T, ss)
  BY <1>2, HasSums
<1>4. Joined(ws) = F[n]
  BY <1>1, <1>3, JoinedIsSum
<1>. QED
  BY <1>1, <1>3, <1>4 DEF Sums

-----------------------------------------------------------------------------
\* The line ends of what has arrived.

\* No line end within.
NoBreak(w) == \A i \in 1 .. Len(w) - 1 : ~(w[i] = CR /\ w[i + 1] = LF)

\* Each offset lies in one line or behind them all.
LEMMA InOneLine ==
  ASSUME NEW t, NEW ws, NEW a, LaidOut(t, ws, a), NEW k \in 0..Len(ws), NEW x \in Nat, x < a[k]
  PROVE  \E j \in 1..k : a[j - 1] <= x /\ x < a[j]
<1>. DEFINE S == {j \in 0..k : x < a[j]}
<1>1. Len(ws) \in Nat /\ k \in Nat /\ a[0] = 0 /\ \A j \in 0..k : a[j] \in Nat
  BY DEF LaidOut
<1>2. k \in S /\ S \subseteq Nat
  BY <1>1
<1>3. PICK j \in S : \A i \in S : j <= i
  <2>. HIDE DEF S
  <2>. QED
    BY <1>2, Least
<1>4. j # 0
  BY <1>1, <1>3
<1>5. j \in 1..k /\ j - 1 \in 0..k
  BY <1>1, <1>3, <1>4
<1>6. j - 1 \notin S
  BY <1>3, <1>5
<1>7. a[j - 1] <= x
  BY <1>1, <1>5, <1>6
<1>. QED
  BY <1>3, <1>5, <1>7

\* Each line ends at least its line end behind the one before it.
LEMMA Rising ==
  ASSUME NEW t, NEW ws, NEW a, LaidOut(t, ws, a), NEW j \in 0..Len(ws), NEW k \in 0..Len(ws), j < k
  PROVE  a[j] + 2 <= a[k]
<1>. DEFINE S == {i \in j + 1 .. k : ~(a[j] + 2 <= a[i])}
<1>1. Len(ws) \in Nat /\ j \in Nat /\ k \in Nat /\ \A i \in 0..Len(ws) : a[i] \in Nat
  BY DEF LaidOut
<1>2. \A i \in 1..Len(ws) : Len(ws[i]) \in Nat /\ a[i] = a[i - 1] + Len(ws[i]) + 2
  BY DEF LaidOut
<1>3. SUFFICES ASSUME S # {} PROVE FALSE
  BY <1>1
<1>4. PICK i \in S : \A h \in S : i <= h
  <2>1. S \subseteq Nat
    BY <1>1
  <2>. HIDE DEF S
  <2>. QED
    BY <1>3, <2>1, Least
<1>5. i \in 1..Len(ws) /\ i \in 0..Len(ws) /\ i - 1 \in 0..Len(ws) /\ i \in j + 1 .. k
  BY <1>1, <1>4
<1>6. a[i] \in Nat /\ a[i - 1] \in Nat /\ Len(ws[i]) \in Nat /\ a[i] = a[i - 1] + Len(ws[i]) + 2
  BY <1>1, <1>2, <1>5
<1>7. a[i - 1] + 2 <= a[i]
  BY <1>6
<1>8. CASE i = j + 1
  BY <1>1, <1>4, <1>7, <1>8
<1>9. CASE i # j + 1
  <2>1. i - 1 \in j + 1 .. k /\ i - 1 \notin S
    BY <1>1, <1>4, <1>5, <1>9
  <2>2. a[j] + 2 <= a[i - 1] /\ a[j] \in Nat
    BY <1>1, <2>1
  <2>. QED
    BY <1>4, <1>6, <1>7, <2>2
<1>. QED
  BY <1>8, <1>9

\* The line ends of a text are those of its lines.
LEMMA EndsOfLines ==
  ASSUME NEW t, NEW ws, NEW a, LaidOut(t, ws, a), \A j \in 1..Len(ws) : NoBreak(ws[j]),
         NEW k \in 0..Len(ws), NEW x \in Nat \ {0}, x < a[k], t[x] = CR, t[x + 1] = LF
  PROVE  \E j \in 1..k : x = a[j] - 1
<1>1. Len(ws) \in Nat /\ k \in Nat
  BY DEF LaidOut
<1>2. PICK j \in 1..k : a[j - 1] <= x /\ x < a[j]
  BY InOneLine
<1>3. j \in 1..Len(ws) /\ j - 1 \in 0..Len(ws) /\ j \in 0..Len(ws)
  BY <1>1
<1>. DEFINE w == ws[j]
            b == a[j - 1]
            c == a[j]
<1>4. /\ b \in Nat /\ c \in Nat /\ Len(w) \in Nat /\ c = b + Len(w) + 2
      /\ \A i \in 1..Len(w) : t[b + i] = w[i]
      /\ t[c - 1] = CR /\ t[c] = LF /\ NoBreak(w)
  BY <1>3 DEF LaidOut
<1>5. j - 1 = 0 \/ t[b] = LF
  <2>1. \A i \in 1..Len(ws) : t[a[i]] = LF
    BY DEF LaidOut
  <2>2. j - 1 = 0 \/ j - 1 \in 1..Len(ws)
    BY <1>3
  <2>. QED
    BY <2>1, <2>2
<1>6. b # x
  <2>1. CASE j - 1 = 0
    <3>1. b = 0
      BY <2>1 DEF LaidOut
    <3>. QED
      BY <3>1
  <2>2. CASE t[b] = LF
    BY <2>2 DEF CR, LF
  <2>. QED
    BY <1>5, <2>1, <2>2
<1>. HIDE DEF w, b, c
<1>7. b <= x /\ x < c
  BY <1>2 DEF b, c
<1>. SUFFICES ASSUME x # c - 1 PROVE FALSE
  BY DEF c
<1>8. PICK i \in 1..Len(w) : x = b + i
  <2>1. x - b \in 1..Len(w) /\ x = b + (x - b)
    BY <1>4, <1>6, <1>7
  <2>. QED
    BY <2>1
<1>9. w[i] = CR
  BY <1>4, <1>8
<1>10. CASE i = Len(w)
  <2>1. x + 1 = c - 1
    BY <1>4, <1>8, <1>10
  <2>. QED
    BY <1>4, <2>1 DEF CR, LF
<1>11. CASE i # Len(w)
  <2>1. i + 1 \in 1..Len(w) /\ x + 1 = b + (i + 1) /\ i \in 1 .. Len(w) - 1
    BY <1>4, <1>8, <1>11
  <2>2. w[i + 1] = LF
    BY <1>4, <2>1
  <2>. QED
    BY <1>4, <1>9, <2>1, <2>2 DEF NoBreak
<1>. QED
  BY <1>10, <1>11

\* What has arrived of a text when m lines are whole and no more of these.
Arrived(data, t, g) == Len(data) = g /\ \A i \in 1..g : data[i] = t[i]

\* The first m line ends that have arrived.
LEMMA FirstEnds ==
  ASSUME NEW t, NEW ws, NEW a, LaidOut(t, ws, a), \A j \in 1..Len(ws) : NoBreak(ws[j]),
         NEW g \in 0..Len(t), NEW data, Arrived(data, t, g),
         NEW m \in 1..Len(ws), a[m] <= g
  PROVE  /\ m \in 1..Len(LineEnds(data))
         /\ \A k \in 1..m : LineEnds(data)[k] = a[k] - 1
<1>. DEFINE S == CRLFs(data)
            e == LineEnds(data)
            f == [k \in 1..m |-> a[k] - 1]
<1>1. Len(t) \in Nat /\ Len(ws) \in Nat /\ m \in Nat /\ g \in Nat /\ \A k \in 0..Len(ws) : a[k] \in Nat
  BY DEF LaidOut
<1>2. Len(data) = g /\ \A i \in 1..g : data[i] = t[i]
  BY DEF Arrived
<1>3. Listed(e, S)
  BY <1>1, <1>2, LineEndsListed
<1>4. \A j, k \in 1..m : j < k => a[j] + 2 <= a[k]
  <2>1. \A k \in 1..m : k \in 0..Len(ws)
    BY <1>1
  <2>. QED
    BY <2>1, Rising
<1>5. \A k \in 1..m : a[k] \in Nat /\ 2 <= a[k] /\ a[k] <= a[m] /\ f[k] = a[k] - 1
  <2>. TAKE k \in 1..m
  <2>1. k \in 0..Len(ws) /\ 0 \in 0..Len(ws) /\ 0 < k /\ m \in 1..m /\ (k < m \/ k = m)
    BY <1>1
  <2>2. a[0] + 2 <= a[k] /\ a[0] = 0
    BY <2>1, Rising DEF LaidOut
  <2>3. a[k] \in Nat /\ a[m] \in Nat
    BY <1>1, <2>1
  <2>. QED
    BY <1>4, <2>1, <2>2, <2>3
<1>6. ASSUME NEW k \in 1..m PROVE f[k] \in S
  <2>1. a[k] \in Nat /\ 2 <= a[k] /\ a[k] <= g
    BY <1>1, <1>5
  <2>2. t[a[k] - 1] = CR /\ t[a[k]] = LF
    <3>1. k \in 1..Len(ws)
      BY <1>1
    <3>. QED
      BY <3>1 DEF LaidOut
  <2>3. f[k] = a[k] - 1 /\ f[k] + 1 = a[k] /\ f[k] \in 1 .. g - 1 /\ f[k] \in 1..g /\ f[k] + 1 \in 1..g
    BY <1>1, <1>5, <2>1
  <2>4. data[f[k]] = CR /\ data[f[k] + 1] = LF
    BY <1>2, <2>2, <2>3
  <2>. QED
    BY <1>2, <2>3, <2>4 DEF CRLFs
<1>7. ASSUME NEW j \in 1..m, NEW k \in 1..m, j < k PROVE f[j] < f[k]
  BY <1>4, <1>5, <1>7
<1>8. ASSUME NEW n \in 1..m, NEW x \in S, x <= f[n] PROVE \E k \in 1..n : f[k] = x
  <2>1. x \in 1 .. g - 1 /\ data[x] = CR /\ data[x + 1] = LF
    BY <1>2 DEF CRLFs
  <2>2. x \in Nat \ {0} /\ t[x] = CR /\ t[x + 1] = LF
    BY <1>1, <1>2, <2>1
  <2>3. x < a[n] /\ n \in 0..Len(ws)
    BY <1>1, <1>5, <1>8, <2>2
  <2>4. PICK k \in 1..n : x = a[k] - 1
    BY <2>2, <2>3, EndsOfLines
  <2>5. k \in 1..m
    BY <1>1
  <2>. QED
    BY <1>5, <2>4, <2>5
<1>. HIDE DEF S, f, e
<1>9. ASSUME NEW n \in 1..m PROVE n \in 1..Len(e) /\ e[n] = a[n] - 1
  <2>1. n \in Nat \ {0} /\ \A k \in 1..n : k \in 1..m
    BY <1>1
  <2>2. n \in 1..Len(e) /\ e[n] = f[n]
    BY <1>3, <1>6, <1>7, <1>8, <2>1, ListBegins
  <2>. QED
    BY <1>5, <2>2
<1>10. m \in 1..m
  BY <1>1
<1>. QED
  BY <1>9, <1>10 DEF e

\* Fewer lines than that are whole before the m-th one's end has arrived.
LEMMA NoMoreEnds ==
  ASSUME NEW t, NEW ws, NEW a, LaidOut(t, ws, a), \A j \in 1..Len(ws) : NoBreak(ws[j]),
         NEW g \in 0..Len(t), NEW data, Arrived(data, t, g),
         NEW m \in 1..Len(ws), g < a[m]
  PROVE  Len(LineEnds(data)) \in 0 .. m - 1 /\ \A k \in 1..Len(LineEnds(data)) : a[k] <= g
<1>. DEFINE S == CRLFs(data)
            e == LineEnds(data)
<1>1. Len(t) \in Nat /\ Len(ws) \in Nat /\ m \in Nat /\ g \in Nat /\ \A k \in 0..Len(ws) : a[k] \in Nat
  BY DEF LaidOut
<1>2. Len(data) = g /\ \A i \in 1..g : data[i] = t[i]
  BY DEF Arrived
<1>3. Listed(e, S)
  BY <1>1, <1>2, LineEndsListed
<1>4. m \in 0..Len(ws) /\ m - 1 \in 0..Len(ws)
  BY <1>1
<1>5. PICK j \in 1..m : a[j - 1] <= g /\ g < a[j]
  BY <1>1, <1>4, InOneLine
<1>6. j - 1 \in 0..Len(ws) /\ j \in 0..Len(ws)
  BY <1>1
<1>7. ASSUME NEW x \in S PROVE \E k \in 1 .. j - 1 : x = a[k] - 1
  <2>1. x \in 1 .. g - 1 /\ data[x] = CR /\ data[x + 1] = LF
    BY <1>2 DEF CRLFs
  <2>2. x \in Nat \ {0} /\ t[x] = CR /\ t[x + 1] = LF
    BY <1>1, <1>2, <2>1
  <2>3. x < a[j]
    BY <1>1, <1>5, <1>6, <2>1
  <2>4. PICK k \in 1..j : x = a[k] - 1
    BY <1>6, <2>2, <2>3, EndsOfLines
  <2>5. k # j
    BY <1>1, <1>5, <1>6, <2>1, <2>4
  <2>. QED
    BY <1>1, <2>4, <2>5
<1>8. Len(e) \in Nat
  BY <1>3 DEF Listed
<1>. HIDE DEF S, e
<1>9. CASE Len(e) = 0
  BY <1>1, <1>9 DEF e
<1>10. CASE Len(e) # 0
  <2>1. j - 1 \in 1..Len(ws)
    <3>1. e[1] \in S
      BY <1>3, <1>8, <1>10 DEF Listed
    <3>2. PICK k \in 1 .. j - 1 : e[1] = a[k] - 1
      BY <1>7, <3>1
    <3>. QED
      BY <1>1, <3>2
  <2>2. \A k \in 1 .. j - 1 : k \in 1..Len(e) /\ e[k] = a[k] - 1
    <3>1. j - 1 \in 1..Len(e) /\ \A k \in 1 .. j - 1 : e[k] = a[k] - 1
      BY <1>5, <2>1, FirstEnds DEF e
    <3>. QED
      BY <1>8, <3>1
  <2>3. Len(e) <= j - 1
    <3>. SUFFICES ASSUME ~(Len(e) <= j - 1) PROVE FALSE
      OBVIOUS
    <3>1. j \in 1..Len(e) /\ e[j] \in S
      BY <1>1, <1>3, <1>8 DEF Listed
    <3>2. PICK k \in 1 .. j - 1 : e[j] = a[k] - 1
      BY <1>7, <3>1
    <3>3. e[k] < e[j] /\ e[k] \in Nat
      <4>1. k \in 1..Len(e) /\ k < j
        BY <2>2, <3>2
      <4>. QED
        BY <1>3, <3>1, <4>1 DEF Listed
    <3>. QED
      BY <2>2, <3>2, <3>3
  <2>4. ASSUME NEW k \in 1..Len(e) PROVE a[k] <= g
    <3>1. k \in 1 .. j - 1 /\ k \in 0..Len(ws) /\ (k = j - 1 \/ k < j - 1)
      BY <1>1, <1>8, <2>3
    <3>2. k < j - 1 => a[k] + 2 <= a[j - 1]
      BY <1>6, <3>1, Rising
    <3>. QED
      BY <1>1, <1>5, <1>6, <3>1, <3>2
  <2>. QED
    BY <1>1, <1>8, <2>3, <2>4 DEF e
<1>. QED
  BY <1>9, <1>10

-----------------------------------------------------------------------------
\* A line that is at a place in a text of symbols of T.
Reads(data, from, to, w, T) ==
  /\ Line(w) /\ from \in Int /\ to \in Int /\ to - from + 1 = Len(w)
  /\ \A i \in from..to : data[i] \in T
  /\ \A i \in 1..Len(w) : data[from + i - 1] = w[i]

\* The piece of a text between two places is the line that is there.
LEMMA PieceOfText ==
  ASSUME NEW T, NEW data, NEW from, NEW to, NEW w, Reads(data, from, to, w, T)
  PROVE  SubSeq(data, from, to) = w
<1>. DEFINE n == Len(w)
            s == SubSeq(data, from, to)
<1>0. /\ n \in Nat /\ from \in Int /\ to \in Int /\ to - from + 1 = n
      /\ \A i \in from..to : data[i] \in T
      /\ \A i \in 1..n : data[from + i - 1] = w[i]
  BY DEF Reads, Line
<1>1. /\ s \in Seq(T) /\ Len(s) = (IF from <= to THEN to - from + 1 ELSE 0)
      /\ \A i \in 1 .. to - from + 1 : s[i] = data[from + i - 1]
  BY <1>0, SubSeqProperties
<1>. HIDE DEF s
<1>2. Len(s) = n
  BY <1>0, <1>1
<1>. HIDE DEF n
<1>3. s = [i \in 1..n |-> s[i]]
  BY <1>1, <1>2
<1>4. ASSUME NEW i \in 1..n PROVE s[i] = w[i]
  BY <1>0, <1>1
<1>5. w = [i \in 1..n |-> w[i]]
  BY DEF Reads, Line, n
<1>. QED
  BY <1>3, <1>4, <1>5 DEF s

\* The lines that are whole are the first ones that were written.
LEMMA WholeLines ==
  ASSUME NEW t, NEW ws, NEW a, LaidOut(t, ws, a), \A j \in 1..Len(ws) : NoBreak(ws[j]),
         NEW T, t \in Seq(T), NEW g \in 0..Len(t), NEW data, Arrived(data, t, g),
         NEW k \in 1..Len(ws), a[k] <= g
  PROVE  /\ k \in 1..Len(Lines(data)) /\ Lines(data)[k] = ws[k]
         /\ Behind(data, k) = a[k]
<1>. DEFINE e == LineEnds(data)
            w == ws[k]
            from == a[k - 1] + 1
            to == a[k] - 2
<1>1. Len(t) \in Nat /\ Len(ws) \in Nat /\ k \in Nat /\ g \in Nat
  BY DEF LaidOut
<1>2. /\ a[0] = 0 /\ k - 1 \in 0..Len(ws) /\ a[k - 1] \in Nat /\ a[k] \in Nat /\ Len(w) \in Nat
      /\ a[k] = a[k - 1] + Len(w) + 2 /\ \A i \in 1..Len(w) : t[a[k - 1] + i] = w[i]
      /\ Line(w)
  <2>1. k - 1 \in 0..Len(ws) /\ k \in 0..Len(ws)
    BY <1>1
  <2>2. \A i \in 0..Len(ws) : a[i] \in Nat
    BY DEF LaidOut
  <2>. QED
    BY <2>1, <2>2 DEF LaidOut
<1>3. Len(data) = g /\ \A i \in 1..g : data[i] = t[i]
  BY DEF Arrived
<1>5. k \in 1..Len(e) /\ \A i \in 1..k : e[i] = a[i] - 1
  BY FirstEnds
<1>6. Listed(e, CRLFs(data))
  BY <1>1, <1>3, LineEndsListed
<1>. HIDE DEF e
<1>7. DOMAIN e = 1..Len(e) /\ Len(e) \in Nat
  BY <1>6 DEF Listed
<1>8. /\ Lines(data) = [i \in 1..Len(e) |-> SubSeq(data, IF i = 1 THEN 1 ELSE e[i - 1] + 2, e[i] - 1)]
      /\ Behind(data, k) = e[k] + 1
  BY <1>7 DEF Lines, Behind, e
<1>9. Len(Lines(data)) = Len(e)
  BY <1>7, <1>8
<1>10. (IF k = 1 THEN 1 ELSE e[k - 1] + 2) = from
  <2>1. CASE k = 1
    BY <1>2, <2>1
  <2>2. CASE k # 1
    <3>1. k - 1 \in 1..k
      BY <1>1, <2>2
    <3>2. e[k - 1] = a[k - 1] - 1
      BY <1>5, <3>1
    <3>. QED
      BY <1>2, <2>2, <3>2
  <2>. QED
    BY <2>1, <2>2
<1>11. e[k] = a[k] - 1 /\ e[k] - 1 = to /\ e[k] + 1 = a[k]
  <2>1. e[k] = a[k] - 1
    BY <1>1, <1>5
  <2>. QED
    BY <1>2, <2>1
<1>12. Lines(data)[k] = SubSeq(data, from, to)
  BY <1>5, <1>8, <1>10, <1>11
<1>. HIDE DEF w
<1>13. SubSeq(data, from, to) = w
  <2>. DEFINE b == a[k - 1]
              c == a[k]
  <2>1. b \in Nat /\ c = b + Len(w) + 2 /\ c <= g /\ \A i \in 1..Len(w) : t[b + i] = w[i]
    BY <1>2
  <2>2. from = b + 1 /\ to = c - 2
    OBVIOUS
  <2>. HIDE DEF b, c, from, to
  <2>3. from \in Int /\ to \in Int /\ to - from + 1 = Len(w)
    BY <1>2, <2>1, <2>2
  <2>4. ASSUME NEW i \in from..to PROVE data[i] \in T
    <3>1. i \in 1..g /\ i \in 1..Len(t)
      BY <1>1, <1>2, <2>1, <2>2
    <3>2. t[i] \in T
      BY <3>1
    <3>. QED
      BY <1>3, <3>1, <3>2
  <2>5. ASSUME NEW i \in 1..Len(w) PROVE data[from + i - 1] = w[i]
    <3>1. from + i - 1 = b + i /\ b + i \in 1..g
      BY <1>1, <1>2, <2>1, <2>2
    <3>. QED
      BY <1>3, <2>1, <3>1
  <2>6. Reads(data, from, to, w, T)
    BY <1>2, <2>3, <2>4, <2>5 DEF Reads
  <2>. QED
    BY <2>6, PieceOfText
<1>. QED
  BY <1>5, <1>8, <1>9, <1>11, <1>12, <1>13 DEF w

\* Before the m-th has arrived there are fewer, each of them one that was written.
LEMMA OnlyLines ==
  ASSUME NEW t, NEW ws, NEW a, LaidOut(t, ws, a), \A j \in 1..Len(ws) : NoBreak(ws[j]),
         NEW T, t \in Seq(T), NEW g \in 0..Len(t), NEW data, Arrived(data, t, g),
         NEW m \in 1..Len(ws), g < a[m]
  PROVE  /\ Len(Lines(data)) \in 0 .. m - 1 /\ DOMAIN Lines(data) = 1..Len(Lines(data))
         /\ \A k \in 1..Len(Lines(data)) : Lines(data)[k] = ws[k]
<1>. DEFINE e == LineEnds(data)
<1>1. Len(t) \in Nat /\ Len(ws) \in Nat /\ m \in Nat /\ g \in Nat
  BY DEF LaidOut
<1>2. Len(data) = g /\ \A i \in 1..g : data[i] = t[i]
  BY DEF Arrived
<1>4. Len(e) \in 0 .. m - 1 /\ \A k \in 1..Len(e) : a[k] <= g
  BY NoMoreEnds
<1>5. Listed(e, CRLFs(data))
  BY <1>1, <1>2, LineEndsListed
<1>. HIDE DEF e
<1>6. DOMAIN e = 1..Len(e)
  BY <1>5 DEF Listed
<1>7. DOMAIN Lines(data) = 1..Len(e)
  BY <1>6 DEF Lines, e
<1>8. Len(Lines(data)) = Len(e)
  <2>1. Len(e) \in Nat
    BY <1>4
  <2>. HIDE DEF e
  <2>. QED
    BY <1>6, <2>1 DEF Lines, e
<1>9. ASSUME NEW k \in 1..Len(e) PROVE Lines(data)[k] = ws[k]
  <2>1. k \in 1..Len(ws) /\ a[k] <= g
    BY <1>1, <1>4
  <2>2. \A i \in 1..Len(ws) : a[i] <= g => Lines(data)[i] = ws[i]
    BY WholeLines
  <2>. QED
    BY <2>1, <2>2
<1>. QED
  BY <1>4, <1>7, <1>8, <1>9

-----------------------------------------------------------------------------
\* What the parsers make of the lines.

\* As many lines as are whole.
LEMMA LinesShape ==
  ASSUME NEW data, Len(data) \in Nat
  PROVE  Len(Lines(data)) \in Nat /\ DOMAIN Lines(data) = 1..Len(Lines(data))
<1>. DEFINE e == LineEnds(data)
<1>1. Len(e) \in Nat /\ DOMAIN e = 1..Len(e)
  <2>1. Listed(e, CRLFs(data))
    BY LineEndsListed
  <2>. HIDE DEF e
  <2>. QED
    BY <2>1 DEF Listed
<1>. HIDE DEF e
<1>2. DOMAIN Lines(data) = 1..Len(e)
  BY <1>1 DEF Lines, e
<1>3. Len(Lines(data)) = Len(e)
  BY <1>1 DEF Lines, e
<1>. QED
  BY <1>1, <1>2, <1>3

\* What has arrived, seen as lines: at least the first m, or fewer.
ShowsAll(ls, ws, m) ==
  /\ Len(ls) \in Nat /\ DOMAIN ls = 1..Len(ls)
  /\ m \in 1..Len(ls) /\ \A k \in 1..m : ls[k] = ws[k]
ShowsFewer(ls, ws, m) ==
  /\ Len(ls) \in 0 .. m - 1 /\ DOMAIN ls = 1..Len(ls)
  /\ \A k \in 1..Len(ls) : ls[k] = ws[k]

\* A text that has arrived as far as g of a reply of the lines ws that ends with
\* the m-th of them, at b.
Shows(data, ws, m, g, b) ==
  /\ g < b => ShowsFewer(Lines(data), ws, m)
  /\ b <= g => ShowsAll(Lines(data), ws, m) /\ Behind(data, m) = b

\* When the m-th line is there the lines are the first m that were written;
\* until then there are fewer.
LEMMA ArrivedShows ==
  ASSUME NEW t, NEW ws, NEW a, LaidOut(t, ws, a), \A j \in 1..Len(ws) : NoBreak(ws[j]),
         NEW T, t \in Seq(T), NEW g \in 0..Len(t), NEW data, Arrived(data, t, g),
         NEW m \in 1..Len(ws)
  PROVE  Shows(data, ws, m, g, a[m])
<1>1. Len(ws) \in Nat /\ m \in Nat /\ Len(data) \in Nat /\ \A k \in 0..Len(ws) : a[k] \in Nat
  BY DEF LaidOut, Arrived
<1>2. ASSUME g < a[m] PROVE ShowsFewer(Lines(data), ws, m)
  BY <1>2, OnlyLines DEF ShowsFewer
<1>3. ASSUME a[m] <= g PROVE ShowsAll(Lines(data), ws, m) /\ Behind(data, m) = a[m]
  <2>1. m \in 1..Len(Lines(data)) /\ Behind(data, m) = a[m]
    BY <1>3, WholeLines
  <2>2. ASSUME NEW k \in 1..m PROVE Lines(data)[k] = ws[k]
    <3>1. k \in 1..Len(ws) /\ k \in 0..Len(ws) /\ m \in 0..Len(ws) /\ (k = m \/ k < m)
      BY <1>1
    <3>2. k < m => a[k] + 2 <= a[m]
      BY <3>1, Rising
    <3>3. a[k] <= g
      BY <1>1, <1>3, <3>1, <3>2
    <3>. QED
      BY <3>1, <3>3, WholeLines
  <2>3. Len(Lines(data)) \in Nat /\ DOMAIN Lines(data) = 1..Len(Lines(data))
    BY <1>1, LinesShape
  <2>. QED
    BY <2>1, <2>2, <2>3 DEF ShowsAll
<1>. QED
  BY <1>2, <1>3 DEF Shows
-----------------------------------------------------------------------------
\* What ends the loop over the lines.
Stop(line, first) == BadFormat(line) \/ OtherCode(line, first) \/ line[4] = SP

\* The parse stops at the m-th line if it is the first to stop at.
StopsFirstAt(ws, m) ==
  m \in Nat \ {0} /\ Stop(ws[m], ws[1]) /\ \A j \in 1 .. m - 1 : ~Stop(ws[j], ws[1])

\* SmtpResponseParser::parse returns Incomplete as long as no line it has stops it.
LEMMA SmtpWaits ==
  ASSUME NEW data, NEW ws, NEW m, StopsFirstAt(ws, m), ShowsFewer(Lines(data), ws, m)
  PROVE  SmtpParse(data).kind = "Incomplete"
<1>. DEFINE ls == Lines(data)
            stops == {k \in DOMAIN ls : Stop(ls[k], ls[1])}
<1>1. /\ m \in Nat /\ Len(ls) \in 0 .. m - 1 /\ DOMAIN ls = 1..Len(ls)
      /\ \A k \in 1..Len(ls) : ls[k] = ws[k]
      /\ \A j \in 1 .. m - 1 : ~Stop(ws[j], ws[1])
  BY DEF ShowsFewer, StopsFirstAt
<1>2. ASSUME NEW k \in DOMAIN ls PROVE ~Stop(ls[k], ls[1])
  <2>1. k \in 1..Len(ls) /\ 1 \in 1..Len(ls) /\ k \in 1 .. m - 1
    BY <1>1
  <2>. QED
    BY <1>1, <2>1
<1>3. stops = {}
  BY <1>2
<1>4. stops = {k \in DOMAIN ls : BadFormat(ls[k]) \/ OtherCode(ls[k], ls[1]) \/ ls[k][4] = SP}
  BY DEF Stop
<1>. HIDE DEF stops
<1>5. SmtpParse(data) = [kind |-> "Incomplete"]
  BY <1>3, <1>4 DEF SmtpParse
<1>. QED
  BY <1>5

\* What the line it stops at makes of the reply.
SmtpMeaning(ws, m, used) ==
  IF BadFormat(ws[m]) THEN [kind |-> "InvalidFormat"]
  ELSE IF OtherCode(ws[m], ws[1]) THEN [kind |-> "InvalidCode"]
  ELSE [kind |-> "reply", status |-> Code(ws[1]), message |-> <<>>,
        lines |-> [i \in 1..m |-> Rest(ws[i], 5)], used |-> used]

\* At the line that stops it, it returns the fault of that line or the reply.
LEMMA SmtpReads ==
  ASSUME NEW data, NEW ws, NEW m, StopsFirstAt(ws, m), ShowsAll(Lines(data), ws, m)
  PROVE  SmtpParse(data) = SmtpMeaning(ws, m, Behind(data, m))
<1>. DEFINE ls == Lines(data)
            stops == {k \in DOMAIN ls : Stop(ls[k], ls[1])}
<1>1. /\ m \in Nat /\ Len(ls) \in Nat /\ DOMAIN ls = 1..Len(ls) /\ m \in 1..Len(ls)
      /\ \A k \in 1..m : ls[k] = ws[k]
      /\ Stop(ws[m], ws[1]) /\ \A j \in 1 .. m - 1 : ~Stop(ws[j], ws[1])
  BY DEF ShowsAll, StopsFirstAt
<1>2. 1 \in 1..m /\ m \in 1..m
  BY <1>1
<1>3. ls[1] = ws[1] /\ ls[m] = ws[m]
  BY <1>1, <1>2
<1>4. m \in stops
  BY <1>1, <1>3
<1>5. ASSUME NEW k \in stops PROVE k \in Nat /\ m <= k
  <2>1. k \in Nat
    BY <1>1
  <2>2. k < m => k \in 1 .. m - 1 /\ k \in 1..m
    BY <1>1
  <2>3. ~(k < m)
    BY <1>1, <1>3, <2>2
  <2>. QED
    BY <1>1, <2>1, <2>3
<1>6. stops = {k \in DOMAIN ls : BadFormat(ls[k]) \/ OtherCode(ls[k], ls[1]) \/ ls[k][4] = SP}
  BY DEF Stop
<1>. HIDE DEF stops
<1>7. Min(stops) = m
  <2>1. stops \subseteq Nat
    BY <1>5
  <2>. QED
    BY <1>4, <1>5, <2>1, MinIs
<1>8. [i \in 1..m |-> Rest(ls[i], 5)] = [i \in 1..m |-> Rest(ws[i], 5)]
  BY <1>1
<1>9. stops # {}
  BY <1>4
<1>. HIDE DEF ls
<1>10. SmtpParse(data) =
        IF BadFormat(ls[m]) THEN [kind |-> "InvalidFormat"]
        ELSE IF OtherCode(ls[m], ls[1]) THEN [kind |-> "InvalidCode"]
        ELSE [kind |-> "reply", status |-> Code(ls[1]), message |-> <<>>,
              lines |-> [i \in 1..m |-> Rest(ls[i], 5)], used |-> Behind(data, m)]
  <2>1. SmtpParse(data) =
         CASE stops = {} -> [kind |-> "Incomplete"]
           [] stops # {} /\ BadFormat(ls[Min(stops)]) -> [kind |-> "InvalidFormat"]
           [] stops # {} /\ ~BadFormat(ls[Min(stops)]) /\ OtherCode(ls[Min(stops)], ls[1]) ->
                [kind |-> "InvalidCode"]
           [] OTHER -> [kind |-> "reply", status |-> Code(ls[1]), message |-> <<>>,
                        lines |-> [i \in 1..Min(stops) |-> Rest(ls[i], 5)],
                        used |-> Behind(data, Min(stops))]
    BY <1>6 DEF SmtpParse, ls
  <2>. QED
    BY <1>7, <1>9, <2>1
<1>. QED
  BY <1>3, <1>8, <1>10 DEF SmtpMeaning
-----------------------------------------------------------------------------
\* Pop3ResponseParser::parse of a reply with text returns Incomplete until the
\* final line is there.
LEMMA Pop3Waits ==
  ASSUME NEW data, NEW ws, NEW m, NEW multi, ShowsFewer(Lines(data), ws, m),
         m = 1 \/ (multi = TRUE /\ HasStatus(ws[1]) /\ Head(ws[1]) = "+OK"
                   /\ m \in Nat \ {0} /\ \A j \in 2 .. m - 1 : ~Final(ws[j]))
  PROVE  Pop3Parse(data, multi).kind = "Incomplete"
<1>. DEFINE ls == Lines(data)
            final == {k \in 2..Len(ls) : Final(ls[k])}
<1>1. Len(ls) \in 0 .. m - 1 /\ DOMAIN ls = 1..Len(ls) /\ \A k \in 1..Len(ls) : ls[k] = ws[k]
  BY DEF ShowsFewer
<1>2. CASE Len(ls) = 0
  <2>1. ls = <<>>
    BY <1>1, <1>2
  <2>. HIDE DEF ls
  <2>2. Pop3Parse(data, multi) = [kind |-> "Incomplete"]
    BY <2>1 DEF Pop3Parse, ls
  <2>. QED
    BY <2>2
<1>3. CASE Len(ls) # 0
  <2>1. /\ multi = TRUE /\ HasStatus(ws[1]) /\ Head(ws[1]) = "+OK"
        /\ m \in Nat /\ \A j \in 2 .. m - 1 : ~Final(ws[j])
    BY <1>1, <1>3
  <2>2. 1 \in 1..Len(ls) /\ ls # <<>>
    BY <1>1, <1>3
  <2>3. ls[1] = ws[1]
    BY <1>1, <2>2
  <2>4. ASSUME NEW k \in 2..Len(ls) PROVE ~Final(ls[k])
    <3>1. k \in 1..Len(ls) /\ k \in 2 .. m - 1
      BY <1>1, <2>1
    <3>. QED
      BY <1>1, <2>1, <3>1
  <2>5. final = {}
    BY <2>4
  <2>. HIDE DEF ls
  <2>6. Pop3Parse(data, multi) = [kind |-> "Incomplete"]
    BY <2>1, <2>2, <2>3, <2>5 DEF Pop3Parse, ls
  <2>. QED
    BY <2>6
<1>. QED
  BY <1>2, <1>3

\* A first line that is the whole reply, or none.
LEMMA Pop3ReadsLine ==
  ASSUME NEW data, NEW ws, NEW multi \in BOOLEAN, ShowsAll(Lines(data), ws, 1),
         HasStatus(ws[1]) => ~(multi /\ Head(ws[1]) = "+OK")
  PROVE  Pop3Parse(data, multi) =
           IF HasStatus(ws[1]) THEN
             [kind |-> "reply", status |-> Head(ws[1]), message |-> Message(ws[1]), lines |-> <<>>,
              used |-> Behind(data, 1)]
           ELSE [kind |-> "InvalidFormat"]
<1>. DEFINE ls == Lines(data)
<1>1. Len(ls) \in Nat /\ 1 \in 1..Len(ls) /\ DOMAIN ls = 1..Len(ls) /\ \A k \in 1..1 : ls[k] = ws[k]
  BY DEF ShowsAll
<1>2. ls[1] = ws[1] /\ ls # <<>>
  BY <1>1
<1>. HIDE DEF ls
<1>3. CASE HasStatus(ws[1])
  <2>1. Pop3Parse(data, multi) =
          [kind |-> "reply", status |-> Head(ls[1]), message |-> Message(ls[1]),
           lines |-> [i \in 1 .. 1 - 1 |-> Unstuff(ls[i + 1])], used |-> Behind(data, 1)]
    BY <1>2, <1>3 DEF Pop3Parse, ls
  <2>2. [i \in 1 .. 1 - 1 |-> Unstuff(ls[i + 1])] = <<>>
    OBVIOUS
  <2>. QED
    BY <1>2, <1>3, <2>1, <2>2
<1>4. CASE ~HasStatus(ws[1])
  BY <1>2, <1>4 DEF Pop3Parse, ls
<1>. QED
  BY <1>3, <1>4

\* With the final line it returns the text, each line without its doubled dot.
LEMMA Pop3ReadsText ==
  ASSUME NEW data, NEW ws, NEW m \in Nat \ {0, 1}, ShowsAll(Lines(data), ws, m),
         HasStatus(ws[1]), Head(ws[1]) = "+OK", Final(ws[m]), \A j \in 2 .. m - 1 : ~Final(ws[j])
  PROVE  Pop3Parse(data, TRUE) =
           [kind |-> "reply", status |-> "+OK", message |-> Message(ws[1]),
            lines |-> [i \in 1 .. m - 2 |-> Unstuff(ws[i + 1])], used |-> Behind(data, m)]
<1>. DEFINE ls == Lines(data)
            final == {k \in 2..Len(ls) : Final(ls[k])}
<1>1. Len(ls) \in Nat /\ m \in 1..Len(ls) /\ DOMAIN ls = 1..Len(ls) /\ \A k \in 1..m : ls[k] = ws[k]
  BY DEF ShowsAll
<1>2. 1 \in 1..m /\ m \in 1..m
  OBVIOUS
<1>3. ls[1] = ws[1] /\ ls[m] = ws[m] /\ ls # <<>>
  BY <1>1, <1>2
<1>4. m \in final
  BY <1>1, <1>3
<1>5. ASSUME NEW k \in final PROVE k \in Nat /\ m <= k
  <2>1. k < m => k \in 2 .. m - 1 /\ k \in 1..m
    BY <1>1
  <2>2. ~(k < m)
    BY <1>1, <2>1
  <2>. QED
    BY <1>1, <2>2
<1>. HIDE DEF ls
<1>6. Min(final) = m
  <2>1. final \subseteq Nat
    BY <1>5
  <2>. HIDE DEF final
  <2>. QED
    BY <1>4, <1>5, <2>1, MinIs
<1>7. Pop3Parse(data, TRUE) =
        [kind |-> "reply", status |-> Head(ls[1]), message |-> Message(ls[1]),
         lines |-> [i \in 1 .. (m - 1) - 1 |-> Unstuff(ls[i + 1])], used |-> Behind(data, m)]
  <2>1. final # {}
    BY <1>4
  <2>2. HasStatus(ls[1]) /\ Head(ls[1]) = "+OK"
    BY <1>3
  <2>3. Pop3Parse(data, TRUE) =
          [kind |-> "reply", status |-> Head(ls[1]), message |-> Message(ls[1]),
           lines |-> [i \in 1 .. (Min(final) - 1) - 1 |-> Unstuff(ls[i + 1])],
           used |-> Behind(data, Min(final))]
    BY <1>3, <2>1, <2>2 DEF Pop3Parse, ls
  <2>. QED
    BY <1>6, <2>3
<1>8. [i \in 1 .. (m - 1) - 1 |-> Unstuff(ls[i + 1])] = [i \in 1 .. m - 2 |-> Unstuff(ws[i + 1])]
  <2>1. \A i \in 1 .. (m - 1) - 1 : i + 1 \in 1..m /\ i \in 1 .. m - 2
    OBVIOUS
  <2>2. (m - 1) - 1 = m - 2
    OBVIOUS
  <2>. QED
    BY <1>1, <2>1, <2>2
<1>. QED
  BY <1>3, <1>7, <1>8

-----------------------------------------------------------------------------
\* The symbols, and the lines of an SMTP reply.

\* The symbols of a text.
Symbols == {"2", "5", "0", SP, "-", "x", ".", "+OK", "-ERR", "CR", "LF"}

\* What a line can hold is text without a line end.
LEMMA ContentsAre ==
  ASSUME NEW symbols, symbols \subseteq Symbols, NEW s \in Contents(symbols)
  PROVE  s \in Seq(Symbols) /\ Len(s) \in Nat /\ NoBreak(s)
<1>1. PICK n \in 0..MaxText : s \in [1..n -> symbols]
  BY DEF Contents
<1>2. n \in Nat
  BY ReaderAssumption
<1>3. s \in Seq(Symbols)
  BY <1>1, <1>2
<1>4. NoBreak(s)
  BY DEF Contents, NoBreak
<1>. QED
  BY <1>3, <1>4

\* Four symbols in a row.
LEMMA FourSymbols ==
  ASSUME NEW T, NEW a \in T, NEW b \in T, NEW c \in T, NEW d \in T, NEW p, p = <<a, b, c, d>>
  PROVE  p \in Seq(T) /\ Len(p) = 4 /\ p[1] = a /\ p[2] = b /\ p[3] = c /\ p[4] = d
OBVIOUS

\* Three symbols in a row.
LEMMA ThreeAre ==
  ASSUME NEW T, NEW p \in Seq(T), Len(p) = 3, NEW a, NEW b, NEW c, p[1] = a, p[2] = b, p[3] = c
  PROVE  p = <<a, b, c>>
OBVIOUS

\* Something in front of a line.
Fronted(s, p, t) == p \in Seq(Symbols) /\ t \in Seq(Symbols) /\ s = p \o t

\* It is both parts, symbol by symbol.
LEMMA FrontedIs ==
  ASSUME NEW s, NEW p, NEW t, Fronted(s, p, t)
  PROVE  /\ s \in Seq(Symbols) /\ Len(p) \in Nat /\ Len(t) \in Nat /\ Len(s) = Len(p) + Len(t)
         /\ \A i \in 1..Len(p) : s[i] = p[i]
         /\ \A i \in 1..Len(t) : s[Len(p) + i] = t[i]
BY Concat DEF Fronted

\* It has no line end when neither has one and none arises between them.
LEMMA LineWith ==
  ASSUME NEW p, NEW t, NEW s, Fronted(s, p, t),
         NoBreak(p), NoBreak(t), Len(p) # 0, p[Len(p)] # CR
  PROVE  s \in Seq(Symbols) /\ NoBreak(s)
<1>1. /\ s \in Seq(Symbols) /\ Len(p) \in Nat /\ Len(t) \in Nat /\ Len(s) = Len(p) + Len(t)
      /\ \A i \in 1..Len(p) : s[i] = p[i]
      /\ \A i \in 1..Len(t) : s[Len(p) + i] = t[i]
  BY FrontedIs
<1>2. ASSUME NEW i \in 1 .. Len(s) - 1, s[i] = CR, s[i + 1] = LF PROVE FALSE
  <2>1. CASE i < Len(p)
    <3>1. i \in 1..Len(p) /\ i + 1 \in 1..Len(p) /\ i \in 1 .. Len(p) - 1
      BY <1>1, <2>1
    <3>. QED
      BY <1>1, <1>2, <3>1 DEF NoBreak
  <2>2. CASE i = Len(p)
    <3>1. i \in 1..Len(p)
      BY <1>1, <2>2
    <3>. QED
      BY <1>1, <1>2, <2>2, <3>1
  <2>3. CASE i > Len(p)
    <3>. DEFINE j == i - Len(p)
    <3>1. j \in 1..Len(t) /\ j + 1 \in 1..Len(t) /\ j \in 1 .. Len(t) - 1 /\ i = Len(p) + j /\ i + 1 = Len(p) + (j + 1)
      BY <1>1, <2>3
    <3>. HIDE DEF j
    <3>. QED
      BY <1>1, <1>2, <3>1 DEF NoBreak
  <2>. QED
    BY <1>1, <2>1, <2>2, <2>3
<1>. QED
  BY <1>1, <1>2 DEF NoBreak

\* What is behind the fixed part of a line.
LEMMA RestIs ==
  ASSUME NEW p, NEW t, NEW s, Fronted(s, p, t), NEW n, n = Len(p) + 1
  PROVE  Rest(s, n) = t
<1>1. /\ s \in Seq(Symbols) /\ Len(p) \in Nat /\ Len(t) \in Nat /\ Len(s) = Len(p) + Len(t)
      /\ \A i \in 1..Len(t) : s[Len(p) + i] = t[i]
  BY FrontedIs
<1>. DEFINE to == Len(s)
<1>2. Line(t)
  <2>1. t \in Seq(Symbols)
    BY DEF Fronted
  <2>. QED
    BY <2>1 DEF Line
<1>3. n \in Int /\ to \in Int /\ to - n + 1 = Len(t)
  BY <1>1
<1>4. \A i \in n..to : s[i] \in Symbols
  <2>1. \A i \in n..to : i \in 1..Len(s)
    BY <1>1
  <2>2. \A i \in 1..Len(s) : s[i] \in Symbols
    BY <1>1
  <2>. QED
    BY <2>1, <2>2
<1>5. \A i \in 1..Len(t) : s[n + i - 1] = t[i]
  <2>1. \A i \in 1..Len(t) : n + i - 1 = Len(p) + i
    BY <1>1
  <2>. QED
    BY <1>1, <2>1
<1>. HIDE DEF to
<1>6. Reads(s, n, to, t, Symbols)
  BY <1>2, <1>3, <1>4, <1>5 DEF Reads
<1>. QED
  BY <1>6, PieceOfText DEF Rest, to

\* A line of a reply has its three digits and a sign that is one of two.
LEMMA CodeIs ==
  ASSUME NEW l \in Seq(Symbols), Len(l) >= 3
  PROVE  Code(l) = <<l[1], l[2], l[3]>>
<1>1. Len(l) \in Nat
  OBVIOUS
<1>2. Min({3, Len(l)}) = 3
  <2>. DEFINE S == {3, Len(l)}
  <2>1. S \subseteq Nat /\ 3 \in S /\ \A x \in S : 3 <= x
    BY <1>1
  <2>. HIDE DEF S
  <2>2. Min(S) = 3
    BY <2>1, MinIs
  <2>. QED
    BY <2>2 DEF S
<1>3. SubSeq(l, 1, 3) = <<l[1], l[2], l[3]>>
  <2>. DEFINE p == SubSeq(l, 1, 3)
  <2>1. p \in Seq(Symbols) /\ Len(p) = 3 /\ p[1] = l[1] /\ p[2] = l[2] /\ p[3] = l[3]
    BY <1>1
  <2>. HIDE DEF p
  <2>2. p = <<l[1], l[2], l[3]>>
    BY <2>1, ThreeAre
  <2>. QED
    BY <2>2 DEF p
<1>. QED
  BY <1>2, <1>3 DEF Code
-----------------------------------------------------------------------------
\* A line of an SMTP reply.
LEMMA SmtpLineIs ==
  ASSUME NEW i, NEW n, NEW t \in Seq(Symbols), NoBreak(t), NEW l, l = SmtpLine(i, n, t)
  PROVE  /\ l \in Seq(Symbols) /\ NoBreak(l) /\ ~BadFormat(l)
         /\ Code(l) = <<"2", "5", "0">> /\ Rest(l, 5) = t
         /\ l[4] = IF i = n THEN SP ELSE "-"
<1>. DEFINE c == IF i = n THEN SP ELSE "-"
            p == <<"2", "5", "0", c>>
<1>0. c \in {SP, "-"}
  OBVIOUS
<1>. HIDE DEF c
<1>1. p \in Seq(Symbols) /\ Len(p) = 4 /\ p[1] = "2" /\ p[2] = "5" /\ p[3] = "0" /\ p[4] = c
  <2>1. "2" \in Symbols /\ "5" \in Symbols /\ "0" \in Symbols /\ c \in Symbols
    BY <1>0 DEF Symbols
  <2>. HIDE DEF p
  <2>2. p = <<"2", "5", "0", c>>
    BY DEF p
  <2>. QED
    BY <2>1, <2>2, FourSymbols
<1>. HIDE DEF p
<1>2. NoBreak(p) /\ p[4] # CR
  <2>1. p[1] # CR /\ p[2] # CR /\ p[3] # CR /\ p[4] # CR
    BY <1>0, <1>1 DEF CR, SP
  <2>. QED
    BY <1>1, <2>1 DEF NoBreak
<1>4. Fronted(l, p, t)
  BY <1>1 DEF SmtpLine, p, c, Fronted
<1>5. l \in Seq(Symbols) /\ NoBreak(l)
  <2>1. NoBreak(p) /\ Len(p) # 0 /\ p[Len(p)] # CR
    BY <1>1, <1>2
  <2>. QED
    BY <1>4, <2>1, LineWith
<1>6. Len(l) \in Nat /\ Len(l) >= 4 /\ l[1] = "2" /\ l[2] = "5" /\ l[3] = "0" /\ l[4] = c
  <2>1. Len(t) \in Nat /\ Len(l) = Len(p) + Len(t) /\ \A k \in 1..Len(p) : l[k] = p[k]
    BY <1>4, FrontedIs
  <2>. QED
    BY <1>1, <2>1
<1>7. ~BadFormat(l)
  <2>1. \A k \in 1..3 : l[k] \in Digits
    BY <1>6 DEF Digits
  <2>. QED
    BY <1>0, <1>6, <2>1 DEF BadFormat, digit3
<1>8. Code(l) = <<"2", "5", "0">>
  BY <1>5, <1>6, CodeIs
<1>9. Rest(l, 5) = t
  <2>1. 5 = Len(p) + 1
    BY <1>1
  <2>. QED
    BY <1>4, <2>1, RestIs
<1>. QED
  BY <1>5, <1>6, <1>7, <1>8, <1>9 DEF c

-----------------------------------------------------------------------------
\* SMTP replies, well formed and malformed.

\* Lines that a server can write: symbols, and no line end among them.
Writable(l) == l \in Seq(Symbols) /\ NoBreak(l)
WellShaped(w) ==
  /\ w.lines \in Seq(Seq(Symbols)) /\ \A i \in 1..Len(w.lines) : NoBreak(w.lines[i])
  /\ w.end \in 1..Len(w.lines)

\* What a parse returns is what is meant, and it ends at used.
Means(p, means, used) ==
  /\ p.kind # "Incomplete" /\ p.kind = means.kind
  /\ p.kind = "reply" =>
       /\ p.status = means.status /\ p.message = means.message /\ p.lines = means.lines
       /\ p.used = used

\* The parse of a text that shows what w wrote is right at every point.
Parsed(w, data) == IF w.parse = "Smtp" THEN SmtpParse(data) ELSE Pop3Parse(data, w.multiline)
ReadRight(w) ==
  \A data, g, b : Shows(data, w.lines, w.end, g, b) =>
    /\ g < b => Parsed(w, data).kind = "Incomplete"
    /\ b <= g => Means(Parsed(w, data), w.means, b)

\* A line of elements of T is a sequence of them.
LEMMA LineIsSeq ==
  ASSUME NEW T, NEW ls, Line(ls), \A i \in 1..Len(ls) : ls[i] \in T
  PROVE  ls \in Seq(T)
<1>. DEFINE n == Len(ls)
<1>1. n \in Nat /\ ls = [i \in 1..n |-> ls[i]] /\ \A i \in 1..n : ls[i] \in T
  BY DEF Line
<1>. HIDE DEF n
<1>2. ls \in [1..n -> T]
  BY <1>1
<1>. QED
  BY <1>1, <1>2

\* Some contents.
LEMMA ManyContents ==
  ASSUME NEW symbols, symbols \subseteq Symbols, NEW from \in Nat,
         NEW ts \in UNION {[1..n -> Contents(symbols)] : n \in from..MaxLines}
  PROVE  /\ Len(ts) \in Nat /\ Len(ts) >= from /\ DOMAIN ts = 1..Len(ts)
         /\ Line(ts)
         /\ \A i \in 1..Len(ts) : Writable(ts[i])
<1>1. PICK n \in from..MaxLines : ts \in [1..n -> Contents(symbols)]
  OBVIOUS
<1>2. n \in Nat /\ n >= from
  BY ReaderAssumption
<1>3. DOMAIN ts = 1..n /\ Len(ts) = n /\ ts = [i \in 1..n |-> ts[i]]
  BY <1>1, <1>2
<1>4. ASSUME NEW i \in 1..n PROVE Writable(ts[i])
  <2>1. ts[i] \in Contents(symbols)
    BY <1>1
  <2>. QED
    BY <2>1, ContentsAre DEF Writable
<1>. QED
  BY <1>2, <1>3, <1>4 DEF Line

\* The lines of an SMTP reply with the texts ts.
IsSmtpReply(ls, ts) ==
  /\ Line(ts) /\ \A i \in 1..Len(ts) : Writable(ts[i])
  /\ ls = [i \in 1..Len(ts) |-> SmtpLine(i, Len(ts), ts[i])]

\* An SMTP reply: the last line is the only one that stops the parser.
LEMMA SmtpReplyShape ==
  ASSUME NEW ts, NEW ls, IsSmtpReply(ls, ts), NEW n, n = Len(ts)
  PROVE  /\ ls \in Seq(Seq(Symbols)) /\ Len(ls) = n
         /\ \A i \in 1..n :
              /\ NoBreak(ls[i]) /\ ~BadFormat(ls[i])
              /\ Code(ls[i]) = <<"2", "5", "0">> /\ Rest(ls[i], 5) = ts[i]
              /\ ls[i][4] = IF i = n THEN SP ELSE "-"
<1>1. n \in Nat
  BY DEF Line, IsSmtpReply
<1>2. Line(ls) /\ Len(ls) = n
  BY <1>1 DEF Line, IsSmtpReply
<1>3. ASSUME NEW i \in 1..n
      PROVE  /\ ls[i] \in Seq(Symbols) /\ NoBreak(ls[i]) /\ ~BadFormat(ls[i])
             /\ Code(ls[i]) = <<"2", "5", "0">> /\ Rest(ls[i], 5) = ts[i]
             /\ ls[i][4] = IF i = n THEN SP ELSE "-"
  <2>. DEFINE l == ls[i]
              t == ts[i]
  <2>1. l = SmtpLine(i, n, t)
    BY DEF IsSmtpReply
  <2>2. t \in Seq(Symbols) /\ NoBreak(t)
    BY DEF Writable, IsSmtpReply
  <2>. HIDE DEF l, t
  <2>3. /\ l \in Seq(Symbols) /\ NoBreak(l) /\ ~BadFormat(l)
        /\ Code(l) = <<"2", "5", "0">> /\ Rest(l, 5) = t
        /\ l[4] = IF i = n THEN SP ELSE "-"
    BY <2>1, <2>2, SmtpLineIs
  <2>. QED
    BY <2>3 DEF l, t
<1>4. ls \in Seq(Seq(Symbols))
  BY <1>2, <1>3, LineIsSeq
<1>. QED
  BY <1>2, <1>3, <1>4

\* Every SMTP reply of the server is read as it was written.
LEMMA SmtpRepliesRead ==
  ASSUME NEW w \in SmtpReplies
  PROVE  WellShaped(w) /\ ReadRight(w)
<1>. DEFINE symbols == {"x", "-", CR, LF}
<1>1. PICK ts \in UNION {[1..n -> Contents(symbols)] : n \in 1..MaxLines} :
        w = [parse |-> "Smtp", multiline |-> FALSE,
             lines |-> [i \in DOMAIN ts |-> SmtpLine(i, Len(ts), ts[i])],
             end |-> Len(ts), means |-> Reply(<<"2", "5", "0">>, <<>>, ts)]
  BY DEF SmtpReplies
<1>2. symbols \subseteq Symbols
  BY DEF Symbols, CR, LF
<1>. HIDE DEF symbols
<1>3. /\ Len(ts) \in Nat /\ Len(ts) >= 1 /\ DOMAIN ts = 1..Len(ts) /\ Line(ts)
      /\ \A i \in 1..Len(ts) : Writable(ts[i])
  BY <1>2, ManyContents
<1>. DEFINE n == Len(ts)
            ls == w.lines
<1>4. w.parse = "Smtp" /\ w.end = n /\ w.means = Reply(<<"2", "5", "0">>, <<>>, ts)
  BY <1>1
<1>5. ls = [i \in 1..Len(ts) |-> SmtpLine(i, Len(ts), ts[i])]
  BY <1>1, <1>3
<1>. HIDE DEF ls
<1>6. /\ ls \in Seq(Seq(Symbols)) /\ Len(ls) = n
      /\ \A i \in 1..n :
           /\ NoBreak(ls[i]) /\ ~BadFormat(ls[i])
           /\ Code(ls[i]) = <<"2", "5", "0">> /\ Rest(ls[i], 5) = ts[i]
           /\ ls[i][4] = IF i = n THEN SP ELSE "-"
  <2>1. IsSmtpReply(ls, ts)
    BY <1>3, <1>5 DEF IsSmtpReply
  <2>2. n = Len(ts)
    OBVIOUS
  <2>. HIDE DEF n
  <2>. QED
    BY <2>1, <2>2, SmtpReplyShape
<1>. HIDE DEF n
<1>7. n \in 1..n /\ n \in Nat \ {0} /\ 1 \in 1..n
  BY <1>3 DEF n
<1>8. WellShaped(w)
  BY <1>4, <1>6, <1>7 DEF WellShaped, ls
<1>9. StopsFirstAt(ls, n)
  <2>1. ASSUME NEW j \in 1 .. n - 1 PROVE ~Stop(ls[j], ls[1])
    <3>1. j \in 1..n /\ j # n
      BY <1>7
    <3>. QED
      BY <1>6, <1>7, <3>1 DEF SP, Stop, OtherCode
  <2>2. Stop(ls[n], ls[1])
    BY <1>6, <1>7 DEF Stop
  <2>. QED
    BY <1>7, <2>1, <2>2 DEF StopsFirstAt
<1>10. [i \in 1..n |-> Rest(ls[i], 5)] = ts
  <2>1. ts = [i \in 1..n |-> ts[i]]
    BY <1>3 DEF Line, n
  <2>. QED
    BY <1>6, <2>1
<1>11. ASSUME NEW used
       PROVE  SmtpMeaning(ls, n, used) =
                [kind |-> "reply", status |-> <<"2", "5", "0">>, message |-> <<>>, lines |-> ts, used |-> used]
  BY <1>6, <1>7, <1>10 DEF SmtpMeaning, OtherCode
<1>12. ASSUME NEW data, NEW g, NEW b, Shows(data, ls, n, g, b)
       PROVE  /\ g < b => Parsed(w, data).kind = "Incomplete"
              /\ b <= g => Means(Parsed(w, data), w.means, b)
  <2>1. Parsed(w, data) = SmtpParse(data)
    BY <1>4 DEF Parsed
  <2>2. ASSUME g < b PROVE SmtpParse(data).kind = "Incomplete"
    BY <1>9, <1>12, <2>2, SmtpWaits DEF Shows
  <2>3. ASSUME b <= g PROVE Means(SmtpParse(data), w.means, b)
    <3>1. SmtpParse(data) = SmtpMeaning(ls, n, b)
      BY <1>9, <1>12, <2>3, SmtpReads DEF Shows
    <3>. QED
      BY <1>4, <1>11, <3>1 DEF Means, Reply
  <2>. QED
    BY <2>1, <2>2, <2>3
<1>. QED
  BY <1>4, <1>8, <1>12 DEF ReadRight, ls, n

-----------------------------------------------------------------------------
\* Lines symbol by symbol.
IsEmpty(p) == p = <<>>
Is1(p, a) == p = <<a>>
Is3(p, a, b, c) == p = <<a, b, c>>
Is4(p, a, b, c, d) == p = <<a, b, c, d>>
Is5(p, a, b, c, d, e) == p = <<a, b, c, d, e>>

\* No symbols.
LEMMA EmptyIs ==
  ASSUME NEW p, IsEmpty(p)
  PROVE  p \in Seq(Symbols) /\ Len(p) = 0
BY DEF IsEmpty

\* One symbol.
LEMMA OneIs ==
  ASSUME NEW p, NEW a \in Symbols, Is1(p, a)
  PROVE  p \in Seq(Symbols) /\ Len(p) = 1 /\ p[1] = a
BY DEF Is1

\* Three symbols.
LEMMA ThreeIs ==
  ASSUME NEW p, NEW a \in Symbols, NEW b \in Symbols, NEW c \in Symbols, Is3(p, a, b, c)
  PROVE  p \in Seq(Symbols) /\ Len(p) = 3 /\ p[1] = a /\ p[2] = b /\ p[3] = c
BY DEF Is3

\* Four symbols.
LEMMA FourIs ==
  ASSUME NEW p, NEW a \in Symbols, NEW b \in Symbols, NEW c \in Symbols, NEW d \in Symbols,
         Is4(p, a, b, c, d)
  PROVE  p \in Seq(Symbols) /\ Len(p) = 4 /\ p[1] = a /\ p[2] = b /\ p[3] = c /\ p[4] = d
BY DEF Is4

\* Five symbols.
LEMMA FiveIs ==
  ASSUME NEW p, NEW a \in Symbols, NEW b \in Symbols, NEW c \in Symbols, NEW d \in Symbols,
         NEW e \in Symbols, Is5(p, a, b, c, d, e)
  PROVE  /\ p \in Seq(Symbols) /\ Len(p) = 5
         /\ p[1] = a /\ p[2] = b /\ p[3] = c /\ p[4] = d /\ p[5] = e
BY DEF Is5

\* A line of less than four symbols is a malformed one.
LEMMA TooShort ==
  ASSUME NEW l \in Seq(Symbols), Len(l) < 4, \A i \in 1..Len(l) : l[i] # CR
  PROVE  NoBreak(l) /\ BadFormat(l)
<1>1. Len(l) \in Nat
  OBVIOUS
<1>2. ~(Len(l) >= 4)
  BY <1>1
<1>3. \A i \in 1 .. Len(l) - 1 : i \in 1..Len(l)
  BY <1>1
<1>. QED
  BY <1>2, <1>3 DEF NoBreak, BadFormat, digit3

\* The parser refuses each malformed line, for the reason it should.
LEMMA MalformedIs ==
  ASSUME NEW k, NEW bad \in Malformed(k)
  PROVE  /\ bad.line \in Seq(Symbols) /\ NoBreak(bad.line)
         /\ \/ BadFormat(bad.line) /\ bad.means = "InvalidFormat"
            \/ /\ k # 1 /\ ~BadFormat(bad.line)
               /\ Code(bad.line) # <<"2", "5", "0">> /\ bad.means = "InvalidCode"
<1>. DEFINE l == bad.line
<1>0. "2" \in Symbols /\ "5" \in Symbols /\ "0" \in Symbols /\ "x" \in Symbols /\ SP \in Symbols
  BY DEF Symbols
<1>a. \/ IsEmpty(l) /\ bad.means = "InvalidFormat"
      \/ Is3(l, "2", "5", "0") /\ bad.means = "InvalidFormat"
      \/ Is4(l, "2", "x", "0", SP) /\ bad.means = "InvalidFormat"
      \/ Is5(l, "2", "5", "0", "0", SP) /\ bad.means = "InvalidFormat"
      \/ k # 1 /\ Is4(l, "5", "5", "0", SP) /\ bad.means = "InvalidCode"
  BY DEF Malformed, IsEmpty, Is3, Is4, Is5
<1>. HIDE DEF l
<1>1. CASE IsEmpty(l) /\ bad.means = "InvalidFormat"
  <2>1. l \in Seq(Symbols) /\ Len(l) = 0
    BY <1>1, EmptyIs
  <2>2. Len(l) < 4 /\ \A i \in 1..Len(l) : l[i] # CR
    BY <2>1
  <2>. QED
    BY <1>1, <2>1, <2>2, TooShort DEF l
<1>2. CASE Is3(l, "2", "5", "0") /\ bad.means = "InvalidFormat"
  <2>1. l \in Seq(Symbols) /\ Len(l) = 3 /\ l[1] = "2" /\ l[2] = "5" /\ l[3] = "0"
    BY <1>0, <1>2, ThreeIs
  <2>2. Len(l) < 4 /\ \A i \in 1..Len(l) : l[i] # CR
    BY <2>1 DEF CR
  <2>. QED
    BY <1>2, <2>1, <2>2, TooShort DEF l
<1>3. CASE Is4(l, "2", "x", "0", SP) /\ bad.means = "InvalidFormat"
  <2>1. l \in Seq(Symbols) /\ Len(l) = 4 /\ l[1] = "2" /\ l[2] = "x" /\ l[3] = "0" /\ l[4] = SP
    BY <1>0, <1>3, FourIs
  <2>2. NoBreak(l)
    BY <2>1 DEF NoBreak, CR
  <2>3. ~digit3(l)
    <3>1. l[2] \notin Digits /\ 2 \in 1..3
      BY <2>1 DEF Digits
    <3>. QED
      BY <3>1 DEF digit3
  <2>. QED
    BY <1>3, <2>1, <2>2, <2>3 DEF BadFormat, l
<1>4. CASE Is5(l, "2", "5", "0", "0", SP) /\ bad.means = "InvalidFormat"
  <2>1. /\ l \in Seq(Symbols) /\ Len(l) = 5
        /\ l[1] = "2" /\ l[2] = "5" /\ l[3] = "0" /\ l[4] = "0" /\ l[5] = SP
    BY <1>0, <1>4, FiveIs
  <2>2. NoBreak(l)
    BY <2>1 DEF NoBreak, CR
  <2>3. l[4] \notin {SP, "-"}
    BY <2>1 DEF SP
  <2>. QED
    BY <1>4, <2>1, <2>2, <2>3 DEF BadFormat, l
<1>5. CASE k # 1 /\ Is4(l, "5", "5", "0", SP) /\ bad.means = "InvalidCode"
  <2>1. l \in Seq(Symbols) /\ Len(l) = 4 /\ l[1] = "5" /\ l[2] = "5" /\ l[3] = "0" /\ l[4] = SP
    BY <1>0, <1>5, FourIs
  <2>2. NoBreak(l)
    BY <2>1 DEF NoBreak, CR
  <2>3. ~BadFormat(l)
    <3>1. \A i \in 1..3 : l[i] \in Digits
      BY <2>1 DEF Digits
    <3>. QED
      BY <2>1, <3>1 DEF BadFormat, digit3
  <2>4. Code(l) = <<l[1], l[2], l[3]>>
    <3>1. Len(l) >= 3
      BY <2>1
    <3>. QED
      BY <2>1, <3>1, CodeIs
  <2>5. Code(l) # <<"2", "5", "0">>
    <3>1. Code(l)[1] = "5" /\ <<"2", "5", "0">>[1] = "2"
      BY <2>1, <2>4
    <3>. QED
      BY <3>1
  <2>. QED
    BY <1>5, <2>1, <2>2, <2>3, <2>5 DEF l
<1>. QED
  BY <1>a, <1>1, <1>2, <1>3, <1>4, <1>5

\* The lines of a reply of n lines in which the k-th is replaced.
IsBadReply(ls, n, k, l) ==
  /\ n \in Nat /\ k \in 1..n
  /\ ls = [i \in 1..n |-> IF i = k THEN l ELSE SmtpLine(i, n, <<"x">>)]

\* In a reply with a malformed line none before it stops the parser.
LEMMA BadReplyShape ==
  ASSUME NEW ls, NEW n, NEW k, NEW l, IsBadReply(ls, n, k, l), l \in Seq(Symbols), NoBreak(l)
  PROVE  /\ ls \in Seq(Seq(Symbols)) /\ Len(ls) = n /\ ls[k] = l
         /\ \A i \in 1..n : NoBreak(ls[i])
         /\ \A i \in 1..n : i # k => ~BadFormat(ls[i]) /\ Code(ls[i]) = <<"2", "5", "0">>
         /\ \A i \in 1..n : i # k /\ i # n => ls[i][4] = "-"
<1>1. n \in Nat /\ k \in 1..n
  BY DEF IsBadReply
<1>2. Line(ls) /\ Len(ls) = n
  BY <1>1 DEF Line, IsBadReply
<1>3. ls[k] = l
  BY <1>1 DEF IsBadReply
<1>4. <<"x">> \in Seq(Symbols) /\ NoBreak(<<"x">>)
  <2>. DEFINE x == <<"x">>
  <2>1. Is1(x, "x") /\ "x" \in Symbols
    BY DEF Is1, Symbols
  <2>. HIDE DEF x
  <2>2. x \in Seq(Symbols) /\ Len(x) = 1
    BY <2>1, OneIs
  <2>3. NoBreak(x)
    BY <2>2 DEF NoBreak
  <2>. QED
    BY <2>2, <2>3 DEF x
<1>5. ASSUME NEW i \in 1..n, i # k
      PROVE  /\ ls[i] \in Seq(Symbols) /\ NoBreak(ls[i]) /\ ~BadFormat(ls[i])
             /\ Code(ls[i]) = <<"2", "5", "0">> /\ (i # n => ls[i][4] = "-")
  <2>. DEFINE m == ls[i]
              x == <<"x">>
  <2>1. m = SmtpLine(i, n, x)
    BY <1>5 DEF IsBadReply
  <2>2. x \in Seq(Symbols) /\ NoBreak(x)
    BY <1>4
  <2>. HIDE DEF m, x
  <2>3. /\ m \in Seq(Symbols) /\ NoBreak(m) /\ ~BadFormat(m) /\ Code(m) = <<"2", "5", "0">>
        /\ m[4] = IF i = n THEN SP ELSE "-"
    BY <2>1, <2>2, SmtpLineIs
  <2>. QED
    BY <2>3 DEF m
<1>6. \A i \in 1..Len(ls) : ls[i] \in Seq(Symbols)
  BY <1>2, <1>3, <1>5
<1>7. ls \in Seq(Seq(Symbols))
  BY <1>2, <1>6, LineIsSeq
<1>. QED
  BY <1>2, <1>3, <1>5, <1>7

\* Every malformed SMTP reply is refused, at the line that is malformed.
LEMMA BadSmtpRepliesRead ==
  ASSUME NEW w \in BadSmtpReplies
  PROVE  WellShaped(w) /\ ReadRight(w)
<1>. DEFINE Bad(k) ==
              {[parse |-> "Smtp", multiline |-> FALSE,
                lines |-> [i \in 1..n |-> IF i = k THEN bad.line ELSE SmtpLine(i, n, <<"x">>)],
                end |-> k, means |-> Error(bad.means)] : n \in k..MaxLines, bad \in Malformed(k)}
<1>0. PICK k \in 1..MaxLines : w \in Bad(k)
  <2>1. w \in UNION {Bad(k) : k \in 1..MaxLines}
    BY DEF BadSmtpReplies
  <2>. HIDE DEF Bad
  <2>. QED
    BY <2>1
<1>1. PICK n \in k..MaxLines, bad \in Malformed(k) :
        w = [parse |-> "Smtp", multiline |-> FALSE,
             lines |-> [i \in 1..n |-> IF i = k THEN bad.line ELSE SmtpLine(i, n, <<"x">>)],
             end |-> k, means |-> Error(bad.means)]
  BY <1>0
<1>. DEFINE l == bad.line
            ls == w.lines
<1>2. /\ l \in Seq(Symbols) /\ NoBreak(l)
      /\ \/ BadFormat(l) /\ bad.means = "InvalidFormat"
         \/ k # 1 /\ ~BadFormat(l) /\ Code(l) # <<"2", "5", "0">> /\ bad.means = "InvalidCode"
  BY MalformedIs
<1>3. w.parse = "Smtp" /\ w.end = k /\ w.means = [kind |-> bad.means]
  BY <1>1 DEF Error
<1>4. n \in Nat /\ k \in 1..n /\ 1 \in 1..n /\ k \in Nat \ {0}
  BY ReaderAssumption
<1>. HIDE DEF ls, l
<1>5. IsBadReply(ls, n, k, l)
  BY <1>1, <1>4 DEF IsBadReply, ls, l
<1>6. /\ ls \in Seq(Seq(Symbols)) /\ Len(ls) = n /\ ls[k] = l
      /\ \A i \in 1..n : NoBreak(ls[i])
      /\ \A i \in 1..n : i # k => ~BadFormat(ls[i]) /\ Code(ls[i]) = <<"2", "5", "0">>
      /\ \A i \in 1..n : i # k /\ i # n => ls[i][4] = "-"
  BY <1>2, <1>5, BadReplyShape
<1>7. WellShaped(w)
  BY <1>3, <1>4, <1>6 DEF WellShaped, ls
<1>8. StopsFirstAt(ls, k)
  <2>1. ASSUME NEW j \in 1 .. k - 1 PROVE ~Stop(ls[j], ls[1])
    <3>1. j \in 1..n /\ j # n /\ j # k /\ 1 # k
      BY <1>4
    <3>2. ~BadFormat(ls[j]) /\ Code(ls[j]) = Code(ls[1]) /\ ls[j][4] = "-"
      BY <1>4, <1>6, <3>1
    <3>. QED
      BY <3>2 DEF SP, Stop, OtherCode
  <2>2. Stop(ls[k], ls[1])
    BY <1>2, <1>4, <1>6 DEF Stop, OtherCode
  <2>. QED
    BY <1>4, <2>1, <2>2 DEF StopsFirstAt
<1>9. ASSUME NEW used PROVE SmtpMeaning(ls, k, used) = [kind |-> bad.means]
  BY <1>2, <1>4, <1>6 DEF SmtpMeaning, OtherCode
<1>10. bad.means # "Incomplete" /\ bad.means # "reply"
  BY <1>2
<1>11. ASSUME NEW data, NEW g, NEW b, Shows(data, ls, k, g, b)
       PROVE  /\ g < b => Parsed(w, data).kind = "Incomplete"
              /\ b <= g => Means(Parsed(w, data), w.means, b)
  <2>1. Parsed(w, data) = SmtpParse(data)
    BY <1>3 DEF Parsed
  <2>2. ASSUME g < b PROVE SmtpParse(data).kind = "Incomplete"
    BY <1>8, <1>11, <2>2, SmtpWaits DEF Shows
  <2>3. ASSUME b <= g PROVE Means(SmtpParse(data), w.means, b)
    <3>1. SmtpParse(data) = SmtpMeaning(ls, k, b)
      BY <1>8, <1>11, <2>3, SmtpReads DEF Shows
    <3>. QED
      BY <1>3, <1>9, <1>10, <3>1 DEF Means
  <2>. QED
    BY <2>1, <2>2, <2>3
<1>. QED
  BY <1>3, <1>7, <1>11 DEF ReadRight, ls

-----------------------------------------------------------------------------
\* POP3 replies of one line.

\* The three kinds of POP3 reply.
OneLine ==
  {[parse |-> "Pop3", multiline |-> r.multi, lines |-> <<StatusLine(r.status, <<"x">>)>>,
    end |-> 1, means |-> Reply(r.status, <<"x">>, <<>>)] :
     r \in [status : {"+OK", "-ERR"}, multi : BOOLEAN] \ {[status |-> "+OK", multi |-> TRUE]}}
WithText ==
  {[parse |-> "Pop3", multiline |-> TRUE,
    lines |-> <<StatusLine("+OK", <<>>)>> \o [i \in DOMAIN ts |-> Stuffed(ts[i])] \o <<<<".">>>>,
    end |-> Len(ts) + 2, means |-> Reply("+OK", <<>>, ts)] :
     ts \in UNION {[1..n -> Contents({"x", ".", CR, LF})] : n \in 0..MaxLines}}
NoStatus ==
  {[parse |-> "Pop3", multiline |-> multi, lines |-> <<bad>>, end |-> 1,
    means |-> Error("InvalidFormat")] :
     bad \in {<<>>, <<"x">>, <<SP, "+OK">>}, multi \in BOOLEAN}

\* The POP3 replies are of these kinds.
LEMMA Pop3Kinds == Pop3Replies = OneLine \cup WithText \cup NoStatus
BY DEF Pop3Replies, OneLine, WithText, NoStatus

Is2(p, a, b) == p = <<a, b>>

\* Two symbols.
LEMMA TwoIs ==
  ASSUME NEW p, NEW a \in Symbols, NEW b \in Symbols, Is2(p, a, b)
  PROVE  p \in Seq(Symbols) /\ Len(p) = 2 /\ p[1] = a /\ p[2] = b
BY DEF Is2

\* A line that is all there is.
LEMMA OneLineSeq ==
  ASSUME NEW ls, NEW l, ls = <<l>>, l \in Seq(Symbols)
  PROVE  ls \in Seq(Seq(Symbols)) /\ Len(ls) = 1 /\ ls[1] = l
OBVIOUS

\* The first line of a reply has the status and the message that were put in it.
LEMMA StatusLineIs ==
  ASSUME NEW status \in {"+OK", "-ERR"}, NEW m \in Seq(Symbols), NoBreak(m),
         NEW l, l = StatusLine(status, m)
  PROVE  /\ l \in Seq(Symbols) /\ NoBreak(l) /\ HasStatus(l) /\ Head(l) = status /\ Message(l) = m
<1>. DEFINE p == <<status, SP>>
<1>1. p \in Seq(Symbols) /\ Len(p) = 2 /\ p[1] = status /\ p[2] = SP
  <2>1. status \in Symbols /\ SP \in Symbols /\ Is2(p, status, SP)
    BY DEF Symbols, Is2
  <2>. HIDE DEF p
  <2>. QED
    BY <2>1, TwoIs
<1>. HIDE DEF p
<1>2. NoBreak(p) /\ Len(p) # 0 /\ p[Len(p)] # CR
  <2>1. p[1] # CR /\ p[2] # CR
    BY <1>1 DEF CR, SP
  <2>. QED
    BY <1>1, <2>1 DEF NoBreak
<1>3. Fronted(l, p, m)
  BY <1>1 DEF StatusLine, Fronted, p
<1>4. l \in Seq(Symbols) /\ NoBreak(l)
  BY <1>2, <1>3, LineWith
<1>5. /\ Len(m) \in Nat /\ Len(l) = 2 + Len(m) /\ l[1] = status /\ l[2] = SP
      /\ Len(l) \in Nat
  <2>1. Len(m) \in Nat /\ Len(l) = Len(p) + Len(m) /\ \A i \in 1..Len(p) : l[i] = p[i]
    BY <1>3, FrontedIs
  <2>. QED
    BY <1>1, <2>1
<1>6. Rest(l, 3) = m
  <2>1. 3 = Len(p) + 1
    BY <1>1
  <2>. QED
    BY <1>3, <2>1, RestIs
<1>7. Head(l) = l[1] /\ l # <<>> /\ Len(l) > 1
  <2>1. Len(l) > 1
    BY <1>5
  <2>2. l # <<>>
    BY <1>4, <2>1
  <2>. QED
    BY <1>4, <2>1, <2>2
<1>8. HasStatus(l) /\ Head(l) = status
  BY <1>5, <1>7 DEF HasStatus
<1>9. Message(l) = m
  BY <1>5, <1>6, <1>7 DEF Message
<1>. QED
  BY <1>4, <1>8, <1>9

\* The message of one letter.
LEMMA XIs ==
  ASSUME NEW x, Is1(x, "x")
  PROVE  x \in Seq(Symbols) /\ NoBreak(x) /\ Len(x) = 1 /\ x[1] = "x"
<1>1. "x" \in Symbols
  BY DEF Symbols
<1>2. x \in Seq(Symbols) /\ Len(x) = 1 /\ x[1] = "x"
  BY <1>1, OneIs
<1>. QED
  BY <1>2 DEF NoBreak

\* A reply of one line, good or not.
IsOneLine(w, l) ==
  w.parse = "Pop3" /\ w.multiline \in BOOLEAN /\ w.lines = <<l>> /\ w.end = 1

\* A reply of one line is read at its end and not before.
LEMMA OneLineReads ==
  ASSUME NEW w, NEW l, IsOneLine(w, l), l \in Seq(Symbols), NoBreak(l),
         HasStatus(l) => /\ ~(w.multiline /\ Head(l) = "+OK")
                         /\ w.means = Reply(Head(l), Message(l), <<>>),
         ~HasStatus(l) => w.means = Error("InvalidFormat")
  PROVE  WellShaped(w) /\ ReadRight(w)
<1>. DEFINE ls == w.lines
            multi == w.multiline
<1>1. ls \in Seq(Seq(Symbols)) /\ Len(ls) = 1 /\ ls[1] = l
  <2>1. ls = <<l>>
    BY DEF IsOneLine
  <2>. HIDE DEF ls
  <2>. QED
    BY <2>1, OneLineSeq
<1>2. w.parse = "Pop3" /\ multi \in BOOLEAN /\ w.end = 1
  BY DEF IsOneLine
<1>3. WellShaped(w)
  BY <1>1, <1>2 DEF WellShaped
<1>. HIDE DEF ls, multi
<1>4. ASSUME NEW data, NEW g, NEW b, Shows(data, ls, 1, g, b)
      PROVE  /\ g < b => Parsed(w, data).kind = "Incomplete"
             /\ b <= g => Means(Parsed(w, data), w.means, b)
  <2>1. Parsed(w, data) = Pop3Parse(data, multi)
    BY <1>2 DEF Parsed, multi
  <2>2. ASSUME g < b PROVE Pop3Parse(data, multi).kind = "Incomplete"
    <3>1. ShowsFewer(Lines(data), ls, 1)
      BY <1>4, <2>2 DEF Shows
    <3>. QED
      BY <3>1, Pop3Waits
  <2>3. ASSUME b <= g PROVE Means(Pop3Parse(data, multi), w.means, b)
    <3>1. ShowsAll(Lines(data), ls, 1) /\ Behind(data, 1) = b
      BY <1>4, <2>3 DEF Shows
    <3>2. Pop3Parse(data, multi) =
           IF HasStatus(l) THEN
             [kind |-> "reply", status |-> Head(l), message |-> Message(l), lines |-> <<>>, used |-> b]
           ELSE [kind |-> "InvalidFormat"]
      <4>1. HasStatus(ls[1]) => ~(multi /\ Head(ls[1]) = "+OK")
        BY <1>1 DEF multi
      <4>2. Pop3Parse(data, multi) =
              IF HasStatus(ls[1]) THEN
                [kind |-> "reply", status |-> Head(ls[1]), message |-> Message(ls[1]), lines |-> <<>>,
                 used |-> Behind(data, 1)]
              ELSE [kind |-> "InvalidFormat"]
        BY <1>2, <3>1, <4>1, Pop3ReadsLine
      <4>. QED
        BY <1>1, <3>1, <4>2
    <3>3. CASE HasStatus(l)
      BY <3>2, <3>3 DEF Means, Reply
    <3>4. CASE ~HasStatus(l)
      BY <3>2, <3>4 DEF Means, Error
    <3>. QED
      BY <3>3, <3>4
  <2>. QED
    BY <2>1, <2>2, <2>3
<1>. QED
  BY <1>2, <1>3, <1>4 DEF ReadRight, ls

\* Every POP3 reply of one line is read as it was written.
LEMMA OneLineRead ==
  ASSUME NEW w \in OneLine
  PROVE  WellShaped(w) /\ ReadRight(w)
<1>. DEFINE x == <<"x">>
<1>1. PICK r \in [status : {"+OK", "-ERR"}, multi : BOOLEAN] \ {[status |-> "+OK", multi |-> TRUE]} :
        w = [parse |-> "Pop3", multiline |-> r.multi, lines |-> <<StatusLine(r.status, x)>>,
             end |-> 1, means |-> Reply(r.status, x, <<>>)]
  BY DEF OneLine
<1>2. r.status \in {"+OK", "-ERR"} /\ r.multi \in BOOLEAN /\ ~(r.multi /\ r.status = "+OK")
  OBVIOUS
<1>. DEFINE l == StatusLine(r.status, x)
<1>3. IsOneLine(w, l) /\ w.multiline = r.multi /\ w.means = Reply(r.status, x, <<>>)
  BY <1>1, <1>2 DEF IsOneLine
<1>4. x \in Seq(Symbols) /\ NoBreak(x)
  <2>1. Is1(x, "x")
    BY DEF Is1
  <2>. HIDE DEF x
  <2>. QED
    BY <2>1, XIs
<1>. HIDE DEF x
<1>5. /\ l \in Seq(Symbols) /\ NoBreak(l) /\ HasStatus(l) /\ Head(l) = r.status /\ Message(l) = x
  <2>1. l = StatusLine(r.status, x)
    OBVIOUS
  <2>. HIDE DEF l
  <2>. QED
    BY <1>2, <1>4, <2>1, StatusLineIs
<1>. HIDE DEF l
<1>. QED
  BY <1>2, <1>3, <1>5, OneLineReads

\* Every POP3 reply without a status is refused.
LEMMA NoStatusRead ==
  ASSUME NEW w \in NoStatus
  PROVE  WellShaped(w) /\ ReadRight(w)
<1>1. PICK l \in {<<>>, <<"x">>, <<SP, "+OK">>}, multi \in BOOLEAN :
        w = [parse |-> "Pop3", multiline |-> multi, lines |-> <<l>>, end |-> 1,
             means |-> Error("InvalidFormat")]
  BY DEF NoStatus
<1>2. IsEmpty(l) \/ Is1(l, "x") \/ Is2(l, SP, "+OK")
  BY DEF IsEmpty, Is1, Is2
<1>3. IsOneLine(w, l) /\ w.means = Error("InvalidFormat")
  BY <1>1 DEF IsOneLine
<1>4. l \in Seq(Symbols) /\ NoBreak(l) /\ ~HasStatus(l)
  <2>1. CASE IsEmpty(l)
    <3>1. l \in Seq(Symbols) /\ Len(l) = 0
      BY <2>1, EmptyIs
    <3>2. ~HasStatus(l)
      BY <2>1 DEF HasStatus, IsEmpty
    <3>. QED
      BY <3>1, <3>2 DEF NoBreak
  <2>2. CASE Is1(l, "x")
    <3>1. l \in Seq(Symbols) /\ NoBreak(l) /\ Len(l) = 1 /\ l[1] = "x"
      BY <2>2, XIs
    <3>2. Head(l) = l[1]
      BY <3>1
    <3>. QED
      BY <3>1, <3>2 DEF HasStatus
  <2>3. CASE Is2(l, SP, "+OK")
    <3>1. SP \in Symbols /\ "+OK" \in Symbols
      BY DEF Symbols
    <3>2. l \in Seq(Symbols) /\ Len(l) = 2 /\ l[1] = SP /\ l[2] = "+OK"
      BY <2>3, <3>1, TwoIs
    <3>3. Head(l) = l[1]
      BY <3>2
    <3>4. NoBreak(l)
      BY <3>2 DEF NoBreak, CR, SP
    <3>. QED
      BY <3>2, <3>3, <3>4 DEF HasStatus, SP
  <2>. QED
    BY <1>2, <2>1, <2>2, <2>3
<1>. QED
  BY <1>3, <1>4, OneLineReads
-----------------------------------------------------------------------------
\* A line that begins with a dot.
LEMMA DotFirst ==
  ASSUME NEW l \in Seq(Symbols)
  PROVE  IsPrefix(<<".">>, l) <=> Len(l) >= 1 /\ l[1] = "."
<1>. DEFINE p == <<".">>
<1>1. Is1(p, ".") /\ "." \in Symbols
  BY DEF Is1, Symbols
<1>. HIDE DEF p
<1>2. p \in Seq(Symbols) /\ Len(p) = 1 /\ p[1] = "."
  BY <1>1, OneIs
<1>3. Len(l) \in Nat
  OBVIOUS
<1>4. CASE Len(l) >= 1
  <2>. DEFINE u == SubSeq(p, 1, Len(p))
              v == SubSeq(l, 1, Len(p))
  <2>1. u \in Seq(Symbols) /\ Len(u) = 1 /\ u[1] = "."
    BY <1>2
  <2>2. v \in Seq(Symbols) /\ Len(v) = 1 /\ v[1] = l[1]
    BY <1>2, <1>3, <1>4
  <2>3. IsPrefix(p, l) <=> u = v
    BY <1>2, <1>3, <1>4 DEF IsPrefix
  <2>. HIDE DEF u, v
  <2>4. u = v <=> u[1] = v[1]
    BY <2>1, <2>2
  <2>. QED
    BY <1>4, <2>1, <2>2, <2>3, <2>4 DEF p
<1>5. CASE ~(Len(l) >= 1)
  BY <1>2, <1>3, <1>5 DEF IsPrefix, p
<1>. QED
  BY <1>4, <1>5

\* A line with a dot put in front of its own dot.
LEMMA TwoDotsFirst ==
  ASSUME NEW l \in Seq(Symbols)
  PROVE  IsPrefix(<<".", ".">>, l) <=> Len(l) >= 2 /\ l[1] = "." /\ l[2] = "."
<1>. DEFINE p == <<".", ".">>
<1>1. Is2(p, ".", ".") /\ "." \in Symbols
  BY DEF Is2, Symbols
<1>. HIDE DEF p
<1>2. p \in Seq(Symbols) /\ Len(p) = 2 /\ p[1] = "." /\ p[2] = "."
  BY <1>1, TwoIs
<1>3. Len(l) \in Nat
  OBVIOUS
<1>4. CASE Len(l) >= 2
  <2>. DEFINE u == SubSeq(p, 1, Len(p))
              v == SubSeq(l, 1, Len(p))
  <2>1. u \in Seq(Symbols) /\ Len(u) = 2 /\ u[1] = "." /\ u[2] = "."
    <3>1. u = p
      BY <1>2
    <3>. QED
      BY <1>2, <3>1
  <2>2. v \in Seq(Symbols) /\ Len(v) = 2 /\ v[1] = l[1] /\ v[2] = l[2]
    BY <1>2, <1>3, <1>4
  <2>3. IsPrefix(p, l) <=> u = v
    BY <1>2, <1>3, <1>4 DEF IsPrefix
  <2>. HIDE DEF u, v
  <2>4. u = v <=> u[1] = v[1] /\ u[2] = v[2]
    BY <2>1, <2>2
  <2>. QED
    BY <1>4, <2>1, <2>2, <2>3, <2>4 DEF p
<1>5. CASE ~(Len(l) >= 2)
  BY <1>2, <1>3, <1>5 DEF IsPrefix, p
<1>. QED
  BY <1>4, <1>5

\* A line of text with its dot doubled is no final line, and is got back.
LEMMA StuffedIs ==
  ASSUME NEW t \in Seq(Symbols), NoBreak(t), NEW l, l = Stuffed(t)
  PROVE  /\ l \in Seq(Symbols) /\ NoBreak(l) /\ ~Final(l) /\ Unstuff(l) = t
<1>. DEFINE p == <<".">>
<1>0. Is1(p, ".") /\ "." \in Symbols
  BY DEF Is1, Symbols
<1>1. CASE Len(t) >= 1 /\ t[1] = "."
  <2>1. l = p \o t
    BY <1>1, DotFirst DEF Stuffed
  <2>. HIDE DEF p
  <2>2. p \in Seq(Symbols) /\ Len(p) = 1 /\ p[1] = "."
    BY <1>0, OneIs
  <2>3. Fronted(l, p, t)
    BY <2>1, <2>2 DEF Fronted
  <2>4. NoBreak(p) /\ Len(p) # 0 /\ p[Len(p)] # CR
    BY <2>2 DEF NoBreak, CR
  <2>5. l \in Seq(Symbols) /\ NoBreak(l)
    BY <2>3, <2>4, LineWith
  <2>6. /\ Len(t) \in Nat /\ Len(l) = 1 + Len(t) /\ l[1] = "." /\ l[1 + 1] = t[1]
    <3>1. /\ Len(t) \in Nat /\ Len(l) = Len(p) + Len(t)
          /\ \A i \in 1..Len(p) : l[i] = p[i]
          /\ \A i \in 1..Len(t) : l[Len(p) + i] = t[i]
      BY <2>3, FrontedIs
    <3>. QED
      BY <1>1, <2>2, <3>1
  <2>7. Len(l) >= 2 /\ l[2] = "."
    BY <1>1, <2>6
  <2>8. ~Final(l)
    <3>1. Len(p) = 1 /\ Len(l) # 1
      BY <2>2, <2>6, <2>7
    <3>. QED
      BY <3>1 DEF Final, p
  <2>9. Unstuff(l) = Tail(l)
    BY <2>5, <2>6, <2>7, TwoDotsFirst DEF Unstuff
  <2>10. Tail(l) = Rest(l, 2)
    BY <2>5, <2>7 DEF Rest
  <2>11. Rest(l, 2) = t
    <3>1. 2 = Len(p) + 1
      BY <2>2
    <3>. QED
      BY <2>3, <3>1, RestIs
  <2>. QED
    BY <2>5, <2>8, <2>9, <2>10, <2>11
<1>2. CASE ~(Len(t) >= 1 /\ t[1] = ".")
  <2>1. l = t
    BY <1>2, DotFirst DEF Stuffed
  <2>2. ~Final(l)
    <3>. HIDE DEF p
    <3>1. Len(p) = 1 /\ p[1] = "."
      BY <1>0, OneIs
    <3>2. t # p
      BY <1>2, <3>1
    <3>. QED
      BY <2>1, <3>2 DEF Final, p
  <2>3. Unstuff(l) = t
    <3>1. ~(Len(t) >= 2 /\ t[1] = "." /\ t[2] = ".")
      BY <1>2
    <3>. QED
      BY <2>1, <3>1, TwoDotsFirst DEF Unstuff
  <2>. QED
    BY <2>1, <2>2, <2>3
<1>. QED
  BY <1>1, <1>2

-----------------------------------------------------------------------------
\* POP3 replies with text.

\* A text in two parts.
InTwo(s, p, t) == s = p \o t

\* Element by element.
IsInTwo(s, p, t) ==
  /\ Len(s) = Len(p) + Len(t)
  /\ \A i \in 1..Len(p) : s[i] = p[i]
  /\ \A i \in 1..Len(t) : s[Len(p) + i] = t[i]

\* It is both parts, element by element.
LEMMA InTwoIs ==
  ASSUME NEW T, NEW p, NEW t, NEW s, p \in Seq(T), t \in Seq(T), InTwo(s, p, t)
  PROVE  s \in Seq(T) /\ IsInTwo(s, p, t)
BY Concat DEF InTwo, IsInTwo

\* A reply with text: its first line, the lines of the text with their dots
\* doubled, and the last line.
IsReplyWithText(ls, ts) ==
  /\ Line(ts) /\ \A i \in 1..Len(ts) : Writable(ts[i])
  /\ ls = <<StatusLine("+OK", <<>>)>> \o [i \in 1..Len(ts) |-> Stuffed(ts[i])] \o <<<<".">>>>

\* Only the last line of a reply with text is the final one, and the lines before
\* it are those of the text once the doubled dots are gone.
LEMMA ReplyWithTextShape ==
  ASSUME NEW ls, NEW ts, IsReplyWithText(ls, ts), NEW n, n = Len(ts)
  PROVE  /\ n \in Nat /\ ls \in Seq(Seq(Symbols)) /\ Len(ls) = n + 2
         /\ \A i \in 1 .. n + 2 : NoBreak(ls[i])
         /\ HasStatus(ls[1]) /\ Head(ls[1]) = "+OK" /\ Message(ls[1]) = <<>>
         /\ Final(ls[n + 2]) /\ \A i \in 1..n : ~Final(ls[i + 1]) /\ Unstuff(ls[i + 1]) = ts[i]
<1>. DEFINE T == Seq(Symbols)
            a == <<StatusLine("+OK", <<>>)>>
            b == [i \in 1..Len(ts) |-> Stuffed(ts[i])]
            c == <<<<".">>>>
            ab == a \o b
            s == StatusLine("+OK", <<>>)
            d == <<".">>
            e == <<>>
<1>1. n \in Nat /\ \A i \in 1..n : ts[i] \in Seq(Symbols) /\ NoBreak(ts[i])
  BY DEF IsReplyWithText, Line, Writable
<1>2. InTwo(ab, a, b) /\ InTwo(ls, ab, c)
  BY DEF IsReplyWithText, InTwo
<1>3. s \in Seq(Symbols) /\ NoBreak(s) /\ HasStatus(s) /\ Head(s) = "+OK" /\ Message(s) = e
  <2>1. IsEmpty(e)
    BY DEF IsEmpty
  <2>2. s = StatusLine("+OK", e) /\ "+OK" \in {"+OK", "-ERR"}
    OBVIOUS
  <2>. HIDE DEF e, s
  <2>3. e \in Seq(Symbols) /\ Len(e) = 0
    BY <2>1, EmptyIs
  <2>4. NoBreak(e)
    BY <2>3 DEF NoBreak
  <2>. QED
    BY <2>2, <2>3, <2>4, StatusLineIs
<1>4. d \in Seq(Symbols) /\ NoBreak(d) /\ Final(d)
  <2>1. Is1(d, ".") /\ "." \in Symbols /\ Final(d)
    BY DEF Is1, Symbols, Final
  <2>. HIDE DEF d
  <2>2. d \in Seq(Symbols) /\ Len(d) = 1
    BY <2>1, OneIs
  <2>. QED
    BY <2>1, <2>2 DEF NoBreak
<1>5. a = <<s>> /\ c = <<d>> /\ e = <<>>
  OBVIOUS
<1>. HIDE DEF s, d, T, e
<1>6. /\ a \in Seq(T) /\ Len(a) = 1 /\ a[1] = s
      /\ c \in Seq(T) /\ Len(c) = 1 /\ c[1] = d
  <2>. HIDE DEF a, c
  <2>. QED
    BY <1>3, <1>4, <1>5, OneLineSeq DEF T
<1>7. ASSUME NEW i \in 1..n
      PROVE  b[i] \in T /\ NoBreak(b[i]) /\ ~Final(b[i]) /\ Unstuff(b[i]) = ts[i]
  <2>. DEFINE l == b[i]
              t == ts[i]
  <2>1. l = Stuffed(t)
    OBVIOUS
  <2>2. t \in Seq(Symbols) /\ NoBreak(t)
    BY <1>1
  <2>. HIDE DEF l, t
  <2>3. l \in Seq(Symbols) /\ NoBreak(l) /\ ~Final(l) /\ Unstuff(l) = t
    BY <2>1, <2>2, StuffedIs
  <2>. QED
    BY <2>3 DEF l, t, T
<1>8. Line(b) /\ Len(b) = n
  BY <1>1 DEF Line
<1>. HIDE DEF a, b, c, ab
<1>9. b \in Seq(T)
  BY <1>7, <1>8, LineIsSeq
<1>10. /\ ab \in Seq(T) /\ Len(ab) = 1 + n /\ ab[1] = s
       /\ \A i \in 1..n : ab[1 + i] = b[i]
  <2>1. ab \in Seq(T) /\ IsInTwo(ab, a, b)
    <3>1. a \in Seq(T) /\ b \in Seq(T) /\ InTwo(ab, a, b)
      BY <1>2, <1>6, <1>9
    <3>. QED
      BY <3>1, InTwoIs
  <2>. QED
    BY <1>6, <1>8, <2>1 DEF IsInTwo
<1>11. /\ ls \in Seq(T) /\ Len(ls) = 1 + n + 1 /\ ls[1] = s /\ ls[1 + n + 1] = d
       /\ \A i \in 1..n : ls[1 + i] = b[i]
  <2>1. ls \in Seq(T) /\ IsInTwo(ls, ab, c)
    <3>1. ab \in Seq(T) /\ c \in Seq(T) /\ InTwo(ls, ab, c)
      BY <1>2, <1>6, <1>10
    <3>. QED
      BY <3>1, InTwoIs
  <2>2. 1 \in 1 .. 1 + n /\ \A i \in 1..n : 1 + i \in 1 .. 1 + n
    BY <1>1
  <2>. QED
    BY <1>1, <1>6, <1>10, <2>1, <2>2 DEF IsInTwo
<1>12. n + 2 = 1 + n + 1 /\ \A i \in 1..n : i + 1 = 1 + i
  BY <1>1
<1>13. ASSUME NEW i \in 1 .. n + 2 PROVE NoBreak(ls[i])
  <2>1. i = 1 \/ i = n + 2 \/ \E j \in 1..n : i = 1 + j
    <3>1. i # 1 /\ i # n + 2 => i - 1 \in 1..n /\ i = 1 + (i - 1)
      BY <1>1
    <3>. QED
      BY <3>1
  <2>. QED
    BY <1>3, <1>4, <1>7, <1>11, <1>12, <2>1
<1>. QED
  BY <1>1, <1>3, <1>4, <1>5, <1>7, <1>11, <1>12, <1>13 DEF T

\* Every POP3 reply with text is read as it was written.
LEMMA WithTextRead ==
  ASSUME NEW w \in WithText
  PROVE  WellShaped(w) /\ ReadRight(w)
<1>. DEFINE symbols == {"x", ".", CR, LF}
<1>1. PICK ts \in UNION {[1..n -> Contents(symbols)] : n \in 0..MaxLines} :
        w = [parse |-> "Pop3", multiline |-> TRUE,
             lines |-> <<StatusLine("+OK", <<>>)>> \o [i \in DOMAIN ts |-> Stuffed(ts[i])] \o <<<<".">>>>,
             end |-> Len(ts) + 2, means |-> Reply("+OK", <<>>, ts)]
  BY DEF WithText
<1>2. symbols \subseteq Symbols
  BY DEF Symbols, CR, LF
<1>. HIDE DEF symbols
<1>3. /\ DOMAIN ts = 1..Len(ts) /\ Line(ts)
      /\ \A i \in 1..Len(ts) : Writable(ts[i])
  BY <1>2, ManyContents
<1>. DEFINE n == Len(ts)
            ls == w.lines
            m == n + 2
<1>4. w.parse = "Pop3" /\ w.multiline = TRUE /\ w.end = m /\ w.means = Reply("+OK", <<>>, ts)
  BY <1>1
<1>5. IsReplyWithText(ls, ts)
  BY <1>1, <1>3 DEF IsReplyWithText
<1>6. n = Len(ts)
  OBVIOUS
<1>. HIDE DEF ls, n
<1>7. /\ n \in Nat /\ ls \in Seq(Seq(Symbols)) /\ Len(ls) = n + 2
      /\ \A i \in 1 .. n + 2 : NoBreak(ls[i])
      /\ HasStatus(ls[1]) /\ Head(ls[1]) = "+OK" /\ Message(ls[1]) = <<>>
      /\ Final(ls[n + 2]) /\ \A i \in 1..n : ~Final(ls[i + 1]) /\ Unstuff(ls[i + 1]) = ts[i]
  BY <1>5, <1>6, ReplyWithTextShape
<1>8. m \in Nat \ {0, 1} /\ m \in 1 .. n + 2 /\ m = n + 2 /\ m - 2 = n
  BY <1>7
<1>9. WellShaped(w)
  BY <1>4, <1>7, <1>8 DEF WellShaped, ls
<1>10. \A j \in 2 .. m - 1 : ~Final(ls[j])
  <2>1. \A j \in 2 .. m - 1 : j - 1 \in 1..n /\ j = (j - 1) + 1
    BY <1>7
  <2>. QED
    BY <1>7, <2>1
<1>11. [i \in 1 .. m - 2 |-> Unstuff(ls[i + 1])] = ts
  <2>1. ts = [i \in 1..n |-> ts[i]]
    BY <1>3 DEF Line, n
  <2>. QED
    BY <1>7, <1>8, <2>1
<1>. HIDE DEF m
<1>12. ASSUME NEW data, NEW g, NEW b, Shows(data, ls, m, g, b)
       PROVE  /\ g < b => Parsed(w, data).kind = "Incomplete"
              /\ b <= g => Means(Parsed(w, data), w.means, b)
  <2>1. Parsed(w, data) = Pop3Parse(data, TRUE)
    BY <1>4 DEF Parsed
  <2>2. ASSUME g < b PROVE Pop3Parse(data, TRUE).kind = "Incomplete"
    <3>1. ShowsFewer(Lines(data), ls, m)
      BY <1>12, <2>2 DEF Shows
    <3>. QED
      BY <1>7, <1>8, <1>10, <3>1, Pop3Waits
  <2>3. ASSUME b <= g PROVE Means(Pop3Parse(data, TRUE), w.means, b)
    <3>1. ShowsAll(Lines(data), ls, m) /\ Behind(data, m) = b
      BY <1>12, <2>3 DEF Shows
    <3>2. Pop3Parse(data, TRUE) =
            [kind |-> "reply", status |-> "+OK", message |-> Message(ls[1]),
             lines |-> [i \in 1 .. m - 2 |-> Unstuff(ls[i + 1])], used |-> Behind(data, m)]
      BY <1>7, <1>8, <1>10, <3>1, Pop3ReadsText
    <3>. DEFINE p == Pop3Parse(data, TRUE)
                r == w.means
                read == [i \in 1 .. m - 2 |-> Unstuff(ls[i + 1])]
                said == Message(ls[1])
                used == Behind(data, m)
    <3>3. p = [kind |-> "reply", status |-> "+OK", message |-> said, lines |-> read, used |-> used]
      BY <3>2
    <3>. HIDE DEF read, said, used, p
    <3>a. /\ p.kind = "reply" /\ p.status = "+OK" /\ p.message = said
          /\ p.lines = read /\ p.used = used
      BY <3>3
    <3>b. said = <<>> /\ read = ts /\ used = b
      BY <1>7, <1>11, <3>1 DEF said, read, used
    <3>4. /\ p.kind = "reply" /\ p.status = "+OK" /\ p.message = <<>>
          /\ p.lines = ts /\ p.used = b
      BY <3>a, <3>b
    <3>5. /\ r.kind = "reply" /\ r.status = "+OK" /\ r.message = <<>> /\ r.lines = ts
      BY <1>4 DEF Reply
    <3>. HIDE DEF p, r
    <3>6. Means(p, r, b)
      BY <3>4, <3>5 DEF Means
    <3>. QED
      BY <3>6 DEF p, r
  <2>. QED
    BY <2>1, <2>2, <2>3
<1>. QED
  BY <1>4, <1>9, <1>12 DEF ReadRight, ls, m
-----------------------------------------------------------------------------
\* Every reply is read as it was written, however it is cut.
Sent ==
  /\ written \in SmtpReplies \cup BadSmtpReplies \cup Pop3Replies
  /\ \E more \in Surplus : text = Joined(written.lines) \o more

\* What follows a reply is text too.
LEMMA SurplusIs ==
  ASSUME NEW more \in Surplus PROVE more \in Seq(Symbols)
<1>1. /\ CR \in Symbols /\ LF \in Symbols /\ SP \in Symbols
      /\ "2" \in Symbols /\ "5" \in Symbols /\ "0" \in Symbols /\ "." \in Symbols
  BY DEF Symbols, CR, LF, SP
<1>2. CASE more = <<>>
  BY <1>2
<1>3. CASE more = <<"2">>
  BY <1>1, <1>3
<1>4. CASE more = <<"5", "5", "0", SP, CR, LF>>
  BY <1>1, <1>4
<1>5. CASE more = <<".", CR, LF>>
  BY <1>1, <1>5
<1>6. CASE more = <<LF>>
  BY <1>1, <1>6
<1>. QED
  BY <1>2, <1>3, <1>4, <1>5, <1>6 DEF Surplus

\* Wherever the text is cut: before the end of the reply the parser waits, and
\* from there on it returns what was written.
LEMMA ReadsAtEveryCut ==
  ASSUME Sent
  PROVE  /\ Len(text) \in Nat /\ End \in Nat \ {0}
         /\ \A g \in 0..Len(text) :
              /\ g < End => Parse(SubSeq(text, 1, g)).kind = "Incomplete"
              /\ End <= g => Means(Parse(SubSeq(text, 1, g)), written.means, End)
<1>. DEFINE ws == written.lines
            m == written.end
<1>1. WellShaped(written) /\ ReadRight(written)
  BY SmtpRepliesRead, BadSmtpRepliesRead, Pop3Kinds, OneLineRead, WithTextRead, NoStatusRead DEF Sent
<1>2. ws \in Seq(Seq(Symbols)) /\ m \in 1..Len(ws) /\ \A i \in 1..Len(ws) : NoBreak(ws[i])
  BY <1>1 DEF WellShaped
<1>3. PICK more \in Seq(Symbols) : text = Joined(ws) \o more
  BY SurplusIs DEF Sent
<1>. HIDE DEF ws, m
<1>4. CR \in Symbols /\ LF \in Symbols
  BY DEF CR, LF, Symbols
<1>5. PICK a : /\ LaidOut(Joined(ws) \o more, ws, a)
               /\ \A k \in 0..Len(ws) : a[k] = Len(Joined(SubSeq(ws, 1, k)))
  BY <1>2, <1>4, JoinedIsLaidOut
<1>6. LaidOut(text, ws, a)
  BY <1>3, <1>5
<1>7. Len(ws) \in Nat /\ m \in Nat /\ 0 < m /\ m \in 0..Len(ws) /\ 0 \in 0..Len(ws)
  BY <1>2
<1>8. a[m] = End
  BY <1>5, <1>7 DEF End, ws, m
<1>9. End \in Nat \ {0}
  <2>1. a[0] + 2 <= a[m]
    BY <1>6, <1>7, Rising
  <2>2. a[0] = 0 /\ a[m] \in Nat
    BY <1>6, <1>7 DEF LaidOut
  <2>. QED
    BY <1>8, <2>1, <2>2
<1>10. text \in Seq(Symbols)
  <2>1. Joined(ws) \in Seq(Symbols)
    BY <1>2, <1>4, JoinedIsText
  <2>. QED
    BY <1>3, <2>1, Concat
<1>11. Len(text) \in Nat
  BY <1>10
<1>12. ASSUME NEW g \in 0..Len(text)
       PROVE  /\ g < End => Parse(SubSeq(text, 1, g)).kind = "Incomplete"
              /\ End <= g => Means(Parse(SubSeq(text, 1, g)), written.means, End)
  <2>. DEFINE data == SubSeq(text, 1, g)
  <2>1. Len(data) = g /\ \A i \in 1..g : data[i] = text[i]
    BY <1>10, <1>11
  <2>. HIDE DEF data
  <2>2. Arrived(data, text, g)
    BY <2>1 DEF Arrived
  <2>3. Shows(data, ws, m, g, End)
    BY <1>2, <1>6, <1>8, <1>10, <2>2, ArrivedShows
  <2>4. /\ g < End => Parsed(written, data).kind = "Incomplete"
        /\ End <= g => Means(Parsed(written, data), written.means, End)
    BY <1>1, <2>3 DEF ReadRight, ws, m
  <2>5. Parse(data) = Parsed(written, data)
    BY DEF Parse, Parsed
  <2>. QED
    BY <2>4, <2>5 DEF data
<1>. QED
  BY <1>9, <1>11, <1>12
-----------------------------------------------------------------------------
\* What has been parsed is what has arrived.
Received ==
  /\ Sent /\ got \in 0..Len(text)
  /\ parsed = IF got = 0 THEN [kind |-> "Incomplete"] ELSE Parse(SubSeq(text, 1, got))

\* At every point what was parsed is the whole of what has arrived, and what is on
\* its way is a reply with perhaps something behind it: readReply parses its whole
\* buffer after every chunk.
THEOREM ReceivedHolds == Spec => []Received
<1>1. Init => Received
  <2>. SUFFICES ASSUME Init PROVE Received
    OBVIOUS
  <2>1. Sent /\ got = 0 /\ parsed = [kind |-> "Incomplete"]
    BY DEF Init, Sent
  <2>2. Len(text) \in Nat
    BY <2>1, ReadsAtEveryCut
  <2>. QED
    BY <2>1, <2>2 DEF Received
<1>2. Received /\ [RecvChunk]_vars => Received'
  <2>. SUFFICES ASSUME Received, [RecvChunk]_vars PROVE Received'
    OBVIOUS
  <2>1. CASE UNCHANGED vars
    BY <2>1 DEF vars, Received, Sent, Parse
  <2>2. CASE RecvChunk
    <3>1. PICK n \in (got + 1)..Len(text) : got' = n /\ parsed' = Parse(SubSeq(text, 1, n))
      BY <2>2 DEF RecvChunk
    <3>2. written' = written /\ text' = text
      BY <2>2 DEF RecvChunk
    <3>3. Sent' /\ Len(text) \in Nat /\ got \in Nat
      <4>1. Sent
        BY DEF Received
      <4>2. Len(text) \in Nat
        BY <4>1, ReadsAtEveryCut
      <4>. QED
        BY <3>2, <4>1, <4>2 DEF Received, Sent
    <3>4. n \in 0..Len(text) /\ n # 0
      BY <3>1, <3>3
    <3>5. Parse(SubSeq(text, 1, n))' = Parse(SubSeq(text, 1, n))
      BY <3>2 DEF Parse
    <3>. QED
      BY <3>1, <3>2, <3>3, <3>4, <3>5 DEF Received, Parse
  <2>. QED
    BY <2>1, <2>2
<1>. QED
  BY <1>1, <1>2, PTL DEF Spec

\* readReply of both clients stops receiving exactly when the last line end of the
\* reply has arrived, for replies of any number of lines of any length and chunks
\* cut anywhere: nothing in a line and nothing behind the reply makes it stop early
\* or wait for more.
THEOREM StopsAtTheEndHolds == Spec => []StopsAtTheEnd
<1>1. Received => StopsAtTheEnd
  <2>. SUFFICES ASSUME Received PROVE StopsAtTheEnd
    OBVIOUS
  <2>1. /\ Len(text) \in Nat /\ End \in Nat \ {0}
        /\ \A g \in 0..Len(text) :
             /\ g < End => Parse(SubSeq(text, 1, g)).kind = "Incomplete"
             /\ End <= g => Means(Parse(SubSeq(text, 1, g)), written.means, End)
    BY ReadsAtEveryCut DEF Received
  <2>2. got \in 0..Len(text) /\ got \in Nat
    BY <2>1 DEF Received
  <2>3. CASE got = 0
    BY <2>1, <2>3 DEF Received, StopsAtTheEnd
  <2>4. CASE got # 0
    <3>1. parsed = Parse(SubSeq(text, 1, got))
      BY <2>4 DEF Received
    <3>2. got < End \/ End <= got
      BY <2>1, <2>2
    <3>3. ~(got < End /\ End <= got)
      BY <2>1, <2>2
    <3>. QED
      BY <2>1, <2>2, <3>1, <3>2, <3>3 DEF StopsAtTheEnd, Means
  <2>. QED
    BY <2>3, <2>4
<1>. QED
  BY <1>1, ReceivedHolds, PTL

\* What it returns is what the server wrote: the code or status, the lines with the
\* stuffed dots gone, or the fault of the line that is malformed; and it takes from
\* the buffer exactly the reply.
THEOREM ReadsWhatWasWrittenHolds == Spec => []ReadsWhatWasWritten
<1>1. Received => ReadsWhatWasWritten
  <2>. SUFFICES ASSUME Received, got >= End PROVE ReadsWhatWasWritten
    BY DEF ReadsWhatWasWritten
  <2>1. /\ Len(text) \in Nat /\ End \in Nat \ {0}
        /\ \A g \in 0..Len(text) :
             /\ g < End => Parse(SubSeq(text, 1, g)).kind = "Incomplete"
             /\ End <= g => Means(Parse(SubSeq(text, 1, g)), written.means, End)
    BY ReadsAtEveryCut DEF Received
  <2>2. got \in 0..Len(text) /\ End <= got /\ got # 0
    BY <2>1 DEF Received
  <2>3. parsed = Parse(SubSeq(text, 1, got))
    BY <2>2 DEF Received
  <2>4. Means(parsed, written.means, End)
    BY <2>1, <2>2, <2>3
  <2>. QED
    BY <2>4 DEF ReadsWhatWasWritten, Means
<1>. QED
  BY <1>1, ReceivedHolds, PTL
=============================================================================
