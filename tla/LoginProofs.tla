----------------------------- MODULE LoginProofs -----------------------------
(***************************************************************************)
(* Proofs about Login, for any logins and any texts: what the parser takes *)
(* for an endpoint can be dialled, and a URL as users write them brings    *)
(* its name, password, host, port and TLS parameters to where they go.     *)
(***************************************************************************)
EXTENDS Login, SequenceTheorems, WellFoundedInduction, TLAPS

\* Every set of numbers that is not empty has a least one.
LEMMA Least ==
  ASSUME NEW T, T \subseteq Nat, T # {}
  PROVE  \E x \in T : \A y \in T : x <= y
<1>. DEFINE R == OpToRel(<, Nat)
<1>1. IsWellFoundedOn(R, Nat)
  BY NatLessThanWellFounded
<1>2. \A x, y \in Nat : <<y, x>> \in R <=> y < x
  BY DEF OpToRel
<1>. HIDE DEF R
<1>3. PICK x \in T : \A y \in T : ~(<<y, x>> \in R)
  BY <1>1, WFMin
<1>4. ASSUME NEW y \in T PROVE x <= y
  <2>1. x \in Nat /\ y \in Nat /\ ~(y < x)
    BY <1>2, <1>3
  <2>. QED
    BY <2>1
<1>. QED
  BY <1>4

\* A set with 0 in it, and with each number the next, holds them all.
LEMMA Induction ==
  ASSUME NEW S, S \subseteq Nat, 0 \in S, \A n \in S : n + 1 \in S
  PROVE  S = Nat
<1>. SUFFICES ASSUME Nat \ S # {} PROVE FALSE
  OBVIOUS
<1>1. PICK x \in Nat \ S : \A y \in Nat \ S : x <= y
  BY Least
<1>2. x - 1 \in S
  BY <1>1
<1>. QED
  BY <1>1, <1>2

\* The least and the greatest of some numbers, as CHOOSE gives them.
LEMMA MinIs ==
  ASSUME NEW S, S \subseteq Nat, NEW m \in S, \A x \in S : m <= x
  PROVE  Min(S) = m
<1>1. \A x \in S : (\A y \in S : x <= y) => x = m
  OBVIOUS
<1>. QED
  BY <1>1 DEF Min

LEMMA MaxIs ==
  ASSUME NEW S, S \subseteq Nat, NEW m \in S, \A x \in S : m >= x
  PROVE  Max(S) = m
<1>1. \A x \in S : (\A y \in S : x >= y) => x = m
  OBVIOUS
<1>. QED
  BY <1>1 DEF Max

\* The numbers up to a bound have a greatest one.
LEMMA Greatest ==
  ASSUME NEW T, NEW b \in Nat, T \subseteq 0..b, T # {}
  PROVE  \E x \in T : \A y \in T : x >= y
<1>. DEFINE D == {d \in 0..b : b - d \in T}
<1>1. D \subseteq Nat /\ D # {}
  <2>1. PICK y \in T : TRUE
    OBVIOUS
  <2>2. b - y \in 0..b /\ b - (b - y) = y
    BY <2>1
  <2>3. b - y \in D
    BY <2>1, <2>2
  <2>4. D \subseteq Nat
    OBVIOUS
  <2>. HIDE DEF D
  <2>. QED
    BY <2>3, <2>4
<1>2. PICK d \in D : \A e \in D : d <= e
  <2>. HIDE DEF D
  <2>. QED
    BY <1>1, Least
<1>3. ASSUME NEW y \in T PROVE b - d >= y
  <2>1. b - y \in 0..b /\ b - (b - y) = y /\ d \in 0..b
    OBVIOUS
  <2>2. d <= b - y
    BY <1>2, <2>1
  <2>. QED
    BY <2>1, <2>2
<1>. QED
  BY <1>2, <1>3
-----------------------------------------------------------------------------
(* Texts, and the places of a character in one.                            *)

Text(t) == t \in Seq(Nat)
NoneIn(t, c) == \A i \in 1..Len(t) : t[i] # c

\* s is p, the character c, and q.
Split(s, p, c, q) == Text(p) /\ c \in Nat /\ Text(q) /\ s = p \o <<c>> \o q

\* s is p and then q.
Joined(s, p, q) == Text(p) /\ Text(q) /\ s = p \o q

LEMMA TextIs ==
  ASSUME NEW t, Text(t)
  PROVE  Len(t) \in Nat /\ DOMAIN t = 1..Len(t) /\ \A i \in 1..Len(t) : t[i] \in Nat
BY DEF Text

LEMMA SameText ==
  ASSUME NEW p, NEW q, Text(p), Text(q), Len(p) = Len(q), \A i \in 1..Len(p) : p[i] = q[i]
  PROVE  p = q
BY DEF Text

LEMMA OneIsText ==
  ASSUME NEW c \in Nat PROVE Text(<<c>>) /\ Len(<<c>>) = 1 /\ <<c>>[1] = c
BY DEF Text

LEMMA JoinedIs ==
  ASSUME NEW s, NEW p, NEW q, Joined(s, p, q)
  PROVE  /\ Text(s) /\ Len(p) \in Nat /\ Len(q) \in Nat /\ Len(s) = Len(p) + Len(q)
         /\ \A i \in 1..Len(p) : i \in 1..Len(s) /\ s[i] = p[i]
         /\ \A i \in 1..Len(q) : Len(p) + i \in 1..Len(s) /\ s[Len(p) + i] = q[i]
<1>1. p \in Seq(Nat) /\ q \in Seq(Nat) /\ Len(p) \in Nat /\ Len(q) \in Nat
  BY DEF Joined, Text
<1>2. /\ p \o q \in Seq(Nat) /\ Len(p \o q) = Len(p) + Len(q)
      /\ \A i \in 1..(Len(p) + Len(q)) : (p \o q)[i] = IF i <= Len(p) THEN p[i] ELSE q[i - Len(p)]
  BY <1>1, ConcatProperties
<1>3. ASSUME NEW i \in 1..Len(p) PROVE i \in 1..(Len(p) + Len(q)) /\ (p \o q)[i] = p[i]
  BY <1>1, <1>2
<1>4. ASSUME NEW i \in 1..Len(q)
      PROVE Len(p) + i \in 1..(Len(p) + Len(q)) /\ (p \o q)[Len(p) + i] = q[i]
  <2>1. Len(p) + i \in 1..(Len(p) + Len(q)) /\ ~(Len(p) + i <= Len(p)) /\ (Len(p) + i) - Len(p) = i
    BY <1>1
  <2>. QED
    BY <1>2, <2>1
<1>5. s = p \o q
  BY DEF Joined
<1>. QED
  BY <1>1, <1>2, <1>3, <1>4, <1>5 DEF Text

LEMMA SplitIs ==
  ASSUME NEW s, NEW p, NEW c, NEW q, Split(s, p, c, q)
  PROVE  /\ Text(s) /\ Len(p) \in Nat /\ Len(q) \in Nat /\ Len(s) = Len(p) + 1 + Len(q)
         /\ \A i \in 1..Len(p) : i \in 1..Len(s) /\ s[i] = p[i]
         /\ Len(p) + 1 \in 1..Len(s) /\ s[Len(p) + 1] = c
         /\ \A i \in 1..Len(q) : Len(p) + 1 + i \in 1..Len(s) /\ s[Len(p) + 1 + i] = q[i]
<1>. DEFINE one == <<c>>
            front == p \o one
<1>1. Text(one) /\ Len(one) = 1 /\ one[1] = c /\ 1 \in 1..1
  BY OneIsText DEF Split
<1>. HIDE DEF one
<1>2. Joined(front, p, one)
  BY <1>1 DEF Split, Joined
<1>. HIDE DEF front
<1>3. /\ Text(front) /\ Len(front) = Len(p) + 1 /\ Len(p) \in Nat
      /\ \A i \in 1..Len(p) : i \in 1..Len(front) /\ front[i] = p[i]
      /\ Len(p) + 1 \in 1..Len(front) /\ front[Len(p) + 1] = c
  <2>1. /\ Text(front) /\ Len(p) \in Nat /\ Len(front) = Len(p) + Len(one)
        /\ \A i \in 1..Len(p) : i \in 1..Len(front) /\ front[i] = p[i]
        /\ \A i \in 1..Len(one) : Len(p) + i \in 1..Len(front) /\ front[Len(p) + i] = one[i]
    BY <1>2, JoinedIs
  <2>. QED
    BY <1>1, <2>1
<1>4. Joined(s, front, q)
  BY <1>3 DEF Split, Joined, one, front
<1>5. /\ Text(s) /\ Len(q) \in Nat /\ Len(s) = Len(front) + Len(q)
      /\ \A i \in 1..Len(front) : i \in 1..Len(s) /\ s[i] = front[i]
      /\ \A i \in 1..Len(q) : Len(front) + i \in 1..Len(s) /\ s[Len(front) + i] = q[i]
  BY <1>4, JoinedIs
<1>. QED
  BY <1>3, <1>5

LEMMA FirstIs ==
  ASSUME NEW t, NEW c, Text(t), NEW i \in 1..Len(t), t[i] = c, \A j \in 1..Len(t) : j < i => t[j] # c
  PROVE  First(t, c) = i
<1>. DEFINE I == {j \in 1..Len(t) : t[j] = c}
<1>1. Len(t) \in Nat
  BY TextIs
<1>2. i \in I /\ I \subseteq Nat /\ \A j \in I : i <= j
  BY <1>1
<1>3. First(t, c) = IF I # {} THEN Min(I) ELSE 0
  BY DEF First, SelectInSeq
<1>. HIDE DEF I
<1>. QED
  BY <1>2, <1>3, MinIs

LEMMA FirstNone ==
  ASSUME NEW t, NEW c, NoneIn(t, c) PROVE First(t, c) = 0
<1>1. First(t, c) = IF {j \in 1..Len(t) : t[j] = c} # {} THEN Min({j \in 1..Len(t) : t[j] = c}) ELSE 0
  BY DEF First, SelectInSeq
<1>. QED
  BY <1>1 DEF NoneIn

\* First finds one, or there is none.
LEMMA FirstFinds ==
  ASSUME NEW t, NEW c, Text(t)
  PROVE  \/ First(t, c) = 0 /\ NoneIn(t, c)
         \/ /\ First(t, c) \in 1..Len(t) /\ t[First(t, c)] = c
            /\ \A j \in 1..Len(t) : j < First(t, c) => t[j] # c
<1>. DEFINE I == {j \in 1..Len(t) : t[j] = c}
<1>1. CASE I = {}
  BY <1>1, FirstNone DEF NoneIn
<1>2. CASE I # {}
  <2>1. I \subseteq Nat
    BY TextIs
  <2>2. PICK i \in I : \A j \in I : i <= j
    <3>. HIDE DEF I
    <3>. QED
      BY <1>2, <2>1, Least
  <2>3. i \in 1..Len(t) /\ t[i] = c /\ Len(t) \in Nat
    BY TextIs
  <2>4. \A j \in 1..Len(t) : j < i => t[j] # c
    BY <2>2, <2>3
  <2>5. First(t, c) = i
    BY <2>3, <2>4, FirstIs
  <2>. QED
    BY <2>3, <2>4, <2>5
<1>. QED
  BY <1>1, <1>2

LEMMA LastIs ==
  ASSUME NEW t, NEW c, Text(t), NEW i \in 1..Len(t), t[i] = c, \A j \in 1..Len(t) : j > i => t[j] # c
  PROVE  LastPlace(t, c) = i
<1>. DEFINE I == {j \in 1..Len(t) : t[j] = c}
<1>1. Len(t) \in Nat
  BY TextIs
<1>2. i \in I /\ I \subseteq Nat /\ \A j \in I : i >= j
  BY <1>1
<1>3. LastPlace(t, c) = IF I # {} THEN Max(I) ELSE 0
  BY DEF LastPlace, SelectLastInSeq
<1>. HIDE DEF I
<1>. QED
  BY <1>2, <1>3, MaxIs

LEMMA LastNone ==
  ASSUME NEW t, NEW c, NoneIn(t, c) PROVE LastPlace(t, c) = 0
<1>1. LastPlace(t, c)
        = IF {j \in 1..Len(t) : t[j] = c} # {} THEN Max({j \in 1..Len(t) : t[j] = c}) ELSE 0
  BY DEF LastPlace, SelectLastInSeq
<1>. QED
  BY <1>1 DEF NoneIn

LEMMA LastFinds ==
  ASSUME NEW t, NEW c, Text(t)
  PROVE  \/ LastPlace(t, c) = 0 /\ NoneIn(t, c)
         \/ /\ LastPlace(t, c) \in 1..Len(t) /\ t[LastPlace(t, c)] = c
            /\ \A j \in 1..Len(t) : j > LastPlace(t, c) => t[j] # c
<1>. DEFINE I == {j \in 1..Len(t) : t[j] = c}
<1>1. CASE I = {}
  BY <1>1, LastNone DEF NoneIn
<1>2. CASE I # {}
  <2>1. I \subseteq 0..Len(t) /\ Len(t) \in Nat
    BY TextIs
  <2>2. PICK i \in I : \A j \in I : i >= j
    <3>. HIDE DEF I
    <3>. QED
      BY <1>2, <2>1, Greatest
  <2>3. i \in 1..Len(t) /\ t[i] = c /\ Len(t) \in Nat
    BY TextIs
  <2>4. \A j \in 1..Len(t) : j > i => t[j] # c
    BY <2>2, <2>3
  <2>5. LastPlace(t, c) = i
    BY <2>3, <2>4, LastIs
  <2>. QED
    BY <2>3, <2>4, <2>5
<1>. QED
  BY <1>1, <1>2

LEMMA PartIs ==
  ASSUME NEW t, Text(t), NEW m \in Nat, NEW n \in Nat, m >= 1, n <= Len(t), m <= n + 1
  PROVE  /\ Text(SubSeq(t, m, n)) /\ Len(SubSeq(t, m, n)) = n - m + 1
         /\ \A i \in 1..(n - m + 1) : SubSeq(t, m, n)[i] = t[m + i - 1]
<1>1. Len(t) \in Nat /\ \A i \in 1..Len(t) : t[i] \in Nat
  BY TextIs
<1>. QED
  BY <1>1 DEF Text

LEMMA UptoIs ==
  ASSUME NEW t, Text(t), NEW i \in 1..(Len(t) + 1)
  PROVE  Text(Upto(t, i)) /\ Len(Upto(t, i)) = i - 1 /\ \A j \in 1..(i - 1) : Upto(t, i)[j] = t[j]
<1>1. Len(t) \in Nat
  BY TextIs
<1>2. i - 1 \in Nat /\ 1 \in Nat /\ 1 >= 1 /\ i - 1 <= Len(t) /\ 1 <= (i - 1) + 1 /\ (i - 1) - 1 + 1 = i - 1
  BY <1>1
<1>3. /\ Text(SubSeq(t, 1, i - 1)) /\ Len(SubSeq(t, 1, i - 1)) = i - 1
      /\ \A j \in 1..(i - 1) : SubSeq(t, 1, i - 1)[j] = t[1 + j - 1]
  BY <1>1, <1>2, PartIs
<1>4. \A j \in 1..(i - 1) : 1 + j - 1 = j
  BY <1>2
<1>. QED
  BY <1>3, <1>4 DEF Upto

LEMMA BehindIs ==
  ASSUME NEW t, Text(t), NEW i \in 0..Len(t)
  PROVE  /\ Text(Behind(t, i)) /\ Len(Behind(t, i)) = Len(t) - i
         /\ \A j \in 1..(Len(t) - i) : Behind(t, i)[j] = t[i + j]
<1>1. Len(t) \in Nat
  BY TextIs
<1>. DEFINE m == i + 1
            n == Len(t)
            r == SubSeq(t, m, n)
<1>2. /\ m \in Nat /\ n \in Nat /\ m >= 1 /\ n <= Len(t) /\ m <= n + 1 /\ n - m + 1 = Len(t) - i
      /\ \A j \in 1..(Len(t) - i) : m + j - 1 = i + j
  BY <1>1
<1>. HIDE DEF m, n
<1>3. Text(r) /\ Len(r) = n - m + 1 /\ \A j \in 1..(n - m + 1) : r[j] = t[m + j - 1]
  BY <1>2, PartIs
<1>4. r = Behind(t, i)
  BY DEF Behind, m, n
<1>. HIDE DEF r
<1>. QED
  BY <1>2, <1>3, <1>4

\* A text taken apart where it was put together.
LEMMA PartsOfSplit ==
  ASSUME NEW s, NEW p, NEW c, NEW q, Split(s, p, c, q)
  PROVE  Upto(s, Len(p) + 1) = p /\ Behind(s, Len(p) + 1) = q
<1>1. /\ Text(s) /\ Len(p) \in Nat /\ Len(q) \in Nat /\ Len(s) = Len(p) + 1 + Len(q)
      /\ \A i \in 1..Len(p) : i \in 1..Len(s) /\ s[i] = p[i]
      /\ \A i \in 1..Len(q) : s[Len(p) + 1 + i] = q[i]
  BY SplitIs
<1>2. Text(p) /\ Text(q)
  BY DEF Split
<1>. DEFINE m == Len(p) + 1
            u == Upto(s, m)
            b == Behind(s, m)
<1>3. m \in 1..(Len(s) + 1) /\ m \in 0..Len(s) /\ m - 1 = Len(p) /\ Len(s) - m = Len(q)
  BY <1>1
<1>. HIDE DEF m
<1>4. Text(u) /\ Len(u) = Len(p) /\ \A j \in 1..Len(p) : u[j] = s[j]
  BY <1>1, <1>3, UptoIs
<1>5. Text(b) /\ Len(b) = Len(q) /\ \A j \in 1..Len(q) : b[j] = s[m + j]
  <2>1. Text(b) /\ Len(b) = Len(s) - m /\ \A j \in 1..(Len(s) - m) : b[j] = s[m + j]
    BY <1>1, <1>3, BehindIs
  <2>. HIDE DEF b
  <2>. QED
    BY <1>3, <2>1
<1>. HIDE DEF u, b
<1>6. u = p
  BY <1>1, <1>2, <1>4, SameText
<1>7. \A j \in 1..Len(q) : b[j] = q[j]
  BY <1>1, <1>5 DEF m
<1>8. b = q
  BY <1>2, <1>5, <1>7, SameText
<1>. QED
  BY <1>6, <1>8 DEF u, b, m

LEMMA CutAt ==
  ASSUME NEW s, NEW p, NEW c, NEW q, Split(s, p, c, q), NoneIn(p, c)
  PROVE  Cut(s, c) = [before |-> p, behind |-> q, found |-> TRUE]
<1>1. /\ Text(s) /\ Len(p) \in Nat /\ Len(p) + 1 \in 1..Len(s) /\ s[Len(p) + 1] = c
      /\ \A i \in 1..Len(p) : s[i] = p[i]
  BY SplitIs
<1>2. \A j \in 1..Len(s) : j < Len(p) + 1 => s[j] # c
  BY <1>1 DEF NoneIn
<1>3. First(s, c) = Len(p) + 1 /\ Len(p) + 1 # 0
  BY <1>1, <1>2, FirstIs
<1>. QED
  BY <1>3, PartsOfSplit DEF Cut

LEMMA CutNone ==
  ASSUME NEW s, NEW c, NoneIn(s, c)
  PROVE  Cut(s, c) = [before |-> s, behind |-> <<>>, found |-> FALSE]
BY FirstNone DEF Cut

\* What Cut returns is text, and before it the character does not occur.
LEMMA CutIs ==
  ASSUME NEW s, NEW c, Text(s)
  PROVE  Text(Cut(s, c).before) /\ NoneIn(Cut(s, c).before, c) /\ Text(Cut(s, c).behind)
<1>1. Len(s) \in Nat
  BY TextIs
<1>2. CASE NoneIn(s, c)
  <2>1. Text(<<>>)
    BY DEF Text
  <2>. QED
    BY <1>2, <2>1, CutNone
<1>3. CASE ~NoneIn(s, c)
  <2>. DEFINE i == First(s, c)
  <2>1. i \in 1..Len(s) /\ \A j \in 1..Len(s) : j < i => s[j] # c
    BY <1>3, FirstFinds
  <2>. HIDE DEF i
  <2>2. i \in 1..(Len(s) + 1) /\ i \in 0..Len(s) /\ i # 0
    BY <1>1, <2>1
  <2>3. Cut(s, c).before = Upto(s, i) /\ Cut(s, c).behind = Behind(s, i)
    BY <2>2 DEF Cut, i
  <2>4. Text(Upto(s, i)) /\ Len(Upto(s, i)) = i - 1 /\ \A j \in 1..(i - 1) : Upto(s, i)[j] = s[j]
    BY <2>2, UptoIs
  <2>5. NoneIn(Upto(s, i), c)
    BY <1>1, <2>1, <2>4 DEF NoneIn
  <2>. QED
    BY <2>2, <2>3, <2>4, <2>5, BehindIs
<1>. QED
  BY <1>2, <1>3

LEMMA LastAt ==
  ASSUME NEW s, NEW p, NEW c, NEW q, Split(s, p, c, q), NoneIn(q, c)
  PROVE  LastPlace(s, c) = Len(p) + 1
<1>1. /\ Text(s) /\ Len(p) \in Nat /\ Len(p) + 1 \in 1..Len(s) /\ s[Len(p) + 1] = c
      /\ Len(q) \in Nat /\ Len(s) = Len(p) + 1 + Len(q)
      /\ \A i \in 1..Len(q) : s[Len(p) + 1 + i] = q[i]
  BY SplitIs
<1>2. ASSUME NEW j \in 1..Len(s), j > Len(p) + 1 PROVE s[j] # c
  <2>. DEFINE i == j - (Len(p) + 1)
  <2>1. i \in 1..Len(q) /\ Len(p) + 1 + i = j
    BY <1>1, <1>2
  <2>. QED
    BY <1>1, <2>1 DEF NoneIn
<1>. QED
  BY <1>1, <1>2, LastIs

\* A character that is in no part is not in the whole.
LEMMA NoneInSplit ==
  ASSUME NEW s, NEW p, NEW c, NEW q, Split(s, p, c, q), NEW d, NoneIn(p, d), d # c, NoneIn(q, d)
  PROVE  NoneIn(s, d)
<1>1. /\ Len(p) \in Nat /\ Len(q) \in Nat /\ Len(s) = Len(p) + 1 + Len(q)
      /\ \A i \in 1..Len(p) : s[i] = p[i]
      /\ s[Len(p) + 1] = c
      /\ \A i \in 1..Len(q) : s[Len(p) + 1 + i] = q[i]
  BY SplitIs
<1>2. ASSUME NEW j \in 1..Len(s) PROVE s[j] # d
  <2>1. CASE j <= Len(p)
    BY <1>1, <2>1 DEF NoneIn
  <2>2. CASE j = Len(p) + 1
    BY <1>1, <2>2
  <2>3. CASE j > Len(p) + 1
    <3>. DEFINE i == j - (Len(p) + 1)
    <3>1. i \in 1..Len(q) /\ Len(p) + 1 + i = j
      BY <1>1, <2>3
    <3>. QED
      BY <1>1, <3>1 DEF NoneIn
  <2>. QED
    BY <1>1, <2>1, <2>2, <2>3
<1>. QED
  BY <1>2 DEF NoneIn

LEMMA NoneInJoined ==
  ASSUME NEW s, NEW p, NEW q, Joined(s, p, q), NEW d, NoneIn(p, d), NoneIn(q, d)
  PROVE  NoneIn(s, d)
<1>1. /\ Len(p) \in Nat /\ Len(q) \in Nat /\ Len(s) = Len(p) + Len(q)
      /\ \A i \in 1..Len(p) : s[i] = p[i]
      /\ \A i \in 1..Len(q) : s[Len(p) + i] = q[i]
  BY JoinedIs
<1>2. ASSUME NEW j \in 1..Len(s) PROVE s[j] # d
  <2>1. CASE j <= Len(p)
    BY <1>1, <2>1 DEF NoneIn
  <2>2. CASE j > Len(p)
    <3>. DEFINE i == j - Len(p)
    <3>1. i \in 1..Len(q) /\ Len(p) + i = j
      BY <1>1, <2>2
    <3>. QED
      BY <1>1, <3>1 DEF NoneIn
  <2>. QED
    BY <1>1, <2>1, <2>2
<1>. QED
  BY <1>2 DEF NoneIn
-----------------------------------------------------------------------------
(* Pieces of text, one after the other.                                    *)

Pieces(ws) == Len(ws) \in Nat /\ DOMAIN ws = 1..Len(ws) /\ \A k \in 1..Len(ws) : Text(ws[k])

\* The k-th piece is behind a[k - 1] and ends at a[k].
Offsets(a, ws) ==
  /\ a[0] = 0 /\ \A k \in 0..Len(ws) : a[k] \in Nat
  /\ \A k \in 1..Len(ws) : a[k] = a[k - 1] + Len(ws[k])

Laid(t, ws, a) ==
  /\ Pieces(ws) /\ Offsets(a, ws) /\ Text(t) /\ Len(t) = a[Len(ws)]
  /\ \A k \in 1..Len(ws) : \A j \in 1..Len(ws[k]) : t[a[k - 1] + j] = ws[k][j]

LEMMA HasOffsets ==
  ASSUME NEW ws, Pieces(ws) PROVE \E a : Offsets(a, ws)
<1>. DEFINE n == Len(ws)
            First_(a, m) == /\ a[0] = 0 /\ \A k \in 0..m : a[k] \in Nat
                           /\ \A k \in 1..m : a[k] = a[k - 1] + Len(ws[k])
            G == {m \in Nat : m <= n => \E a : First_(a, m)}
<1>1. n \in Nat /\ \A k \in 1..n : Len(ws[k]) \in Nat
  BY TextIs DEF Pieces
<1>2. 0 \in G
  <2>1. First_([k \in {0} |-> 0], 0)
    OBVIOUS
  <2>. QED
    BY <2>1
<1>3. ASSUME NEW m \in G PROVE m + 1 \in G
  <2>. SUFFICES ASSUME m + 1 <= n PROVE \E a : First_(a, m + 1)
    OBVIOUS
  <2>1. m \in Nat /\ m <= n /\ Len(ws[m + 1]) \in Nat
    BY <1>1
  <2>2. PICK a : First_(a, m)
    BY <2>1
  <2>. DEFINE b == [k \in 0..(m + 1) |-> IF k = m + 1 THEN a[m] + Len(ws[m + 1]) ELSE a[k]]
  <2>3. b[m + 1] = a[m] + Len(ws[m + 1]) /\ \A k \in 0..m : b[k] = a[k]
    BY <2>1
  <2>. HIDE DEF b
  <2>4. b[0] = 0 /\ \A k \in 0..(m + 1) : b[k] \in Nat
    <3>1. m \in 0..m /\ 0 \in 0..m /\ a[0] = 0 /\ \A k \in 0..m : a[k] \in Nat
      BY <2>1, <2>2
    <3>2. a[m] + Len(ws[m + 1]) \in Nat
      BY <2>1, <3>1
    <3>3. ASSUME NEW k \in 0..(m + 1) PROVE b[k] \in Nat
      <4>1. k = m + 1 \/ k \in 0..m
        BY <2>1
      <4>. QED
        BY <2>3, <3>1, <3>2, <4>1
    <3>. QED
      BY <2>3, <3>1, <3>3
  <2>5. ASSUME NEW k \in 1..(m + 1) PROVE b[k] = b[k - 1] + Len(ws[k])
    <3>1. CASE k = m + 1
      <4>1. k - 1 = m /\ m \in 0..m
        BY <2>1, <3>1
      <4>. QED
        BY <2>3, <3>1, <4>1
    <3>2. CASE k # m + 1
      <4>1. k \in 1..m /\ k \in 0..m /\ k - 1 \in 0..m
        BY <2>1, <3>2
      <4>. QED
        BY <2>2, <2>3, <4>1
    <3>. QED
      BY <3>1, <3>2
  <2>. QED
    BY <2>4, <2>5
<1>4. G = Nat
  <2>1. G \subseteq Nat
    OBVIOUS
  <2>. HIDE DEF G
  <2>. QED
    BY <1>2, <1>3, <2>1, Induction
<1>5. n \in G
  <2>. HIDE DEF G
  <2>. QED
    BY <1>1, <1>4
<1>6. n <= n
  BY <1>1
<1>7. \E a : First_(a, n)
  <2>. HIDE DEF First_, n
  <2>. QED
    BY <1>5, <1>6
<1>. QED
  BY <1>7 DEF Offsets

LEMMA OffsetsRise ==
  ASSUME NEW ws, Pieces(ws), NEW a, Offsets(a, ws), NEW k \in 0..Len(ws), NEW m \in k..Len(ws)
  PROVE  a[k] \in Nat /\ a[m] \in Nat /\ a[k] <= a[m]
<1>. DEFINE n == Len(ws)
            G == {d \in Nat : k + d <= n => a[k] <= a[k + d]}
<1>1. /\ n \in Nat /\ \A i \in 0..n : a[i] \in Nat
      /\ \A i \in 1..n : Len(ws[i]) \in Nat /\ a[i] = a[i - 1] + Len(ws[i])
  BY TextIs DEF Pieces, Offsets
<1>2. 0 \in G
  BY <1>1
<1>3. ASSUME NEW d \in G PROVE d + 1 \in G
  <2>. SUFFICES ASSUME k + (d + 1) <= n PROVE a[k] <= a[k + (d + 1)]
    OBVIOUS
  <2>1. k + d <= n /\ k + d \in 0..n /\ k + (d + 1) \in 1..n /\ (k + (d + 1)) - 1 = k + d
    BY <1>1
  <2>2. a[k + (d + 1)] = a[k + d] + Len(ws[k + (d + 1)])
    BY <1>1, <2>1
  <2>3. a[k] \in Nat /\ a[k + d] \in Nat /\ Len(ws[k + (d + 1)]) \in Nat /\ a[k] <= a[k + d]
    BY <1>1, <2>1
  <2>. QED
    BY <2>2, <2>3
<1>4. G = Nat
  <2>1. G \subseteq Nat
    OBVIOUS
  <2>. HIDE DEF G
  <2>. QED
    BY <1>2, <1>3, <2>1, Induction
<1>5. m - k \in Nat /\ k + (m - k) = m /\ m <= n /\ m \in 0..n
  BY <1>1
<1>6. m - k \in G
  BY <1>4, <1>5
<1>. QED
  BY <1>1, <1>5, <1>6

\* Every place of the text is in one piece.
LEMMA InOnePiece ==
  ASSUME NEW ws, Pieces(ws), NEW a, Offsets(a, ws), NEW i \in 1..a[Len(ws)]
  PROVE  \E k \in 1..Len(ws) :
           /\ a[k - 1] \in Nat /\ a[k - 1] < i /\ i <= a[k] /\ i - a[k - 1] \in 1..Len(ws[k])
           /\ \A m \in 1..Len(ws) : a[m - 1] < i /\ i <= a[m] => m = k
<1>. DEFINE n == Len(ws)
            K == {k \in 0..n : i <= a[k]}
<1>1. /\ n \in Nat /\ (\A k \in 0..n : a[k] \in Nat) /\ a[0] = 0
      /\ \A k \in 1..n : Len(ws[k]) \in Nat /\ a[k] = a[k - 1] + Len(ws[k])
  BY TextIs DEF Pieces, Offsets
<1>2. K \subseteq Nat /\ K # {}
  <2>1. n \in K
    BY <1>1
  <2>. QED
    BY <2>1
<1>3. PICK k \in K : \A m \in K : k <= m
  <2>. HIDE DEF K
  <2>. QED
    BY <1>2, Least
<1>4. k \in 1..n /\ k - 1 \in 0..n /\ k - 1 \notin K /\ i <= a[k]
  BY <1>1, <1>3
<1>5. a[k - 1] \in Nat /\ a[k - 1] < i /\ i - a[k - 1] \in 1..Len(ws[k])
  BY <1>1, <1>4
<1>6. ASSUME NEW m \in 1..n, a[m - 1] < i, i <= a[m] PROVE m = k
  <2>1. CASE m < k
    <3>1. m \in K
      BY <1>1, <1>6
    <3>. QED
      BY <1>3, <1>4, <2>1, <3>1
  <2>2. CASE m > k
    <3>1. k \in 0..n /\ m - 1 \in k..n
      BY <1>1, <1>4, <2>2
    <3>2. a[k] \in Nat /\ a[m - 1] \in Nat /\ a[k] <= a[m - 1]
      BY <3>1, OffsetsRise
    <3>. QED
      BY <1>4, <1>6, <3>2
  <2>. QED
    BY <1>4, <2>1, <2>2
<1>. QED
  BY <1>4, <1>5, <1>6

LEMMA HasLaid ==
  ASSUME NEW ws, Pieces(ws), NEW a, Offsets(a, ws) PROVE \E t : Laid(t, ws, a)
<1>. DEFINE n == Len(ws)
            In(k, i) == k \in 1..n /\ a[k - 1] < i /\ i <= a[k]
            of(i) == CHOOSE k : In(k, i)
            t == [i \in 1..a[n] |-> ws[of(i)][i - a[of(i) - 1]]]
<1>1. /\ n \in Nat /\ (\A k \in 0..n : a[k] \in Nat) /\ a[n] \in Nat
      /\ \A k \in 1..n : Text(ws[k]) /\ Len(ws[k]) \in Nat /\ a[k] = a[k - 1] + Len(ws[k])
  BY TextIs DEF Pieces, Offsets
<1>2. ASSUME NEW i \in 1..a[n]
      PROVE  /\ of(i) \in 1..n /\ a[of(i) - 1] < i /\ i <= a[of(i)]
             /\ i - a[of(i) - 1] \in 1..Len(ws[of(i)])
             /\ \A m \in 1..n : In(m, i) => m = of(i)
  <2>1. PICK k \in 1..n : /\ a[k - 1] < i /\ i <= a[k] /\ i - a[k - 1] \in 1..Len(ws[k])
                          /\ \A m \in 1..n : a[m - 1] < i /\ i <= a[m] => m = k
    BY InOnePiece
  <2>2. In(k, i) /\ \A m : In(m, i) => m = k
    BY <2>1
  <2>3. of(i) = k
    <3>. HIDE DEF In
    <3>. QED
      BY <2>2
  <2>. HIDE DEF of
  <2>. QED
    BY <2>1, <2>2, <2>3
<1>. HIDE DEF of
<1>3. Text(t) /\ Len(t) = a[n] /\ \A i \in 1..a[n] : t[i] = ws[of(i)][i - a[of(i) - 1]]
  <2>1. ASSUME NEW i \in 1..a[n] PROVE ws[of(i)][i - a[of(i) - 1]] \in Nat
    <3>. DEFINE k == of(i)
                w == ws[k]
                j == i - a[k - 1]
    <3>1. k \in 1..n /\ j \in 1..Len(w)
      BY <1>2
    <3>2. Text(w)
      BY <1>1, <3>1
    <3>. HIDE DEF w, j
    <3>. QED
      BY <3>1, <3>2, TextIs DEF w, j
  <2>2. t \in Seq(Nat) /\ Len(t) = a[n]
    <3>. DEFINE v(i) == ws[of(i)][i - a[of(i) - 1]]
    <3>1. \A i \in 1..a[n] : v(i) \in Nat
      BY <2>1
    <3>2. t = [i \in 1..a[n] |-> v(i)]
      OBVIOUS
    <3>. HIDE DEF v
    <3>3. [i \in 1..a[n] |-> v(i)] \in Seq(Nat) /\ Len([i \in 1..a[n] |-> v(i)]) = a[n]
      BY <1>1, <3>1
    <3>. HIDE DEF t
    <3>. QED
      BY <3>2, <3>3
  <2>. QED
    BY <2>2 DEF Text
<1>. HIDE DEF t
<1>4. ASSUME NEW k \in 1..n, NEW j \in 1..Len(ws[k]) PROVE t[a[k - 1] + j] = ws[k][j]
  <2>. DEFINE i == a[k - 1] + j
  <2>1. k - 1 \in 0..n /\ k \in 0..n /\ n \in k..n
    BY <1>1
  <2>2. a[k - 1] \in Nat /\ a[k] \in Nat /\ a[k] <= a[n]
    BY <1>1, <2>1, OffsetsRise
  <2>3. i \in 1..a[n] /\ a[k - 1] < i /\ i <= a[k] /\ i - a[k - 1] = j
    BY <1>1, <2>2
  <2>. HIDE DEF i
  <2>4. of(i) = k
    BY <1>2, <2>3
  <2>. QED
    BY <1>3, <2>3, <2>4 DEF i
<1>. QED
  BY <1>1, <1>3, <1>4 DEF Laid

\* A recursive function over 1..n has one value.
LEMMA FlattenIs ==
  ASSUME NEW ws, NEW t, NEW a, Laid(t, ws, a) PROVE FlattenSeq(ws) = t
<1>. DEFINE n == Len(ws)
            Def(g) == [i \in 1..n |-> IF i = 1 THEN ws[i] ELSE g[i - 1] \o ws[i]]
            f == CHOOSE g : g = Def(g)
            h == [i \in 1..n |-> Upto(t, a[i] + 1)]
<1>1. /\ n \in Nat /\ (\A k \in 0..n : a[k] \in Nat) /\ a[0] = 0 /\ Text(t) /\ Len(t) = a[n]
      /\ \A k \in 1..n : Text(ws[k]) /\ Len(ws[k]) \in Nat /\ a[k] = a[k - 1] + Len(ws[k])
      /\ \A k \in 1..n : \A j \in 1..Len(ws[k]) : t[a[k - 1] + j] = ws[k][j]
  BY TextIs DEF Laid, Pieces, Offsets
<1>2. ASSUME NEW k \in 0..n
      PROVE  /\ Text(Upto(t, a[k] + 1)) /\ Len(Upto(t, a[k] + 1)) = a[k]
             /\ \A j \in 1..a[k] : Upto(t, a[k] + 1)[j] = t[j]
  <2>1. n \in k..n
    BY <1>1
  <2>2. a[k] \in Nat /\ a[n] \in Nat /\ a[k] <= a[n]
    BY <1>1, <2>1, OffsetsRise DEF Laid
  <2>3. a[k] + 1 \in 1..(Len(t) + 1) /\ (a[k] + 1) - 1 = a[k]
    BY <1>1, <2>2
  <2>. QED
    BY <1>1, <2>3, UptoIs
<1>3. ASSUME NEW k \in 1..n PROVE Upto(t, a[k] + 1) = Upto(t, a[k - 1] + 1) \o ws[k]
  <2>. DEFINE q == Upto(t, a[k] + 1)
              p == Upto(t, a[k - 1] + 1)
              w == ws[k]
              s == p \o w
  <2>1. k - 1 \in 0..n /\ k \in 0..n
    BY <1>1
  <2>2. Text(q) /\ Len(q) = a[k] /\ \A j \in 1..a[k] : q[j] = t[j]
    BY <1>2, <2>1
  <2>3. Text(p) /\ Len(p) = a[k - 1] /\ \A j \in 1..a[k - 1] : p[j] = t[j]
    BY <1>2, <2>1
  <2>4. Text(w) /\ Len(w) \in Nat /\ a[k] = Len(p) + Len(w) /\ \A j \in 1..Len(w) : t[Len(p) + j] = w[j]
    BY <1>1, <2>3
  <2>. HIDE DEF q, p, w
  <2>5. Joined(s, p, w)
    BY <2>3, <2>4 DEF Joined
  <2>. HIDE DEF s
  <2>6. /\ Text(s) /\ Len(p) \in Nat /\ Len(s) = Len(p) + Len(w)
        /\ \A i \in 1..Len(p) : s[i] = p[i]
        /\ \A i \in 1..Len(w) : s[Len(p) + i] = w[i]
    BY <2>5, JoinedIs
  <2>7. ASSUME NEW j \in 1..Len(q) PROVE q[j] = s[j]
    <3>1. q[j] = t[j]
      BY <2>2
    <3>2. CASE j <= Len(p)
      BY <2>3, <2>4, <2>6, <3>1, <3>2
    <3>3. CASE j > Len(p)
      <4>. DEFINE i == j - Len(p)
      <4>1. i \in 1..Len(w) /\ Len(p) + i = j
        BY <2>2, <2>4, <2>6, <3>3
      <4>. HIDE DEF i
      <4>. QED
        BY <2>4, <2>6, <3>1, <4>1
    <3>. QED
      BY <2>4, <2>6, <3>2, <3>3
  <2>8. q = s
    BY <2>2, <2>4, <2>6, <2>7, SameText
  <2>. QED
    BY <2>8 DEF q, s, p, w
<1>4. CASE n = 0
  <2>1. ws = <<>>
    BY <1>4 DEF Laid, Pieces
  <2>2. Text(<<>>) /\ Len(<<>>) = 0
    BY DEF Text
  <2>3. t = <<>>
    BY <1>1, <1>4, <2>2, SameText
  <2>. QED
    BY <2>1, <2>3 DEF FlattenSeq
<1>5. CASE n # 0
  <2>1. ASSUME NEW i \in 1..n PROVE h[i] = IF i = 1 THEN ws[i] ELSE h[i - 1] \o ws[i]
    <3>1. h[i] = Upto(t, a[i - 1] + 1) \o ws[i]
      BY <1>3
    <3>2. CASE i = 1
      <4>. DEFINE p == Upto(t, a[i - 1] + 1)
      <4>1. i - 1 \in 0..n /\ a[i - 1] = 0
        BY <1>1, <3>2
      <4>2. Text(p) /\ Len(p) = 0
        BY <1>2, <4>1
      <4>. HIDE DEF p
      <4>3. Text(<<>>) /\ Len(<<>>) = 0
        BY DEF Text
      <4>4. p = <<>>
        BY <4>2, <4>3, SameText
      <4>5. <<>> \o ws[i] = ws[i]
        BY <1>1 DEF Text
      <4>. QED
        BY <3>1, <3>2, <4>4, <4>5 DEF p
    <3>3. CASE i # 1
      <4>1. i - 1 \in 1..n
        BY <1>1, <3>3
      <4>. QED
        BY <3>1, <3>3, <4>1
    <3>. QED
      BY <3>2, <3>3
  <2>2. h = Def(h)
    <3>. DEFINE d == Def(h)
    <3>1. d = [i \in 1..n |-> d[i]] /\ h = [i \in 1..n |-> h[i]]
      OBVIOUS
    <3>2. \A i \in 1..n : h[i] = d[i]
      BY <2>1
    <3>. HIDE DEF d, h
    <3>3. h = d
      BY <3>1, <3>2
    <3>. QED
      BY <3>3 DEF d
  <2>3. f = Def(f)
    <3>. HIDE DEF h, Def
    <3>. QED
      BY <2>2
  <2>. HIDE DEF f
  <2>4. \A i \in 1..n : f[i] = IF i = 1 THEN ws[i] ELSE f[i - 1] \o ws[i]
    BY <2>3
  <2>5. \A i \in 1..n : h[i] = Upto(t, a[i] + 1)
    OBVIOUS
  <2>. HIDE DEF h
  <2>6. \A i \in 1..n : f[i] = h[i]
    <3>. DEFINE D == {i \in 1..n : f[i] # h[i]}
    <3>. SUFFICES ASSUME D # {} PROVE FALSE
      OBVIOUS
    <3>1. D \subseteq Nat
      OBVIOUS
    <3>2. PICK i \in D : \A j \in D : i <= j
      <4>. HIDE DEF D
      <4>. QED
        BY <3>1, Least
    <3>3. i = 1 \/ (i - 1 \in 1..n /\ i - 1 \notin D)
      BY <3>2
    <3>. QED
      BY <2>1, <2>4, <3>2, <3>3
  <2>7. FlattenSeq(ws) = f[n]
    BY <1>5 DEF FlattenSeq, f
  <2>8. n \in 1..n /\ n \in 0..n
    BY <1>1, <1>5
  <2>9. f[n] = Upto(t, a[n] + 1)
    BY <2>5, <2>6, <2>8
  <2>10. Text(Upto(t, a[n] + 1)) /\ Len(Upto(t, a[n] + 1)) = Len(t)
         /\ \A j \in 1..Len(t) : Upto(t, a[n] + 1)[j] = t[j]
    BY <1>1, <1>2, <2>8
  <2>11. Upto(t, a[n] + 1) = t
    BY <1>1, <2>10, SameText
  <2>. QED
    BY <2>7, <2>9, <2>11
<1>. QED
  BY <1>4, <1>5

\* The pieces lie in the text FlattenSeq makes of them.
LEMMA FlattenIsLaid ==
  ASSUME NEW ws, Pieces(ws) PROVE \E a : Laid(FlattenSeq(ws), ws, a)
<1>1. PICK a : Offsets(a, ws)
  BY HasOffsets
<1>2. PICK t : Laid(t, ws, a)
  BY <1>1, HasLaid
<1>. QED
  BY <1>2, FlattenIs
-----------------------------------------------------------------------------
(* What a user escapes, percentDecode gives back.                          *)

HexDigits == 48..57 \cup 65..70

LEMMA HexIs ==
  ASSUME NEW n \in 0..15
  PROVE  Hex(n) \in HexDigits /\ HexDigit(Hex(n)) /\ hexValue(Hex(n)) = n /\ Hex(n) # Percent
<1>1. CASE n < 10
  BY <1>1 DEF Hex, HexDigits, HexDigit, hexValue, Digit, Percent
<1>2. CASE ~(n < 10)
  <2>1. Hex(n) = 55 + n /\ 55 + n \in 65..70
    BY <1>2 DEF Hex
  <2>2. n = 10 \/ n = 11 \/ n = 12 \/ n = 13 \/ n = 14 \/ n = 15
    BY <1>2
  <2>3. (55 + n) % 32 = n - 9
    BY <2>2
  <2>. QED
    BY <2>1, <2>3 DEF HexDigits, HexDigit, hexValue, Digit, Percent
<1>. QED
  BY <1>1, <1>2

Sixteen(x, y) == 16 * x + y

LEMMA Sixteens ==
  ASSUME NEW v \in 0..255
  PROVE  v \div 16 \in 0..15 /\ v % 16 \in 0..15 /\ Sixteen(v \div 16, v % 16) = v
<1>. DEFINE q == v \div 16
            r == v % 16
<1>1. v \in Nat /\ q \in 0..15 /\ r \in 0..15 /\ r = v - 16 * q
  OBVIOUS
<1>. HIDE DEF q, r
<1>2. Sixteen(q, r) = v
  BY <1>1 DEF Sixteen
<1>. QED
  BY <1>1, <1>2 DEF q, r

\* A set of characters to escape, with those that percentDecode looks at.
Special(s) == s \subseteq 0..255 /\ Percent \in s /\ Plus \in s

EscapePieces(t, s) ==
  [i \in DOMAIN t |->
     IF t[i] \in s THEN <<Percent, Hex(t[i] \div 16), Hex(t[i] % 16)>> ELSE <<t[i]>>]

\* The escaped text e, character by character of t.
Shows(e, t, s, a) ==
  /\ Text(t) /\ Special(s) /\ Laid(e, EscapePieces(t, s), a) /\ Len(EscapePieces(t, s)) = Len(t)
  /\ \A k \in 1..Len(t) :
       /\ t[k] \in Nat /\ a[k - 1] \in Nat
       /\ t[k] \in s =>
            /\ a[k] = a[k - 1] + 3 /\ e[a[k - 1] + 1] = Percent /\ t[k] \in 0..255
            /\ e[a[k - 1] + 2] = Hex(t[k] \div 16) /\ e[a[k - 1] + 3] = Hex(t[k] % 16)
       /\ t[k] \notin s =>
            a[k] = a[k - 1] + 1 /\ e[a[k - 1] + 1] = t[k]

LEMMA ThreeIsText ==
  ASSUME NEW x \in Nat, NEW y \in Nat, NEW z \in Nat
  PROVE  /\ Text(<<x, y, z>>) /\ Len(<<x, y, z>>) = 3
         /\ <<x, y, z>>[1] = x /\ <<x, y, z>>[2] = y /\ <<x, y, z>>[3] = z
BY DEF Text

LEMMA EscapedShows ==
  ASSUME NEW t, Text(t), NEW s, Special(s)
  PROVE  \E a : Shows(Escaped(t, s), t, s, a)
<1>. DEFINE ws == EscapePieces(t, s)
            e  == Escaped(t, s)
            n  == Len(t)
<1>1. n \in Nat /\ DOMAIN t = 1..n /\ \A k \in 1..n : t[k] \in Nat
  BY TextIs
<1>2. Len(ws) = n /\ DOMAIN ws = 1..n
  <2>1. ws = [i \in 1..n |-> ws[i]] /\ DOMAIN ws = 1..n
    BY <1>1 DEF EscapePieces
  <2>. HIDE DEF ws, n
  <2>. QED
    BY <1>1, <2>1
<1>3. ASSUME NEW k \in 1..n
      PROVE  /\ Text(ws[k])
             /\ t[k] \in s =>
                  /\ Len(ws[k]) = 3 /\ ws[k][1] = Percent /\ t[k] \in 0..255
                  /\ ws[k][2] = Hex(t[k] \div 16) /\ ws[k][3] = Hex(t[k] % 16)
             /\ t[k] \notin s => Len(ws[k]) = 1 /\ ws[k][1] = t[k]
  <2>1. CASE t[k] \in s
    <3>. DEFINE v == t[k]
    <3>1. ws[k] = <<Percent, Hex(v \div 16), Hex(v % 16)>>
      BY <1>1, <2>1 DEF EscapePieces
    <3>2. v \in 0..255
      BY <2>1 DEF Special
    <3>. HIDE DEF ws, v
    <3>3. Percent \in Nat /\ Hex(v \div 16) \in Nat /\ Hex(v % 16) \in Nat
      <4>1. v \div 16 \in 0..15 /\ v % 16 \in 0..15
        BY <3>2, Sixteens
      <4>2. \A h \in HexDigits : h \in Nat
        BY DEF HexDigits
      <4>. QED
        BY <4>1, <4>2, HexIs DEF Percent
    <3>. QED
      BY <2>1, <3>1, <3>2, <3>3, ThreeIsText DEF v
  <2>2. CASE t[k] \notin s
    <3>1. ws[k] = <<t[k]>> /\ t[k] \in Nat
      BY <1>1, <2>2 DEF EscapePieces
    <3>. HIDE DEF ws
    <3>. QED
      BY <2>2, <3>1, OneIsText
  <2>. QED
    BY <2>1, <2>2
<1>. HIDE DEF ws
<1>4. Pieces(ws)
  BY <1>1, <1>2, <1>3 DEF Pieces
<1>5. FlattenSeq(ws) = e
  BY DEF Escaped, EscapePieces, ws
<1>. HIDE DEF e
<1>6. PICK a : Laid(e, ws, a)
  BY <1>4, <1>5, FlattenIsLaid
<1>7. ASSUME NEW k \in 1..n
      PROVE  /\ t[k] \in Nat /\ a[k - 1] \in Nat
             /\ t[k] \in s =>
                  /\ a[k] = a[k - 1] + 3 /\ e[a[k - 1] + 1] = Percent /\ t[k] \in 0..255
                  /\ e[a[k - 1] + 2] = Hex(t[k] \div 16) /\ e[a[k - 1] + 3] = Hex(t[k] % 16)
             /\ t[k] \notin s =>
                  a[k] = a[k - 1] + 1 /\ e[a[k - 1] + 1] = t[k]
  <2>1. k - 1 \in 0..n /\ k \in 1..Len(ws) /\ k - 1 \in 0..Len(ws)
    BY <1>1, <1>2
  <2>2. a[k - 1] \in Nat /\ a[k] = a[k - 1] + Len(ws[k])
    BY <1>6, <2>1 DEF Laid, Offsets
  <2>3. \A j \in 1..Len(ws[k]) : e[a[k - 1] + j] = ws[k][j]
    BY <1>6, <2>1 DEF Laid
  <2>4. CASE t[k] \in s
    <3>1. 1 \in 1..Len(ws[k]) /\ 2 \in 1..Len(ws[k]) /\ 3 \in 1..Len(ws[k])
      BY <1>3, <2>4
    <3>. QED
      BY <1>1, <1>3, <2>2, <2>3, <2>4, <3>1
  <2>5. CASE t[k] \notin s
    <3>1. 1 \in 1..Len(ws[k])
      BY <1>3, <2>5
    <3>. QED
      BY <1>1, <1>3, <2>2, <2>3, <2>5, <3>1
  <2>. QED
    BY <2>4, <2>5
<1>8. Shows(e, t, s, a)
  BY <1>2, <1>6, <1>7 DEF Shows, ws
<1>. QED
  BY <1>8 DEF e

\* Every place of the escaped text belongs to one character.
LEMMA InOneEscape ==
  ASSUME NEW e, NEW t, NEW s, NEW a, Shows(e, t, s, a), NEW i \in 1..Len(e)
  PROVE  \E k \in 1..Len(t) :
           /\ a[k - 1] \in Nat /\ a[k - 1] < i /\ i <= a[k]
           /\ t[k] \in s => i - a[k - 1] \in {1, 2, 3}
           /\ t[k] \notin s => i - a[k - 1] = 1
           /\ \A m \in 1..Len(t) : a[m - 1] < i /\ i <= a[m] => m = k
<1>. DEFINE ws == EscapePieces(t, s)
<1>1. Pieces(ws) /\ Offsets(a, ws) /\ Len(e) = a[Len(ws)] /\ Len(ws) = Len(t)
  BY DEF Shows, Laid
<1>. HIDE DEF ws
<1>2. PICK k \in 1..Len(ws) :
        /\ a[k - 1] \in Nat /\ a[k - 1] < i /\ i <= a[k]
        /\ \A m \in 1..Len(ws) : a[m - 1] < i /\ i <= a[m] => m = k
  BY <1>1, InOnePiece
<1>3. i \in Nat /\ k \in 1..Len(t)
  <2>1. Len(e) \in Nat
    BY TextIs DEF Shows, Laid
  <2>. QED
    BY <1>1, <1>2, <2>1
<1>4. t[k] \in s => i - a[k - 1] \in {1, 2, 3}
  <2>1. t[k] \in s => a[k] = a[k - 1] + 3
    BY <1>3 DEF Shows
  <2>. QED
    BY <1>2, <1>3, <2>1
<1>5. t[k] \notin s => i - a[k - 1] = 1
  <2>1. t[k] \notin s => a[k] = a[k - 1] + 1
    BY <1>3 DEF Shows
  <2>. QED
    BY <1>2, <1>3, <2>1
<1>. QED
  BY <1>1, <1>2, <1>3, <1>4, <1>5

\* What is escaped or does not occur is not in the escaped text.
LEMMA NotEscaped ==
  ASSUME NEW t, Text(t), NEW s, Special(s), NEW c \in Nat, c \notin HexDigits, c # Percent,
         c \in s \/ NoneIn(t, c)
  PROVE  Text(Escaped(t, s)) /\ NoneIn(Escaped(t, s), c)
<1>. DEFINE e == Escaped(t, s)
<1>1. PICK a : Shows(e, t, s, a)
  BY EscapedShows
<1>. HIDE DEF e
<1>2. ASSUME NEW i \in 1..Len(e) PROVE e[i] # c
  <2>1. PICK k \in 1..Len(t) :
          /\ a[k - 1] \in Nat
          /\ t[k] \in s => i - a[k - 1] \in {1, 2, 3}
          /\ t[k] \notin s => i - a[k - 1] = 1
    BY <1>1, InOneEscape
  <2>2. Len(e) \in Nat /\ i \in Nat
    BY <1>1, TextIs DEF Shows, Laid
  <2>3. CASE t[k] \in s
    <3>1. /\ e[a[k - 1] + 1] = Percent /\ t[k] \in 0..255
          /\ e[a[k - 1] + 2] = Hex(t[k] \div 16) /\ e[a[k - 1] + 3] = Hex(t[k] % 16)
      BY <1>1, <2>3 DEF Shows
    <3>2. e[a[k - 1] + 2] \in HexDigits /\ e[a[k - 1] + 3] \in HexDigits
      BY <3>1, Sixteens, HexIs
    <3>3. i = a[k - 1] + 1 \/ i = a[k - 1] + 2 \/ i = a[k - 1] + 3
      BY <2>1, <2>2, <2>3
    <3>. QED
      BY <3>1, <3>2, <3>3
  <2>4. CASE t[k] \notin s
    <3>1. e[a[k - 1] + 1] = t[k]
      BY <1>1, <2>4 DEF Shows
    <3>2. i = a[k - 1] + 1
      BY <2>1, <2>2, <2>4
    <3>. QED
      BY <2>4, <3>1, <3>2 DEF NoneIn
  <2>. QED
    BY <2>3, <2>4
<1>3. Text(e)
  BY <1>1 DEF Shows, Laid
<1>. QED
  BY <1>2, <1>3 DEF NoneIn, e

\* Where the escapes of the escaped text are.
LEMMA EscapesAre ==
  ASSUME NEW e, NEW t, NEW s, NEW a, Shows(e, t, s, a), NEW k \in 1..Len(t), NEW i \in 1..Len(e),
         a[k - 1] < i, i <= a[k]
  PROVE  i \in Escapes(e) <=> t[k] \in s /\ i = a[k - 1] + 1
<1>1. /\ Len(e) \in Nat /\ Text(e) /\ Text(t) /\ Len(t) \in Nat /\ i \in Nat
      /\ t[k] \in Nat /\ a[k - 1] \in Nat
      /\ t[k] \in s =>
           /\ a[k] = a[k - 1] + 3 /\ e[a[k - 1] + 1] = Percent /\ t[k] \in 0..255
           /\ e[a[k - 1] + 2] = Hex(t[k] \div 16) /\ e[a[k - 1] + 3] = Hex(t[k] % 16)
      /\ t[k] \notin s => a[k] = a[k - 1] + 1 /\ e[a[k - 1] + 1] = t[k]
  BY TextIs DEF Shows, Laid
<1>2. a[k] <= Len(e)
  <2>. DEFINE ws == EscapePieces(t, s)
  <2>1. Pieces(ws) /\ Offsets(a, ws) /\ Len(e) = a[Len(ws)] /\ Len(ws) = Len(t)
    BY DEF Shows, Laid
  <2>. HIDE DEF ws
  <2>2. k \in 0..Len(ws) /\ Len(ws) \in k..Len(ws)
    BY <1>1, <2>1
  <2>. QED
    BY <2>1, <2>2, OffsetsRise
<1>3. CASE t[k] \in s
  <2>1. /\ Hex(t[k] \div 16) # Percent /\ HexDigit(Hex(t[k] \div 16))
        /\ Hex(t[k] % 16) # Percent /\ HexDigit(Hex(t[k] % 16))
    BY <1>1, <1>3, Sixteens, HexIs
  <2>. DEFINE b == a[k - 1]
              c == a[k]
              l == Len(e)
  <2>2. b \in Nat /\ l \in Nat /\ c = b + 3 /\ c <= l /\ b < i /\ i <= c
    BY <1>1, <1>2, <1>3
  <2>3. CASE i = a[k - 1] + 1
    <3>1. i \in 1..(Len(e) - 2) /\ i + 1 = a[k - 1] + 2 /\ i + 2 = a[k - 1] + 3
      <4>1. i = b + 1
        BY <2>3
      <4>. HIDE DEF b, c, l
      <4>2. i \in 1..(l - 2) /\ i + 1 = b + 2 /\ i + 2 = b + 3
        BY <2>2, <4>1
      <4>. QED
        BY <4>2 DEF b, l
    <3>. QED
      BY <1>1, <1>3, <2>1, <2>3, <3>1 DEF Escapes
  <2>4. CASE i # a[k - 1] + 1
    <3>1. i = a[k - 1] + 2 \/ i = a[k - 1] + 3
      <4>1. i # b + 1 /\ i \in Nat
        BY <1>1, <2>4
      <4>. HIDE DEF b, c, l
      <4>2. i = b + 2 \/ i = b + 3
        BY <2>2, <4>1
      <4>. QED
        BY <4>2 DEF b
    <3>2. e[i] # Percent
      BY <1>1, <1>3, <2>1, <3>1
    <3>. QED
      BY <2>4, <3>2 DEF Escapes
  <2>. QED
    BY <2>3, <2>4
<1>4. CASE t[k] \notin s
  <2>1. i = a[k - 1] + 1 /\ e[i] # Percent
    BY <1>1, <1>4 DEF Shows, Special
  <2>. QED
    BY <1>4, <2>1 DEF Escapes
<1>. QED
  BY <1>3, <1>4

\* What percentDecode makes of one place.
Piece(e, i) ==
  CASE i \in Escapes(e) -> <<16 * hexValue(e[i + 1]) + hexValue(e[i + 2])>>
    [] {i - 1, i - 2} \cap Escapes(e) # {} -> <<>>
    [] OTHER -> <<IF e[i] = Plus THEN Space ELSE e[i]>>

LEMMA PieceIs ==
  ASSUME NEW e, NEW t, NEW s, NEW a, Shows(e, t, s, a), NEW k \in 1..Len(t), NEW i \in 1..Len(e),
         a[k - 1] < i, i <= a[k]
  PROVE  Piece(e, i) = IF i = a[k - 1] + 1 THEN <<t[k]>> ELSE <<>>
<1>1. /\ Len(e) \in Nat /\ Text(e) /\ Text(t) /\ Len(t) \in Nat /\ i \in Nat
      /\ t[k] \in Nat /\ a[k - 1] \in Nat
      /\ t[k] \in s =>
           /\ a[k] = a[k - 1] + 3 /\ e[a[k - 1] + 1] = Percent /\ t[k] \in 0..255
           /\ e[a[k - 1] + 2] = Hex(t[k] \div 16) /\ e[a[k - 1] + 3] = Hex(t[k] % 16)
      /\ t[k] \notin s => a[k] = a[k - 1] + 1 /\ e[a[k - 1] + 1] = t[k]
  BY TextIs DEF Shows, Laid
<1>. DEFINE b == a[k - 1]
            c == a[k]
<1>2. b \in Nat /\ i \in Nat /\ b < i /\ i <= c /\ (t[k] \in s => c = b + 3) /\ (t[k] \notin s => c = b + 1)
  BY <1>1
<1>3. i \in Escapes(e) <=> t[k] \in s /\ i = a[k - 1] + 1
  BY EscapesAre
<1>4. ASSUME NEW d \in {1, 2}, i - d \in Escapes(e)
      PROVE  t[k] \in s /\ i - d = a[k - 1] + 1
  <2>. DEFINE j == i - d
  <2>1. j \in 1..Len(e) /\ j < i /\ i <= j + 2
    BY <1>1, <1>4 DEF Escapes
  <2>. HIDE DEF j
  <2>2. PICK m \in 1..Len(t) :
          /\ a[m - 1] \in Nat /\ a[m - 1] < j /\ j <= a[m]
    BY <2>1, InOneEscape
  <2>3. t[m] \in s /\ j = a[m - 1] + 1 /\ a[m] = a[m - 1] + 3
    <3>1. j \in Escapes(e)
      BY <1>4 DEF j
    <3>2. t[m] \in s /\ j = a[m - 1] + 1
      BY <2>1, <2>2, <3>1, EscapesAre
    <3>. QED
      BY <3>2 DEF Shows
  <2>4. a[m - 1] < i /\ i <= a[m]
    BY <1>1, <2>1, <2>2, <2>3
  <2>5. m = k
    <3>1. PICK o \in 1..Len(t) : \A x \in 1..Len(t) : a[x - 1] < i /\ i <= a[x] => x = o
      BY InOneEscape
    <3>. QED
      BY <2>4, <3>1
  <2>. QED
    BY <2>3, <2>5 DEF j
<1>5. CASE i = a[k - 1] + 1
  <2>1. {i - 1, i - 2} \cap Escapes(e) = {}
    <3>1. i = b + 1
      BY <1>5
    <3>2. ASSUME NEW d \in {1, 2}, i - d = b + 1 PROVE FALSE
      <4>. HIDE DEF b, c
      <4>. QED
        BY <1>2, <3>1, <3>2
    <3>3. \A d \in {1, 2} : i - d \notin Escapes(e)
      BY <1>4, <3>2
    <3>. QED
      BY <3>3
  <2>2. CASE t[k] \in s
    <3>1. Piece(e, i) = <<16 * hexValue(e[i + 1]) + hexValue(e[i + 2])>>
      BY <1>3, <1>5, <2>1, <2>2 DEF Piece
    <3>2. i + 1 = a[k - 1] + 2 /\ i + 2 = a[k - 1] + 3
      <4>1. i = b + 1
        BY <1>5
      <4>. HIDE DEF b, c
      <4>2. i + 1 = b + 2 /\ i + 2 = b + 3
        BY <1>2, <4>1
      <4>. QED
        BY <4>2 DEF b
    <3>3. hexValue(e[i + 1]) = t[k] \div 16 /\ hexValue(e[i + 2]) = t[k] % 16
      BY <1>1, <2>2, <3>2, Sixteens, HexIs
    <3>4. Sixteen(hexValue(e[i + 1]), hexValue(e[i + 2])) = t[k]
      BY <1>1, <2>2, <3>3, Sixteens
    <3>5. 16 * hexValue(e[i + 1]) + hexValue(e[i + 2]) = t[k]
      BY <3>4 DEF Sixteen
    <3>. QED
      BY <1>5, <3>1, <3>5
  <2>3. CASE t[k] \notin s
    <3>1. i \notin Escapes(e) /\ e[i] = t[k] /\ t[k] # Plus
      BY <1>1, <1>3, <1>5, <2>3 DEF Shows, Special
    <3>. QED
      BY <1>5, <2>1, <3>1 DEF Piece
  <2>. QED
    BY <2>2, <2>3
<1>6. CASE i # a[k - 1] + 1
  <2>1. t[k] \in s /\ (i = a[k - 1] + 2 \/ i = a[k - 1] + 3)
    <3>1. i # b + 1
      BY <1>6
    <3>. HIDE DEF b, c
    <3>2. t[k] \in s /\ (i = b + 2 \/ i = b + 3)
      BY <1>2, <3>1
    <3>. QED
      BY <3>2 DEF b
  <2>2. a[k - 1] + 1 \in Escapes(e)
    <3>1. a[k - 1] + 1 \in 1..Len(e) /\ a[k - 1] < a[k - 1] + 1 /\ a[k - 1] + 1 <= a[k]
      <4>1. Len(e) \in Nat /\ i <= Len(e) /\ (i = b + 2 \/ i = b + 3)
        BY <1>1, <2>1
      <4>. HIDE DEF b, c
      <4>2. b + 1 \in 1..Len(e) /\ b < b + 1 /\ b + 1 <= c
        BY <1>2, <1>1, <2>1, <4>1
      <4>. QED
        BY <4>2 DEF b, c
    <3>. QED
      BY <2>1, <3>1, EscapesAre
  <2>3. i - 1 = a[k - 1] + 1 \/ i - 2 = a[k - 1] + 1
    <3>1. i = b + 2 \/ i = b + 3
      BY <2>1
    <3>. HIDE DEF b, c
    <3>2. i - 1 = b + 1 \/ i - 2 = b + 1
      BY <1>2, <3>1
    <3>. QED
      BY <3>2 DEF b
  <2>4. i \notin Escapes(e) /\ {i - 1, i - 2} \cap Escapes(e) # {}
    BY <1>3, <1>6, <2>2, <2>3
  <2>. QED
    BY <1>6, <2>4 DEF Piece
<1>. QED
  BY <1>5, <1>6

LEMMA DecodesAsEscaped ==
  ASSUME NEW t, Text(t), NEW s, Special(s)
  PROVE  percentDecode(Escaped(t, s)) = t
<1>. DEFINE e == Escaped(t, s)
            n == Len(t)
            N == Len(e)
<1>1. PICK a : Shows(e, t, s, a)
  BY EscapedShows
<1>. HIDE DEF e
<1>. DEFINE ws == [i \in DOMAIN e |-> Piece(e, i)]
            In(k, i) == k \in 1..n /\ a[k - 1] < i /\ i <= a[k]
            of(i) == CHOOSE k : In(k, i)
            b == [i \in 0..N |-> IF i = 0 THEN 0 ELSE of(i)]
<1>2. /\ n \in Nat /\ N \in Nat /\ Text(e) /\ DOMAIN e = 1..N /\ a[0] = 0 /\ N = a[n]
      /\ \A k \in 0..n : a[k] \in Nat
      /\ \A k \in 1..n : /\ t[k] \in Nat /\ k - 1 \in 0..n
                         /\ a[k] = a[k - 1] + 3 \/ a[k] = a[k - 1] + 1
  <2>1. Text(e) /\ Offsets(a, EscapePieces(t, s)) /\ Len(e) = a[n] /\ Len(EscapePieces(t, s)) = n
    BY <1>1 DEF Shows, Laid
  <2>2. n \in Nat /\ N \in Nat /\ DOMAIN e = 1..N
    BY <2>1, TextIs
  <2>3. \A k \in 1..n : t[k] \in Nat /\ (a[k] = a[k - 1] + 3 \/ a[k] = a[k - 1] + 1)
    BY <1>1 DEF Shows
  <2>. QED
    BY <2>1, <2>2, <2>3 DEF Offsets
<1>3. ASSUME NEW i \in 1..N
      PROVE  /\ of(i) \in 1..n /\ a[of(i) - 1] < i /\ i <= a[of(i)]
             /\ \A m \in 1..n : a[m - 1] < i /\ i <= a[m] => m = of(i)
  <2>1. PICK k \in 1..n : /\ a[k - 1] < i /\ i <= a[k]
                          /\ \A m \in 1..n : a[m - 1] < i /\ i <= a[m] => m = k
    BY <1>1, InOneEscape
  <2>2. In(k, i) /\ \A m : In(m, i) => m = k
    BY <2>1
  <2>3. of(i) = k
    <3>. HIDE DEF In
    <3>. QED
      BY <2>2
  <2>. HIDE DEF of
  <2>. QED
    BY <2>1, <2>3
<1>4. /\ \A i \in 0..N : b[i] = IF i = 0 THEN 0 ELSE of(i)
      /\ \A i \in 1..N : ws[i] = Piece(e, i)
      /\ Len(ws) = N /\ DOMAIN ws = 1..N
  <2>1. ws = [i \in 1..N |-> ws[i]]
    BY <1>2
  <2>2. Len(ws) = N
    <3>. HIDE DEF ws
    <3>. QED
      BY <1>2, <2>1
  <2>. HIDE DEF of
  <2>. QED
    BY <1>2, <2>2
<1>. HIDE DEF of, b, ws
\* The first place of a character, and the others of its escape.
<1>5. ASSUME NEW i \in 1..N
      PROVE  /\ i = a[of(i) - 1] + 1 =>
                  ws[i] = <<t[of(i)]>> /\ b[i - 1] = of(i) - 1
             /\ i # a[of(i) - 1] + 1 => ws[i] = <<>> /\ b[i - 1] = of(i)
  <2>. DEFINE k == of(i)
  <2>1. k \in 1..n /\ a[k - 1] < i /\ i <= a[k] /\ a[k - 1] \in Nat /\ a[k] \in Nat /\ i \in Nat
    BY <1>2, <1>3
  <2>. HIDE DEF k
  <2>2. ws[i] = IF i = a[k - 1] + 1 THEN <<t[k]>> ELSE <<>>
    BY <1>1, <1>4, <2>1, PieceIs
  <2>3. CASE i = a[k - 1] + 1
    <3>1. CASE k = 1
      <4>1. i - 1 = 0 /\ 0 \in 0..N
        BY <1>2, <2>1, <2>3, <3>1
      <4>. QED
        BY <1>4, <2>1, <2>2, <2>3, <3>1, <4>1 DEF k
    <3>2. CASE k # 1
      <4>1. k - 1 \in 1..n /\ i - 1 = a[k - 1]
        BY <1>2, <2>1, <2>3, <3>2
      <4>2. a[(k - 1) - 1] \in Nat /\ a[(k - 1) - 1] < a[k - 1] /\ a[k - 1] <= a[k - 1]
        <5>. DEFINE m == k - 1
                    x == a[m - 1]
                    y == a[m]
        <5>1. m \in 1..n /\ m - 1 \in 0..n
          BY <1>2, <4>1
        <5>2. x \in Nat /\ (y = x + 3 \/ y = x + 1)
          <6>. HIDE DEF m
          <6>. QED
            BY <1>2, <5>1
        <5>. HIDE DEF x, y
        <5>3. x \in Nat /\ x < y /\ y <= y
          BY <5>2
        <5>. QED
          BY <5>3 DEF x, y
      <4>3. i - 1 \in 1..N
        BY <1>2, <2>1, <4>1, <4>2
      <4>4. of(i - 1) = k - 1
        BY <1>3, <4>1, <4>2, <4>3
      <4>. QED
        BY <1>4, <2>2, <2>3, <4>3, <4>4 DEF k
    <3>. QED
      BY <3>1, <3>2
  <2>4. CASE i # a[k - 1] + 1
    <3>1. i - 1 \in 1..N /\ a[k - 1] < i - 1 /\ i - 1 <= a[k]
      <4>. DEFINE x == a[k - 1]
                  y == a[k]
      <4>1. x \in Nat /\ y \in Nat /\ x < i /\ i <= y /\ i # x + 1 /\ i \in Nat /\ i <= N
        BY <2>1, <2>4
      <4>. HIDE DEF x, y
      <4>2. i - 1 \in 1..N /\ x < i - 1 /\ i - 1 <= y
        BY <1>2, <4>1
      <4>. QED
        BY <4>2 DEF x, y
    <3>2. of(i - 1) = k
      BY <1>3, <2>1, <3>1
    <3>. QED
      BY <1>4, <2>2, <2>4, <3>1, <3>2 DEF k
  <2>. QED
    BY <2>3, <2>4 DEF k
<1>6. Text(<<>>) /\ Len(<<>>) = 0
  BY DEF Text
<1>7. ASSUME NEW i \in 1..N
      PROVE  /\ Text(ws[i]) /\ b[i] = b[i - 1] + Len(ws[i])
             /\ \A j \in 1..Len(ws[i]) : t[b[i - 1] + j] = ws[i][j]
  <2>. DEFINE k == of(i)
  <2>1. k \in 1..n /\ t[k] \in Nat /\ b[i] = k
    <3>1. i # 0 /\ i \in 0..N
      BY <1>2
    <3>. QED
      BY <1>2, <1>3, <1>4, <3>1
  <2>. HIDE DEF k
  <2>2. CASE i = a[k - 1] + 1
    <3>1. ws[i] = <<t[k]>> /\ b[i - 1] = k - 1
      BY <1>5, <2>2 DEF k
    <3>2. Text(ws[i]) /\ Len(ws[i]) = 1 /\ ws[i][1] = t[k]
      BY <2>1, <3>1, OneIsText
    <3>3. \A j \in 1..1 : (k - 1) + j = k /\ j = 1
      BY <2>1
    <3>. QED
      BY <2>1, <3>1, <3>2, <3>3
  <2>3. CASE i # a[k - 1] + 1
    <3>1. ws[i] = <<>> /\ b[i - 1] = k
      BY <1>5, <2>3 DEF k
    <3>. QED
      BY <1>6, <2>1, <3>1
  <2>. QED
    BY <2>2, <2>3
<1>8. Pieces(ws) /\ Offsets(b, ws)
  <2>1. \A i \in 0..N : b[i] \in Nat
    BY <1>2, <1>3, <1>4
  <2>2. b[0] = 0
    BY <1>2, <1>4
  <2>. QED
    BY <1>2, <1>4, <1>7, <2>1, <2>2 DEF Pieces, Offsets
<1>9. n = b[N]
  <2>1. CASE N = 0
    <3>1. n = 0
      <4>. SUFFICES ASSUME n # 0 PROVE FALSE
        OBVIOUS
      <4>1. n \in 1..n /\ n - 1 \in 0..n
        BY <1>2
      <4>2. a[n] > a[n - 1] /\ a[n - 1] \in Nat
        BY <1>2, <4>1
      <4>. QED
        BY <1>2, <2>1, <4>2
    <3>. QED
      BY <1>2, <1>4, <2>1, <3>1
  <2>2. CASE N # 0
    <3>1. N \in 1..N /\ N \in 0..N
      BY <1>2, <2>2
    <3>2. n # 0
      BY <1>2, <2>2
    <3>3. n \in 1..n /\ a[n - 1] < N /\ N <= a[n]
      BY <1>2, <3>2
    <3>4. of(N) = n
      BY <1>3, <3>1, <3>3
    <3>. QED
      BY <1>4, <2>2, <3>1, <3>4
  <2>. QED
    BY <2>1, <2>2
<1>10. Laid(t, ws, b)
  BY <1>4, <1>7, <1>8, <1>9 DEF Laid
<1>11. FlattenSeq(ws) = t
  BY <1>10, FlattenIs
<1>12. percentDecode(e) = FlattenSeq(ws)
  BY DEF percentDecode, ws, Piece
<1>. QED
  BY <1>11, <1>12 DEF e
-----------------------------------------------------------------------------
(* What parseMailUrl accepts, whatever the text.                           *)

\* The characters of p are some of t's.
Part(p, t) == Text(p) /\ \A i \in 1..Len(p) : \E j \in 1..Len(t) : p[i] = t[j]

LEMMA PartOfPart ==
  ASSUME NEW p, NEW t, NEW u, Part(p, t), Part(t, u) PROVE Part(p, u)
BY DEF Part

LEMMA NoneInPart ==
  ASSUME NEW p, NEW t, Part(p, t), NEW c, NoneIn(t, c) PROVE NoneIn(p, c)
BY DEF Part, NoneIn

LEMMA SubSeqIsPart ==
  ASSUME NEW t, Text(t), NEW m \in Nat, NEW n \in Nat, m >= 1, n <= Len(t), m <= n + 1
  PROVE  Part(SubSeq(t, m, n), t)
<1>. DEFINE p == SubSeq(t, m, n)
<1>1. Text(p) /\ Len(p) = n - m + 1 /\ \A i \in 1..(n - m + 1) : p[i] = t[m + i - 1]
  BY PartIs
<1>. HIDE DEF p
<1>2. Len(t) \in Nat
  BY TextIs
<1>3. ASSUME NEW i \in 1..Len(p) PROVE \E j \in 1..Len(t) : p[i] = t[j]
  <2>1. m + i - 1 \in 1..Len(t)
    BY <1>1, <1>2
  <2>. QED
    BY <1>1, <2>1
<1>. QED
  BY <1>1, <1>3 DEF Part, p

LEMMA BehindIsPart ==
  ASSUME NEW t, Text(t), NEW i \in 0..Len(t) PROVE Part(Behind(t, i), t)
<1>1. Len(t) \in Nat
  BY TextIs
<1>2. i + 1 \in Nat /\ i + 1 >= 1 /\ Len(t) <= Len(t) /\ i + 1 <= Len(t) + 1
  BY <1>1
<1>. QED
  BY <1>1, <1>2, SubSeqIsPart DEF Behind

LEMMA UptoIsPart ==
  ASSUME NEW t, Text(t), NEW i \in 1..(Len(t) + 1) PROVE Part(Upto(t, i), t)
<1>1. Len(t) \in Nat
  BY TextIs
<1>2. i - 1 \in Nat /\ 1 \in Nat /\ 1 >= 1 /\ i - 1 <= Len(t) /\ 1 <= (i - 1) + 1
  BY <1>1
<1>. QED
  BY <1>1, <1>2, SubSeqIsPart DEF Upto

LEMMA CutIsPart ==
  ASSUME NEW t, Text(t), NEW c PROVE Part(Cut(t, c).before, t)
<1>1. Len(t) \in Nat
  BY TextIs
<1>2. CASE First(t, c) = 0
  <2>1. Cut(t, c).before = t
    BY <1>2 DEF Cut
  <2>. QED
    BY <2>1 DEF Part
<1>3. CASE First(t, c) # 0
  <2>1. Cut(t, c).before = Upto(t, First(t, c))
    BY <1>3 DEF Cut
  <2>2. First(t, c) \in 1..(Len(t) + 1)
    BY <1>1, <1>3, FirstFinds
  <2>. QED
    BY <2>1, <2>2, UptoIsPart
<1>. QED
  BY <1>2, <1>3

\* Behind the last of a character there is none.
LEMMA BehindTheLast ==
  ASSUME NEW t, Text(t), NEW c
  PROVE  LastPlace(t, c) \in 0..Len(t) /\ NoneIn(Behind(t, LastPlace(t, c)), c)
<1>. DEFINE l == LastPlace(t, c)
            r == Behind(t, l)
<1>1. Len(t) \in Nat
  BY TextIs
<1>2. l \in 0..Len(t) /\ \A j \in 1..Len(t) : j > l => t[j] # c
  BY <1>1, LastFinds DEF NoneIn
<1>. HIDE DEF l
<1>3. Len(r) = Len(t) - l /\ \A j \in 1..(Len(t) - l) : r[j] = t[l + j]
  BY <1>2, BehindIs
<1>. HIDE DEF r
<1>4. ASSUME NEW j \in 1..Len(r) PROVE r[j] # c
  <2>1. l + j \in 1..Len(t) /\ l + j > l
    BY <1>1, <1>2, <1>3
  <2>. QED
    BY <1>2, <1>3, <2>1
<1>. QED
  BY <1>2, <1>4 DEF NoneIn, l, r

\* The host is a part of the text; with a colon it stands in brackets or has
\* no port behind it.
LEMMA HostIsPart ==
  ASSUME NEW t, Text(t), t # <<>>, HostPort(t).host # <<>>
  PROVE  /\ Part(HostPort(t).host, t)
         /\ NoneIn(HostPort(t).host, Colon) \/ ~HostPort(t).explicit \/ t[1] = Open
<1>. DEFINE close == First(t, Shut)
            c     == LastPlace(t, Colon)
<1>1. Len(t) \in Nat /\ 1 \in 1..Len(t)
  <2>1. Text(<<>>) /\ Len(<<>>) = 0
    BY DEF Text
  <2>2. Len(t) # 0
    BY <2>1, TextIs, SameText
  <2>. QED
    BY <2>2, TextIs
<1>2. close \in 0..Len(t) /\ (t[1] = Open => close # 1)
  BY <1>1, FirstFinds DEF Open, Shut
<1>3. CASE t[1] = Open
  <2>1. close = 0 => HostPort(t).host = <<>>
    BY <1>1, <1>3 DEF HostPort
  <2>2. close \in 2..Len(t)
    BY <1>1, <1>2, <1>3, <2>1
  <2>3. HostPort(t).host \in {SubSeq(t, 2, close - 1), <<>>}
    <3>1. CASE close = Len(t)
      BY <1>3, <3>1 DEF HostPort
    <3>2. CASE close # Len(t)
      <4>1. close \in 1 .. Len(t) - 1
        BY <1>1, <2>2, <3>2
      <4>. QED
        BY <1>3, <3>2, <4>1 DEF HostPort
    <3>. QED
      BY <3>1, <3>2
  <2>. HIDE DEF close
  <2>4. close - 1 \in Nat /\ 2 \in Nat /\ 2 >= 1 /\ close - 1 <= Len(t) /\ 2 <= (close - 1) + 1
    BY <1>1, <2>2
  <2>. QED
    BY <1>3, <2>3, <2>4, SubSeqIsPart
<1>4. CASE t[1] # Open
  <2>1. CASE c = 0 \/ First(t, Colon) # c
    <3>1. HostPort(t).host = t /\ HostPort(t).explicit = FALSE
      BY <1>4, <2>1 DEF HostPort
    <3>. QED
      BY <3>1 DEF Part
  <2>2. CASE c # 0 /\ First(t, Colon) = c
    <3>1. HostPort(t).host = Upto(t, c)
      BY <1>4, <2>2 DEF HostPort
    <3>2. c \in 1..Len(t) /\ \A j \in 1..Len(t) : j < c => t[j] # Colon
      BY <2>2, FirstFinds
    <3>. HIDE DEF c
    <3>3. c \in 1..(Len(t) + 1)
      BY <1>1, <3>2
    <3>4. Text(Upto(t, c)) /\ Len(Upto(t, c)) = c - 1 /\ \A j \in 1..(c - 1) : Upto(t, c)[j] = t[j]
      BY <3>3, UptoIs
    <3>5. NoneIn(Upto(t, c), Colon)
      BY <1>1, <3>2, <3>4 DEF NoneIn
    <3>. QED
      BY <3>1, <3>3, <3>5, UptoIsPart
  <2>. QED
    BY <2>1, <2>2
<1>. QED
  BY <1>3, <1>4

\* The parts of a URL.
Starts(u) == {i \in 1 .. Len(u) - 2 : SubSeq(u, i, i + 2) = <<Colon, Slash, Slash>>}
Scheme(u) == Upto(u, Min(Starts(u)))
Rest(u) == Cut(SubSeq(u, Min(Starts(u)) + 3, Len(u)), Question)
HostPortText(u) == Behind(Rest(u).before, LastPlace(Rest(u).before, At))
Parts(u) == HostPort(HostPortText(u))

Endpoint(u) ==
  [error    |-> "None",
   mode     |-> schemeToMode[Scheme(u)[1]],
   host     |-> Parts(u).host,
   port     |-> IF Parts(u).explicit THEN Number(Parts(u).port) ELSE defaultPort[Scheme(u)[1]],
   userinfo |-> Userinfo(Rest(u).before),
   tls      |-> applyQuery([ca_path |-> <<>>, server_name |-> Parts(u).host,
                            verify_peer |-> FALSE], Rest(u).behind)]

LEMMA ParseIs ==
  ASSUME NEW u
  PROVE  parseMailUrl(u) =
           CASE Starts(u) = {} \/ 1 \in Starts(u) -> Refused("InvalidUrl")
             [] Starts(u) # {} /\ 1 \notin Starts(u)
                  /\ Scheme(u) \notin {<<s>> : s \in Schemes} -> Refused("InvalidScheme")
             [] OTHER ->
                  IF HostPortText(u) = <<>> THEN Refused("InvalidHost")
                  ELSE IF Parts(u).explicit /\ ~Port(Parts(u).port) THEN Refused("InvalidPort")
                  ELSE IF Parts(u).host = <<>> THEN Refused("InvalidHost")
                  ELSE Endpoint(u)
BY DEF parseMailUrl, Starts, Scheme, Rest, HostPortText, Parts, Endpoint

HostOf(u) == Parts(u).host
PortOf(u) ==
  IF Parts(u).explicit THEN Number(Parts(u).port) ELSE defaultPort[Scheme(u)[1]]

LEMMA DefaultPorts ==
  ASSUME NEW s \in Schemes PROVE defaultPort[s] \in PortNumbers
<1>1. /\ defaultPort[256] = 25  /\ defaultPort[257] = 587 /\ defaultPort[258] = 465
      /\ defaultPort[259] = 110 /\ defaultPort[260] = 110 /\ defaultPort[261] = 995
  BY DEF defaultPort, Schemes
<1>2. s = 256 \/ s = 257 \/ s = 258 \/ s = 259 \/ s = 260 \/ s = 261
  BY DEF Schemes
<1>. DEFINE d == defaultPort[s]
<1>3. d = 25 \/ d = 587 \/ d = 465 \/ d = 110 \/ d = 995
  BY <1>1, <1>2
<1>. HIDE DEF d
<1>4. d \in PortNumbers
  BY <1>3 DEF PortNumbers
<1>. QED
  BY <1>4 DEF d

\* What parseMailUrl asks of a URL.
Accepts(u) ==
  /\ Starts(u) # {} /\ 1 \notin Starts(u) /\ Scheme(u) \in {<<s>> : s \in Schemes}
  /\ HostPortText(u) # <<>> /\ HostOf(u) # <<>>
  /\ Parts(u).explicit => Port(Parts(u).port)

\* The host of a URL: none of the characters that end it is in it.
LEMMA HostIsIn ==
  ASSUME NEW u, Text(u), Accepts(u)
  PROVE  /\ First(HostOf(u), At) = 0 /\ First(HostOf(u), Question) = 0
         /\ Part(HostPortText(u), u) /\ Min(Starts(u)) \in 2 .. Len(u) - 2
         /\ NoneIn(HostOf(u), Colon) \/ ~Parts(u).explicit \/ HostPortText(u)[1] = Open
<1>. DEFINE r == SubSeq(u, Min(Starts(u)) + 3, Len(u))
            b == Rest(u).before
            h == HostPortText(u)
<1>1. Starts(u) # {} /\ 1 \notin Starts(u) /\ h # <<>> /\ HostOf(u) # <<>>
  BY DEF Accepts
<1>2. Len(u) \in Nat
  BY TextIs
<1>3. Min(Starts(u)) \in 2 .. Len(u) - 2
  <2>1. Starts(u) \subseteq 1 .. Len(u) - 2 /\ Starts(u) \subseteq Nat
    BY <1>2 DEF Starts
  <2>2. PICK x \in Starts(u) : \A y \in Starts(u) : x <= y
    BY <1>1, <2>1, Least
  <2>3. Min(Starts(u)) = x
    BY <2>1, <2>2, MinIs
  <2>. QED
    BY <1>1, <1>2, <2>1, <2>2, <2>3
<1>4. Part(r, u)
  <2>1. /\ Min(Starts(u)) + 3 \in Nat /\ Min(Starts(u)) + 3 >= 1 /\ Len(u) <= Len(u)
        /\ Min(Starts(u)) + 3 <= Len(u) + 1
    BY <1>2, <1>3
  <2>. QED
    BY <1>2, <2>1, SubSeqIsPart
<1>5. Part(b, r) /\ NoneIn(b, Question)
  <2>1. Text(r)
    BY <1>4 DEF Part
  <2>. HIDE DEF r
  <2>2. b = Cut(r, Question).before
    BY DEF Rest, r
  <2>. HIDE DEF b
  <2>. QED
    BY <2>1, <2>2, CutIsPart, CutIs
<1>. HIDE DEF r
<1>6. Part(h, b) /\ NoneIn(h, At)
  <2>1. Text(b)
    BY <1>5 DEF Part
  <2>2. h = Behind(b, LastPlace(b, At))
    BY DEF HostPortText
  <2>. HIDE DEF b, h
  <2>. QED
    BY <2>1, <2>2, BehindTheLast, BehindIsPart
<1>. HIDE DEF b
<1>7. /\ Part(HostOf(u), h)
      /\ NoneIn(HostOf(u), Colon) \/ ~Parts(u).explicit \/ h[1] = Open
  <2>1. Text(h)
    BY <1>6 DEF Part
  <2>2. Parts(u) = HostPort(h) /\ HostOf(u) = Parts(u).host
    BY DEF Parts, HostOf
  <2>3. h # <<>>
    BY <1>1
  <2>. HIDE DEF h
  <2>4. HostPort(h).host # <<>>
    BY <1>1, <2>2
  <2>. QED
    BY <2>1, <2>2, <2>3, <2>4, HostIsPart
<1>. HIDE DEF h
<1>8. NoneIn(HostOf(u), At) /\ NoneIn(HostOf(u), Question) /\ Text(HostOf(u))
  BY <1>5, <1>6, <1>7, NoneInPart DEF Part
<1>9. Part(h, u)
  BY <1>4, <1>5, <1>6, PartOfPart
<1>. QED
  BY <1>3, <1>7, <1>8, <1>9, FirstNone DEF h

\* Its scheme is its first symbol.
LEMMA SchemeIs ==
  ASSUME NEW u, Text(u), Accepts(u) PROVE Scheme(u)[1] = u[1] /\ u[1] \in Schemes
<1>. DEFINE n == Min(Starts(u))
<1>1. PICK s \in Schemes : Scheme(u) = <<s>>
  BY DEF Accepts
<1>2. n \in 2 .. Len(u) - 2 /\ Len(u) \in Nat /\ Scheme(u) = Upto(u, n)
  BY HostIsIn, TextIs DEF Scheme
<1>. HIDE DEF n
<1>3. n \in 1..(Len(u) + 1) /\ 1 \in 1..(n - 1)
  BY <1>2
<1>4. Upto(u, n)[1] = u[1]
  BY <1>3, UptoIs
<1>5. Scheme(u)[1] = s
  BY <1>1
<1>. QED
  BY <1>2, <1>4, <1>5

\* An endpoint that is accepted can be dialled.
LEMMA AcceptedDials ==
  ASSUME NEW u, Text(u), Accepts(u)
  PROVE  /\ HostOf(u) # <<>> /\ First(HostOf(u), At) = 0 /\ First(HostOf(u), Question) = 0
         /\ PortOf(u) \in PortNumbers
         /\ First(HostOf(u), Colon) # 0 => PortOf(u) = defaultPort[u[1]] \/ First(u, Open) # 0
<1>. DEFINE h == HostPortText(u)
            d == defaultPort[u[1]]
            n == Number(Parts(u).port)
            x == Parts(u).explicit
<1>1. /\ First(HostOf(u), At) = 0 /\ First(HostOf(u), Question) = 0
      /\ Part(h, u)
      /\ NoneIn(HostOf(u), Colon) \/ ~x \/ h[1] = Open
  BY HostIsIn
<1>2. d \in PortNumbers /\ defaultPort[Scheme(u)[1]] = d
  BY SchemeIs, DefaultPorts, Zenon
<1>3. x => n \in PortNumbers
  BY Zenon DEF Accepts, Port
<1>8. PortOf(u) = IF x THEN n ELSE d
  BY <1>2, Zenon DEF PortOf
<1>4. HostOf(u) # <<>> /\ h # <<>>
  BY DEF Accepts
<1>. HIDE DEF h, d, n, x
<1>5. PortOf(u) \in PortNumbers /\ (~x => PortOf(u) = d)
  BY <1>2, <1>3, <1>8, Zenon
<1>6. ASSUME h[1] = Open PROVE First(u, Open) # 0
  <2>1. Text(h) /\ Text(<<>>) /\ Len(<<>>) = 0
    BY <1>1 DEF Part, Text
  <2>2. 1 \in 1..Len(h)
    <3>1. Len(h) # 0
      BY <1>4, <2>1, SameText
    <3>. QED
      BY <2>1, <3>1, TextIs
  <2>3. \E j \in 1..Len(u) : u[j] = Open
    BY <1>1, <1>6, <2>2 DEF Part
  <2>. QED
    BY <2>3, FirstFinds DEF NoneIn
<1>7. NoneIn(HostOf(u), Colon) => First(HostOf(u), Colon) = 0
  BY FirstNone
<1>. QED
  BY <1>1, <1>4, <1>5, <1>6, <1>7, Zenon DEF d

\* What is accepted is the endpoint.
LEMMA AcceptedIs ==
  ASSUME NEW u
  PROVE  /\ Accepts(u) => parseMailUrl(u) = Endpoint(u)
         /\ parseMailUrl(u).error = "None" => Accepts(u)
<1>1. \A e \in {"InvalidUrl", "InvalidScheme", "InvalidHost", "InvalidPort"} : Refused(e).error # "None"
  BY DEF Refused
<1>2. CASE Starts(u) = {} \/ 1 \in Starts(u)
  BY <1>1, <1>2, ParseIs DEF Accepts
<1>3. CASE ~(Starts(u) = {} \/ 1 \in Starts(u)) /\ Scheme(u) \notin {<<s>> : s \in Schemes}
  BY <1>1, <1>3, ParseIs DEF Accepts
<1>4. CASE ~(Starts(u) = {} \/ 1 \in Starts(u)) /\ Scheme(u) \in {<<s>> : s \in Schemes}
  BY <1>1, <1>4, ParseIs DEF Accepts, HostOf
<1>. QED
  BY <1>2, <1>3, <1>4
-----------------------------------------------------------------------------
(* The parts of a URL as users write them.                                 *)

Wanted(a) ==
  /\ a.scheme \in Schemes
  /\ Text(a.user) /\ NoneIn(a.user, Nul) /\ Text(a.password)
  /\ Text(a.host) /\ a.host # <<>>
  /\ NoneIn(a.host, At) /\ NoneIn(a.host, Question) /\ NoneIn(a.host, Open) /\ NoneIn(a.host, Shut)
  /\ Text(a.port) /\ \A i \in 1..Len(a.port) : Digit(a.port[i])

LEMMA IsText ==
  ASSUME NEW S, S \subseteq Nat, NEW t \in Seq(S)
  PROVE  Text(t) /\ \A i \in 1..Len(t) : t[i] \in S
BY SeqMonotonic, ElementOfSeq DEF Text

LEMMA WantedIs ==
  ASSUME NEW a \in Asked PROVE Wanted(a)
<1>1. /\ a \in [scheme : Schemes, user : Seq(1..255), password : Seq(0..255), host : Seq(Nat),
                port : Seq(48..57), sparing : BOOLEAN,
                options : Seq([key : Nat \ {Equals, Ampersand}, value : Seq(Nat)])]
      /\ IsHost(a.host)
  BY LoginAssumption DEF LoginAssumption
<1>2. /\ a.scheme \in Schemes /\ a.user \in Seq(1..255) /\ a.password \in Seq(0..255)
      /\ a.host \in Seq(Nat) /\ a.port \in Seq(48..57)
  BY <1>1
<1>. DEFINE u == a.user
            p == a.password
            h == a.host
            n == a.port
<1>. HIDE DEF u, p, h, n
<1>3. u \in Seq(1..255) /\ p \in Seq(0..255) /\ h \in Seq(Nat) /\ n \in Seq(48..57)
  BY <1>2 DEF u, p, h, n
<1>. DEFINE U == 1..255
            P == 0..255
            D == 48..57
<1>8. U \subseteq Nat /\ P \subseteq Nat /\ D \subseteq Nat /\ Nul \notin U
  BY DEF Nul
<1>9. \A c : c \in D => Digit(c)
  BY DEF Digit
<1>. HIDE DEF U, P, D
<1>10. u \in Seq(U) /\ p \in Seq(P) /\ n \in Seq(D)
  BY <1>3 DEF U, P, D
<1>4. Text(u) /\ Text(p) /\ Text(h) /\ Text(n)
  BY <1>3, <1>8, <1>10, IsText DEF Text
<1>5. NoneIn(u, Nul)
  <2>1. \A i \in 1..Len(u) : u[i] \in U
    BY <1>8, <1>10, IsText
  <2>. QED
    BY <1>8, <2>1 DEF NoneIn
<1>6. \A i \in 1..Len(n) : Digit(n[i])
  BY <1>8, <1>9, <1>10, IsText
<1>7. h # <<>> /\ NoneIn(h, At) /\ NoneIn(h, Question) /\ NoneIn(h, Open) /\ NoneIn(h, Shut)
  <2>1. h # <<>> /\ \A i \in DOMAIN h : h[i] \notin {At, Question, Open, Shut}
    BY <1>1 DEF IsHost, h
  <2>2. DOMAIN h = 1..Len(h)
    BY <1>4, TextIs
  <2>. QED
    BY <2>1, <2>2 DEF NoneIn
<1>. QED
  BY <1>2, <1>4, <1>5, <1>6, <1>7 DEF Wanted, u, p, h, n

LEMMA Joining ==
  ASSUME NEW p, NEW q, Text(p), Text(q)
  PROVE  Joined(p \o q, p, q) /\ Text(p \o q)
BY ConcatProperties DEF Joined, Text

LEMMA Splitting ==
  ASSUME NEW p, NEW c \in Nat, NEW q, Text(p), Text(q)
  PROVE  Split(p \o <<c>> \o q, p, c, q) /\ Text(p \o <<c>> \o q)
BY OneIsText, ConcatProperties DEF Split, Text

LEMMA EmptyIsText == Text(<<>>) /\ Len(<<>>) = 0 /\ \A c : NoneIn(<<>>, c)
BY DEF Text, NoneIn

LEMMA NotEmpty ==
  ASSUME NEW t, Text(t), t # <<>> PROVE Len(t) \in Nat /\ Len(t) >= 1 /\ 1 \in 1..Len(t)
<1>1. Len(t) # 0
  BY EmptyIsText, SameText
<1>. QED
  BY <1>1, TextIs

Chars(a) == IF a.sparing THEN {Percent, Plus, Question} ELSE 0..255
HostText(a) == IF First(a.host, Colon) = 0 THEN a.host ELSE <<Open>> \o a.host \o <<Shut>>
PortText(a) == IF a.port = <<>> THEN <<>> ELSE <<Colon>> \o a.port
InfoText(a) ==
  IF a.user = <<>> THEN <<>>
  ELSE Escaped(a.user, Chars(a) \cup {Colon}) \o <<Colon>> \o Escaped(a.password, Chars(a)) \o <<At>>
Marked(a) == IF a.options = <<>> THEN <<>> ELSE <<Question>>
OptionPiece(a, o) ==
  <<o.key, Equals>> \o Escaped(o.value, (Chars(a) \ {Question}) \cup {Ampersand})
OptionPieces(a) ==
  [i \in DOMAIN a.options |->
     (IF i = 1 THEN <<>> ELSE <<Ampersand>>) \o OptionPiece(a, a.options[i])]
OptionText(a) == FlattenSeq(OptionPieces(a))

LEMMA WrittenIs ==
  ASSUME NEW a
  PROVE  Written(a) = <<a.scheme, Colon, Slash, Slash>> \o InfoText(a) \o HostText(a)
                        \o PortText(a) \o Marked(a) \o OptionText(a)
BY DEF Written, Chars, HostText, PortText, InfoText, Marked, OptionPiece, OptionPieces, OptionText

\* A host without brackets is followed by the port.
LEMMA PlainHostPort ==
  ASSUME NEW h, Text(h), h # <<>>, NoneIn(h, Open), NoneIn(h, Colon)
  PROVE  /\ HostPort(h) = [host |-> h, explicit |-> FALSE, port |-> <<>>]
         /\ \A n : Text(n) /\ NoneIn(n, Colon) =>
              HostPort(h \o <<Colon>> \o n) = [host |-> h, explicit |-> TRUE, port |-> n]
<1>1. h[1] # Open /\ Len(h) \in Nat /\ 1 \in 1..Len(h)
  BY NotEmpty DEF NoneIn
<1>2. HostPort(h) = [host |-> h, explicit |-> FALSE, port |-> <<>>]
  <2>1. LastPlace(h, Colon) = 0
    BY LastNone
  <2>. QED
    BY <1>1, <2>1 DEF HostPort
<1>3. ASSUME NEW n, Text(n), NoneIn(n, Colon)
      PROVE  HostPort(h \o <<Colon>> \o n) = [host |-> h, explicit |-> TRUE, port |-> n]
  <2>. DEFINE t == h \o <<Colon>> \o n
              l == Len(h) + 1
  <2>1. Split(t, h, Colon, n) /\ Text(t)
    BY <1>3, Splitting DEF Colon
  <2>. HIDE DEF t
  <2>2. Upto(t, l) = h /\ Behind(t, l) = n /\ LastPlace(t, Colon) = l
    BY <1>3, <2>1, PartsOfSplit, LastAt
  <2>3. First(t, Colon) = l
    <3>1. l \in 1..Len(t) /\ t[l] = Colon /\ \A j \in 1..Len(h) : t[j] = h[j]
      BY <2>1, SplitIs
    <3>2. \A j \in 1..Len(t) : j < l => t[j] # Colon
      BY <1>1, <3>1 DEF NoneIn
    <3>. HIDE DEF l
    <3>. QED
      BY <2>1, <3>1, <3>2, FirstIs
  <2>4. t[1] # Open /\ l # 0
    BY <1>1, <2>1, SplitIs
  <2>. HIDE DEF l
  <2>. QED
    BY <2>2, <2>3, <2>4 DEF HostPort, t
<1>. QED
  BY <1>2, <1>3

LEMMA BracketIs ==
  ASSUME NEW t, t[1] = Open, NEW l \in Nat, First(t, Shut) = l, l # 0, NEW n \in Nat, Len(t) = n, l <= n
  PROVE  /\ l = n => HostPort(t) = [host |-> SubSeq(t, 2, l - 1), explicit |-> FALSE, port |-> <<>>]
         /\ l < n /\ t[l + 1] = Colon =>
              HostPort(t) = [host |-> SubSeq(t, 2, l - 1), explicit |-> TRUE, port |-> Behind(t, l + 1)]
<1>1. ASSUME l = n
      PROVE  HostPort(t) = [host |-> SubSeq(t, 2, l - 1), explicit |-> FALSE, port |-> <<>>]
  BY <1>1 DEF HostPort
<1>2. ASSUME l < n, t[l + 1] = Colon
      PROVE  HostPort(t) = [host |-> SubSeq(t, 2, l - 1), explicit |-> TRUE, port |-> Behind(t, l + 1)]
  <2>1. l # n /\ l \in 1..n - 1
    BY <1>2
  <2>2. HostPort(t) = [host     |-> IF t[l + 1] = Colon THEN SubSeq(t, 2, l - 1) ELSE <<>>,
                       explicit |-> t[l + 1] = Colon, port |-> Behind(t, l + 1)]
    BY <2>1 DEF HostPort
  <2>3. (t[l + 1] = Colon) = TRUE
    BY <1>2
  <2>. QED
    BY <2>2, <2>3
<1>. QED
  BY <1>1, <1>2

\* Brackets around a host with colons.
LEMMA BracketHostPort ==
  ASSUME NEW h, Text(h), NoneIn(h, Shut)
  PROVE  /\ HostPort(<<Open>> \o h \o <<Shut>>) = [host |-> h, explicit |-> FALSE, port |-> <<>>]
         /\ \A n : Text(n) =>
              HostPort(<<Open>> \o h \o <<Shut>> \o (<<Colon>> \o n)) =
                [host |-> h, explicit |-> TRUE, port |-> n]
<1>. DEFINE b == <<Open>> \o h \o <<Shut>>
            l == Len(h) + 2
            o == <<Open>> \o h
<1>1. Text(<<Open>>) /\ Len(<<Open>>) = 1 /\ <<Open>>[1] = Open /\ Text(<<Shut>>) /\ Len(<<Shut>>) = 1
      /\ <<Shut>>[1] = Shut /\ Shut \in Nat /\ Len(h) \in Nat /\ Open # Shut
  BY OneIsText, TextIs DEF Open, Shut
<1>2. Joined(o, <<Open>>, h) /\ Text(o)
  BY <1>1, Joining
<1>3. Len(o) = Len(h) + 1 /\ o[1] = Open /\ \A j \in 1..Len(h) : o[1 + j] = h[j]
  BY <1>1, <1>2, JoinedIs
<1>. HIDE DEF o
<1>4. Joined(b, o, <<Shut>>) /\ Text(b)
  BY <1>1, <1>2, Joining DEF o
<1>. HIDE DEF b
<1>5. /\ Len(b) = l /\ b[l] = Shut /\ b[1] = Open /\ l \in 1..Len(b)
      /\ \A j \in 1..Len(h) : b[1 + j] = h[j]
  <2>1. Len(b) = Len(o) + 1 /\ (\A i \in 1..Len(o) : b[i] = o[i]) /\ b[Len(o) + 1] = <<Shut>>[1]
    BY <1>1, <1>4, JoinedIs
  <2>2. 1 \in 1..Len(o) /\ \A j \in 1..Len(h) : 1 + j \in 1..Len(o)
    BY <1>1, <1>3
  <2>. QED
    BY <1>1, <1>3, <2>1, <2>2
<1>6. \A j \in 1..Len(b) : j < l => b[j] # Shut
  <2>. SUFFICES ASSUME NEW j \in 1..Len(b), j < l PROVE b[j] # Shut
    OBVIOUS
  <2>1. CASE j = 1
    BY <1>1, <1>5, <2>1
  <2>2. CASE j # 1
    <3>1. j - 1 \in 1..Len(h) /\ 1 + (j - 1) = j
      BY <1>1, <1>5, <2>2
    <3>2. b[1 + (j - 1)] = h[j - 1] /\ h[j - 1] # Shut
      BY <1>5, <3>1 DEF NoneIn
    <3>. QED
      BY <3>1, <3>2
  <2>. QED
    BY <2>1, <2>2

\* Whatever begins with b:
<1>7. ASSUME NEW t, Text(t), Len(t) \in Nat, Len(t) >= l, \A j \in 1..l : t[j] = b[j]
      PROVE  /\ t[1] = Open /\ First(t, Shut) = l /\ SubSeq(t, 2, l - 1) = h
             /\ l \in Nat
  <2>1. t[1] = Open /\ t[l] = Shut /\ l \in 1..Len(t)
    BY <1>1, <1>5, <1>7
  <2>2. \A j \in 1..Len(t) : j < l => t[j] # Shut
    BY <1>1, <1>5, <1>6, <1>7
  <2>3. SubSeq(t, 2, l - 1) = h
    <3>. DEFINE s == SubSeq(t, 2, l - 1)
    <3>1. 2 \in Nat /\ l - 1 \in Nat /\ l - 1 <= Len(t) /\ 2 <= (l - 1) + 1 /\ (l - 1) - 2 + 1 = Len(h)
      BY <1>1, <1>7
    <3>2. Text(s) /\ Len(s) = Len(h) /\ \A i \in 1..Len(h) : s[i] = t[2 + i - 1]
      BY <1>7, <3>1, PartIs
    <3>. HIDE DEF s
    <3>3. \A i \in 1..Len(h) : 2 + i - 1 = 1 + i /\ 1 + i \in 1..l
      BY <1>1
    <3>4. \A i \in 1..Len(h) : s[i] = h[i]
      BY <1>5, <1>7, <3>2, <3>3
    <3>. QED
      BY <3>2, <3>4, SameText DEF s
  <2>4. First(t, Shut) = l
    <3>. HIDE DEF l
    <3>. QED
      BY <1>7, <2>1, <2>2, FirstIs
  <2>. QED
    BY <1>1, <2>1, <2>3, <2>4
<1>8. HostPort(b) = [host |-> h, explicit |-> FALSE, port |-> <<>>]
  <2>1. b[1] = Open /\ First(b, Shut) = l /\ SubSeq(b, 2, l - 1) = h
    BY <1>1, <1>4, <1>5, <1>7
  <2>2. \E n \in Nat : l \in Nat /\ l # 0 /\ Len(b) = n /\ l <= n /\ l = n
    BY <1>1, <1>5
  <2>. HIDE DEF l
  <2>3. HostPort(b) = [host |-> SubSeq(b, 2, l - 1), explicit |-> FALSE, port |-> <<>>]
    BY <2>1, <2>2, BracketIs
  <2>. QED
    BY <2>1, <2>3
<1>9. ASSUME NEW n, Text(n)
      PROVE  HostPort(b \o (<<Colon>> \o n)) = [host |-> h, explicit |-> TRUE, port |-> n]
  <2>. DEFINE t == b \o <<Colon>> \o n
  <2>1. Split(t, b, Colon, n) /\ Text(t)
    BY <1>4, <1>9, Splitting DEF Colon
  <2>2. b \o (<<Colon>> \o n) = t
    <3>1. Colon \in Nat
      BY DEF Colon
    <3>. QED
      BY <1>4, <1>9, <3>1, OneIsText, ConcatAssociative DEF Text
  <2>. HIDE DEF t
  <2>3. /\ Len(t) \in Nat /\ l + 1 \in 1..Len(t) /\ t[l + 1] = Colon
        /\ \A j \in 1..l : t[j] = b[j]
    BY <1>5, <2>1, SplitIs, TextIs
  <2>4. Behind(t, l + 1) = n
    BY <1>5, <2>1, PartsOfSplit
  <2>5. t[1] = Open /\ First(t, Shut) = l /\ SubSeq(t, 2, l - 1) = h /\ l \in Nat
    BY <1>1, <1>7, <2>1, <2>3
  <2>6. l < Len(t) /\ l <= Len(t) /\ l # 0
    BY <1>1, <2>3
  <2>. HIDE DEF l
  <2>7. HostPort(t) = [host |-> h, explicit |-> TRUE, port |-> n]
    BY <2>3, <2>4, <2>5, <2>6, BracketIs
  <2>. QED
    BY <2>2, <2>7
<1>. QED
  BY <1>8, <1>9 DEF b

\* Host and port of a written URL are those that were meant.
LEMMA HostPortIs ==
  ASSUME NEW a, Wanted(a)
  PROVE  /\ HostPort(HostText(a) \o PortText(a)) =
              [host |-> a.host, explicit |-> a.port # <<>>, port |-> a.port]
         /\ Text(HostText(a)) /\ Text(PortText(a))
         /\ Text(HostText(a) \o PortText(a)) /\ HostText(a) \o PortText(a) # <<>>
         /\ NoneIn(HostText(a) \o PortText(a), At) /\ NoneIn(HostText(a) \o PortText(a), Question)
<1>. DEFINE h == a.host
            n == a.port
            x == HostText(a)
            y == PortText(a)
<1>1. /\ Text(h) /\ h # <<>> /\ Text(n) /\ \A i \in 1..Len(n) : Digit(n[i])
      /\ NoneIn(h, At) /\ NoneIn(h, Question) /\ NoneIn(h, Open) /\ NoneIn(h, Shut)
  BY DEF Wanted
<1>2. x = IF First(h, Colon) = 0 THEN h ELSE <<Open>> \o h \o <<Shut>>
  BY DEF HostText
<1>3. y = IF n = <<>> THEN <<>> ELSE <<Colon>> \o n
  BY DEF PortText
<1>. HIDE DEF h, n, x, y
<1>4. NoneIn(n, Colon) /\ NoneIn(n, At) /\ NoneIn(n, Question)
  <2>1. \A c : Digit(c) => c # Colon /\ c # At /\ c # Question
    BY DEF Digit, Colon, At, Question
  <2>. QED
    BY <1>1, <2>1 DEF NoneIn
<1>5. /\ Text(<<Open>>) /\ Text(<<Shut>>) /\ Text(<<Colon>>)
      /\ \A c \in {At, Question} : NoneIn(<<Open>>, c) /\ NoneIn(<<Shut>>, c) /\ NoneIn(<<Colon>>, c)
  BY OneIsText DEF Open, Shut, Colon, At, Question, NoneIn
<1>6. Text(x) /\ x # <<>> /\ NoneIn(x, At) /\ NoneIn(x, Question)
  <2>1. CASE First(h, Colon) = 0
    BY <1>1, <1>2, <2>1
  <2>2. CASE First(h, Colon) # 0
    <3>. DEFINE o == <<Open>> \o h
    <3>1. x = o \o <<Shut>>
      BY <1>2, <2>2
    <3>2. Joined(o, <<Open>>, h) /\ Text(o)
      BY <1>1, <1>5, Joining
    <3>3. NoneIn(o, At) /\ NoneIn(o, Question)
      BY <1>1, <1>5, <3>2, NoneInJoined
    <3>. HIDE DEF o
    <3>4. Joined(x, o, <<Shut>>) /\ Text(x)
      BY <1>5, <3>1, <3>2, Joining
    <3>5. Len(x) = Len(o) + Len(<<Shut>>) /\ Len(<<Shut>>) = 1 /\ Len(o) \in Nat
      <4>. DEFINE m == <<Shut>>
      <4>1. Len(m) = 1 /\ Joined(x, o, m)
        BY <3>4
      <4>. HIDE DEF m
      <4>2. Len(x) = Len(o) + Len(m) /\ Len(o) \in Nat
        BY <4>1, JoinedIs
      <4>. QED
        BY <4>1, <4>2 DEF m
    <3>6. x # <<>>
      BY <3>5, EmptyIsText
    <3>. QED
      BY <1>5, <3>3, <3>4, <3>6, NoneInJoined
  <2>. QED
    BY <2>1, <2>2
<1>7. Text(y) /\ NoneIn(y, At) /\ NoneIn(y, Question)
  <2>1. CASE n = <<>>
    BY <1>3, <2>1, EmptyIsText
  <2>2. CASE n # <<>>
    <3>1. Joined(y, <<Colon>>, n) /\ Text(y)
      BY <1>1, <1>3, <1>5, <2>2, Joining
    <3>. QED
      BY <1>4, <1>5, <3>1, NoneInJoined
  <2>. QED
    BY <2>1, <2>2
<1>8. Joined(x \o y, x, y) /\ Text(x \o y)
  BY <1>6, <1>7, Joining
<1>9. NoneIn(x \o y, At) /\ NoneIn(x \o y, Question)
  BY <1>6, <1>7, <1>8, NoneInJoined
<1>10. x \o y # <<>>
  <2>1. Len(x \o y) = Len(x) + Len(y) /\ Len(x) >= 1 /\ Len(x) \in Nat /\ Len(y) \in Nat
    BY <1>6, <1>8, JoinedIs, NotEmpty
  <2>. QED
    BY <2>1, EmptyIsText
<1>11. HostPort(x \o y) = [host |-> h, explicit |-> n # <<>>, port |-> n]
  <2>1. CASE n = <<>>
    <3>1. x \o y = x
      BY <1>3, <1>6, <2>1, ConcatEmptySeq DEF Text
    <3>2. HostPort(x) = [host |-> h, explicit |-> FALSE, port |-> <<>>]
      <4>1. CASE First(h, Colon) = 0
        <5>1. NoneIn(h, Colon)
          BY <1>1, <4>1, FirstFinds
        <5>. QED
          BY <1>1, <1>2, <4>1, <5>1, PlainHostPort
      <4>2. CASE First(h, Colon) # 0
        BY <1>1, <1>2, <4>2, BracketHostPort
      <4>. QED
        BY <4>1, <4>2
    <3>3. (n # <<>>) = FALSE
      BY <2>1
    <3>. QED
      BY <2>1, <3>1, <3>2, <3>3
  <2>2. CASE n # <<>>
    <3>1. y = <<Colon>> \o n
      BY <1>3, <2>2
    <3>2. HostPort(x \o (<<Colon>> \o n)) = [host |-> h, explicit |-> TRUE, port |-> n]
      <4>1. CASE First(h, Colon) = 0
        <5>1. NoneIn(h, Colon) /\ x = h
          BY <1>1, <1>2, <4>1, FirstFinds
        <5>2. h \o (<<Colon>> \o n) = h \o <<Colon>> \o n
          <6>. DEFINE m == <<Colon>>
          <6>1. h \in Seq(Nat) /\ m \in Seq(Nat) /\ n \in Seq(Nat)
            BY <1>1, <1>5 DEF Text
          <6>. HIDE DEF m
          <6>2. (h \o m) \o n = h \o (m \o n)
            BY <6>1, ConcatAssociative
          <6>. QED
            BY <6>2 DEF m
        <5>. QED
          BY <1>1, <1>4, <5>1, <5>2, PlainHostPort
      <4>2. CASE First(h, Colon) # 0
        BY <1>1, <1>2, <4>2, BracketHostPort
      <4>. QED
        BY <4>1, <4>2
    <3>3. (n # <<>>) = TRUE
      BY <2>2
    <3>. QED
      BY <3>1, <3>2, <3>3
  <2>. QED
    BY <2>1, <2>2
<1>. QED
  BY <1>6, <1>7, <1>8, <1>9, <1>10, <1>11 DEF h, n, x, y

\* What parseMailUrl finds of the credentials and of the whole.
LEMMA CharsAre ==
  ASSUME NEW a
  PROVE  /\ Special(Chars(a)) /\ Special(Chars(a) \cup {Colon})
         /\ Special((Chars(a) \ {Question}) \cup {Ampersand})
         /\ Question \in Chars(a)
         /\ Question \notin HexDigits /\ Colon \notin HexDigits /\ At \notin HexDigits
         /\ Ampersand \notin HexDigits
<1>. DEFINE B == 0..255
<1>1. /\ Percent \in B /\ Plus \in B /\ Question \in B /\ Colon \in B /\ Ampersand \in B
      /\ Percent # Question /\ Plus # Question
  BY DEF Percent, Plus, Question, Colon, Ampersand
<1>2. /\ Question \notin HexDigits /\ Colon \notin HexDigits /\ At \notin HexDigits
      /\ Ampersand \notin HexDigits
  BY DEF HexDigits, Question, Colon, At, Ampersand
<1>3. Chars(a) = IF a.sparing THEN {Percent, Plus, Question} ELSE B
  BY DEF Chars
<1>4. \A s : Special(s) <=> s \subseteq B /\ Percent \in s /\ Plus \in s
  BY DEF Special
<1>. HIDE DEF B
<1>5. Chars(a) \subseteq B /\ Percent \in Chars(a) /\ Plus \in Chars(a) /\ Question \in Chars(a)
  BY <1>1, <1>3
<1>. QED
  BY <1>1, <1>2, <1>4, <1>5

LEMMA CredentialsIs ==
  ASSUME NEW a, Wanted(a), NEW y, Text(y), NoneIn(y, At)
  PROVE  /\ Text(InfoText(a)) /\ NoneIn(InfoText(a), Question) /\ Text(InfoText(a) \o y)
         /\ Behind(InfoText(a) \o y, LastPlace(InfoText(a) \o y, At)) = y
         /\ a.user = <<>> => Userinfo(InfoText(a) \o y).username = <<>>
         /\ a.user # <<>> =>
              Userinfo(InfoText(a) \o y) = [username |-> a.user, password |-> a.password]
<1>. DEFINE u == a.user
            p == a.password
            g == InfoText(a)
            eu == Escaped(u, Chars(a) \cup {Colon})
            ep == Escaped(p, Chars(a))
            w == eu \o <<Colon>> \o ep
            m == <<At>>
            t == g \o y
<1>1. Text(u) /\ Text(p) /\ At \in Nat /\ Colon \in Nat /\ Question \in Nat
  BY DEF Wanted, At, Colon, Question
<1>2. g = IF u = <<>> THEN <<>> ELSE w \o m
  BY DEF InfoText
<1>3. /\ Text(eu) /\ NoneIn(eu, Question) /\ NoneIn(eu, Colon) /\ percentDecode(eu) = u
      /\ Text(ep) /\ NoneIn(ep, Question) /\ percentDecode(ep) = p
  <2>1. Question # Percent /\ Colon # Percent
    BY DEF Question, Colon, Percent
  <2>2. Question \in Chars(a) \cup {Colon} /\ Colon \in Chars(a) \cup {Colon}
    BY CharsAre
  <2>. HIDE DEF u, p
  <2>. QED
    BY <1>1, <2>1, <2>2, CharsAre, NotEscaped, DecodesAsEscaped
<1>. HIDE DEF u, p, g, eu, ep
<1>4. Split(w, eu, Colon, ep) /\ Text(w)
  BY <1>1, <1>3, Splitting
<1>5. NoneIn(w, Question) /\ Cut(w, Colon) = [before |-> eu, behind |-> ep, found |-> TRUE]
  <2>1. Question # Colon
    BY DEF Question, Colon
  <2>. HIDE DEF w
  <2>. QED
    BY <1>3, <1>4, <2>1, NoneInSplit, CutAt
<1>. HIDE DEF w
<1>6. Text(m) /\ NoneIn(m, Question)
  BY OneIsText DEF At, Question, NoneIn
<1>7. CASE u = <<>>
  <2>1. g = <<>> /\ t = y
    BY <1>2, <1>7, ConcatEmptySeq DEF Text
  <2>2. LastPlace(t, At) = 0
    BY <2>1, LastNone
  <2>3. Behind(t, 0) = y
    <3>1. Len(y) \in Nat /\ 0 \in 0..Len(y)
      BY TextIs
    <3>2. Text(Behind(y, 0)) /\ Len(Behind(y, 0)) = Len(y) /\ \A j \in 1..Len(y) : Behind(y, 0)[j] = y[j]
      BY <3>1, BehindIs
    <3>. QED
      BY <2>1, <3>2, SameText
  <2>4. Userinfo(t).username = <<>>
    BY <2>2 DEF Userinfo
  <2>5. Behind(t, LastPlace(t, At)) = y
    BY <2>2, <2>3
  <2>. QED
    BY <1>7, <2>1, <2>4, <2>5, EmptyIsText DEF g, u
<1>8. CASE u # <<>>
  <2>1. g = w \o m
    BY <1>2, <1>8
  <2>2. Text(g) /\ NoneIn(g, Question)
    <3>1. Joined(g, w, m) /\ Text(g)
      BY <1>4, <1>6, <2>1, Joining
    <3>. QED
      BY <1>5, <1>6, <3>1, NoneInJoined
  <2>3. Split(t, w, At, y) /\ Text(t)
    BY <1>1, <1>4, <2>1, Splitting
  <2>4. Len(w) \in Nat
    BY <1>4, TextIs
  <2>. DEFINE n == Len(w) + 1
  <2>. HIDE DEF t
  <2>5. LastPlace(t, At) = n /\ Upto(t, n) = w /\ Behind(t, n) = y
    BY <2>3, LastAt, PartsOfSplit
  <2>6. n # 0
    BY <2>4
  <2>. HIDE DEF n
  <2>7. Userinfo(t) = [username |-> percentDecode(eu), password |-> percentDecode(ep)]
    <3>1. Userinfo(t) = [username |-> percentDecode(Cut(w, Colon).before),
                         password |-> percentDecode(Cut(w, Colon).behind)]
      BY <2>5, <2>6 DEF Userinfo
    <3>. QED
      BY <1>5, <3>1
  <2>. QED
    BY <1>3, <1>8, <2>2, <2>3, <2>5, <2>7 DEF g, u, p, t
<1>. QED
  BY <1>7, <1>8

LEMMA TwoIs ==
  ASSUME NEW x \in Nat, NEW y \in Nat PROVE <<x, y>> = <<x>> \o <<y>>
<1>. DEFINE p == <<x>>
            q == <<y>>
            t == <<x, y>>
            s == p \o q
<1>1. Text(p) /\ Len(p) = 1 /\ p[1] = x /\ Text(q) /\ Len(q) = 1 /\ q[1] = y
  BY OneIsText
<1>2. Text(t) /\ Len(t) = 2 /\ t[1] = x /\ t[2] = y
  BY DEF Text
<1>. HIDE DEF p, q, t
<1>3. Joined(s, p, q)
  BY <1>1, Joining
<1>. HIDE DEF s
<1>4. Text(s) /\ Len(s) = 2 /\ s[1] = x /\ s[2] = y
  <2>1. 1 \in 1..Len(p) /\ 1 \in 1..Len(q)
    BY <1>1
  <2>2. Text(s) /\ Len(s) = Len(p) + Len(q) /\ s[1] = p[1] /\ s[Len(p) + 1] = q[1]
    BY <1>3, <2>1, JoinedIs
  <2>. QED
    BY <1>1, <2>2
<1>5. \A i \in 1..2 : t[i] = s[i]
  <2>. SUFFICES ASSUME NEW i \in 1..2 PROVE t[i] = s[i]
    OBVIOUS
  <2>1. i = 1 \/ i = 2
    OBVIOUS
  <2>. QED
    BY <1>2, <1>4, <2>1
<1>6. t = s
  BY <1>2, <1>4, <1>5, SameText
<1>. QED
  BY <1>6 DEF t, s, p, q

\* The options of a URL, one by one.
Optional(a) ==
  /\ Len(a.options) \in Nat /\ DOMAIN a.options = 1..Len(a.options)
  /\ a.options = <<>> <=> Len(a.options) = 0
  /\ \A i \in 1..Len(a.options) :
       /\ a.options[i].key \in Nat /\ a.options[i].key # Equals /\ a.options[i].key # Ampersand
       /\ Text(a.options[i].value)

LEMMA OptionalIs ==
  ASSUME NEW a \in Asked PROVE Optional(a)
<1>. DEFINE S == [key : Nat \ {Equals, Ampersand}, value : Seq(Nat)]
            o == a.options
<1>1. o \in Seq(S)
  <2>1. a \in [scheme : Schemes, user : Seq(1..255), password : Seq(0..255), host : Seq(Nat),
               port : Seq(48..57), sparing : BOOLEAN, options : Seq(S)]
    BY LoginAssumption DEF LoginAssumption
  <2>. HIDE DEF S
  <2>. QED
    BY <2>1
<1>2. \A e \in S : /\ e.key \in Nat /\ e.key # Equals /\ e.key # Ampersand
                   /\ Text(e.value)
  BY DEF Text
<1>. HIDE DEF S, o
<1>3. Len(o) \in Nat /\ DOMAIN o = 1..Len(o) /\ \A i \in 1..Len(o) : o[i] \in S
  BY <1>1, LenProperties, ElementOfSeq
<1>4. o = <<>> <=> Len(o) = 0
  BY <1>1, EmptySeq
<1>. QED
  BY <1>2, <1>3, <1>4 DEF Optional, o

LEMMA OptionPieceIs ==
  ASSUME NEW a, Optional(a), NEW i \in 1..Len(a.options)
  PROVE  LET o == a.options[i]
             e == Escaped(o.value, (Chars(a) \ {Question}) \cup {Ampersand})
             k == <<o.key>>
         IN  /\ Split(OptionPiece(a, o), k, Equals, e) /\ NoneIn(OptionPiece(a, o), Ampersand)
             /\ NoneIn(k, Equals) /\ percentDecode(e) = o.value
             /\ Text(OptionPieces(a)[i])
             /\ i = 1 => OptionPieces(a)[i] = OptionPiece(a, o)
             /\ i # 1 => OptionPieces(a)[i] = <<Ampersand>> \o OptionPiece(a, o)
<1>. DEFINE o == a.options[i]
            s == (Chars(a) \ {Question}) \cup {Ampersand}
            v == o.value
            e == Escaped(v, s)
            c == o.key
            k == <<c>>
            q == <<Equals>>
            x == OptionPiece(a, o)
            A == <<Ampersand>>
<1>1. c \in Nat /\ c # Equals /\ c # Ampersand /\ Text(v) /\ i \in DOMAIN a.options
  BY DEF Optional
<1>2. Equals \in Nat /\ Ampersand \in Nat /\ Equals # Ampersand /\ Ampersand # Percent
  BY DEF Equals, Ampersand, Percent
<1>3. Special(s) /\ Ampersand \in s /\ Ampersand \notin HexDigits
  BY CharsAre
<1>4. x = <<c, Equals>> \o e
  BY DEF OptionPiece
<1>5. OptionPieces(a)[i] = (IF i = 1 THEN <<>> ELSE A) \o x
  BY <1>1 DEF OptionPieces
<1>. HIDE DEF v, s, c, x, o, k
<1>6. Text(e) /\ NoneIn(e, Ampersand) /\ percentDecode(e) = v
  BY <1>1, <1>2, <1>3, NotEscaped, DecodesAsEscaped
<1>. HIDE DEF e
<1>7. Text(k) /\ NoneIn(k, Equals) /\ NoneIn(k, Ampersand)
  BY <1>1, OneIsText DEF NoneIn, k
<1>8. <<c, Equals>> = k \o q
  BY <1>1, <1>2, TwoIs DEF k
<1>9. Split(x, k, Equals, e) /\ Text(x)
  BY <1>2, <1>4, <1>6, <1>7, <1>8, Splitting
<1>10. NoneIn(x, Ampersand)
  BY <1>2, <1>6, <1>7, <1>9, NoneInSplit
<1>11. Text(A)
  BY <1>2, OneIsText
<1>. HIDE DEF A
<1>12. Text(OptionPieces(a)[i]) /\ (i = 1 => OptionPieces(a)[i] = x)
       /\ (i # 1 => OptionPieces(a)[i] = A \o x)
  <2>1. CASE i = 1
    <3>1. <<>> \o x = x
      BY <1>9, ConcatEmptySeq DEF Text
    <3>. QED
      BY <1>5, <1>9, <2>1, <3>1
  <2>2. CASE i # 1
    <3>1. OptionPieces(a)[i] = A \o x
      BY <1>5, <2>2
    <3>. QED
      BY <1>9, <1>11, <2>2, <3>1, Joining
  <2>. QED
    BY <2>1, <2>2
<1>. QED
  BY <1>6, <1>7, <1>9, <1>10, <1>12 DEF o, v, s, e, c, k, x, A

LEMMA OptionTextIs ==
  ASSUME NEW a, Optional(a)
  PROVE  /\ Pieces(OptionPieces(a)) /\ Len(OptionPieces(a)) = Len(a.options)
         /\ Text(OptionText(a)) /\ (a.options = <<>> => OptionText(a) = <<>>)
<1>. DEFINE ws == OptionPieces(a)
            n  == Len(a.options)
<1>1. n \in Nat /\ DOMAIN a.options = 1..n /\ (a.options = <<>> <=> n = 0)
  BY DEF Optional
<1>2. \A i \in 1..n : Text(ws[i])
  BY OptionPieceIs
<1>3. Len(ws) = n /\ DOMAIN ws = 1..n
  <2>1. DOMAIN ws = 1..n
    BY <1>1 DEF OptionPieces
  <2>2. ws = [i \in 1..n |-> ws[i]]
    BY <1>1 DEF OptionPieces
  <2>. HIDE DEF ws, n
  <2>3. ws \in Seq({ws[i] : i \in 1..n})
    BY <1>1, <2>2
  <2>4. Len(ws) = n
    <3>1. Len(ws) \in Nat /\ DOMAIN ws = 1..Len(ws)
      BY <2>3, LenProperties
    <3>. QED
      BY <1>1, <2>1, <3>1
  <2>. QED
    BY <2>1, <2>4
<1>. HIDE DEF ws, n
<1>4. Pieces(ws)
  BY <1>1, <1>2, <1>3 DEF Pieces
<1>5. PICK b : Laid(FlattenSeq(ws), ws, b)
  BY <1>4, FlattenIsLaid
<1>6. Text(FlattenSeq(ws)) /\ (n = 0 => Len(FlattenSeq(ws)) = 0)
  BY <1>3, <1>5 DEF Laid, Offsets
<1>7. n = 0 => FlattenSeq(ws) = <<>>
  BY <1>6, EmptyIsText, SameText
<1>. QED
  BY <1>1, <1>3, <1>4, <1>6, <1>7 DEF ws, n, OptionText

\* A URL behind a scheme of one symbol.
BehindScheme(u, s, y) == u = <<s, Colon, Slash, Slash>> \o y

LEMMA StartsAre ==
  ASSUME NEW s \in Schemes, NEW y, Text(y), NEW u, BehindScheme(u, s, y)
  PROVE  /\ Text(u) /\ u[1] = s /\ Starts(u) # {} /\ 1 \notin Starts(u) /\ Scheme(u) = <<s>>
         /\ SubSeq(u, Min(Starts(u)) + 3, Len(u)) = y
<1>. DEFINE p == <<s, Colon, Slash, Slash>>
<1>1. s \in Nat /\ s # Colon /\ Colon \in Nat /\ Slash \in Nat
  BY DEF Schemes, Colon, Slash
<1>2. Text(p) /\ Len(p) = 4 /\ p[1] = s /\ p[2] = Colon /\ p[3] = Slash /\ p[4] = Slash
  BY <1>1 DEF Text
<1>. HIDE DEF p
<1>3. Joined(u, p, y) /\ Text(u)
  BY <1>2, Joining DEF p, BehindScheme
<1>4. /\ Len(u) = 4 + Len(y) /\ Len(y) \in Nat
      /\ \A i \in 1..4 : u[i] = p[i]
      /\ \A i \in 1..Len(y) : u[4 + i] = y[i]
  <2>1. /\ Len(u) = Len(p) + Len(y) /\ Len(y) \in Nat /\ \A i \in 1..Len(p) : u[i] = p[i]
        /\ \A i \in 1..Len(y) : u[Len(p) + i] = y[i]
    BY <1>3, JoinedIs
  <2>2. 1..4 = 1..Len(p)
    BY <1>2
  <2>. QED
    BY <1>2, <2>1, <2>2
<1>. DEFINE at(i) == SubSeq(u, i, i + 2)
            m == <<Colon, Slash, Slash>>
            S == Starts(u)
<1>5. u[1] = s /\ u[2] = Colon /\ u[3] = Slash /\ u[4] = Slash
  BY <1>2, <1>4
<1>6. S = {i \in 1 .. Len(u) - 2 : at(i) = m}
  BY DEF Starts
<1>7. Text(m) /\ Len(m) = 3 /\ m[1] = Colon /\ m[2] = Slash /\ m[3] = Slash
  BY <1>1, ThreeIsText
<1>8. ASSUME NEW i \in {1, 2}
      PROVE  Text(at(i)) /\ Len(at(i)) = 3 /\ \A j \in 1..3 : at(i)[j] = u[i + j - 1]
  <2>1. i \in Nat /\ i + 2 \in Nat /\ i >= 1 /\ i + 2 <= Len(u) /\ i <= (i + 2) + 1 /\ (i + 2) - i + 1 = 3
    BY <1>4, <1>8
  <2>. QED
    BY <1>3, <2>1, PartIs
<1>. HIDE DEF at, m, S
<1>9. at(1) # m
  <2>1. at(1)[1] = s
    BY <1>5, <1>8
  <2>. QED
    BY <1>1, <1>7, <2>1
<1>10. at(2) = m
  <2>1. at(2)[1] = u[2] /\ at(2)[2] = u[3] /\ at(2)[3] = u[4]
    BY <1>8
  <2>2. \A j \in 1..3 : at(2)[j] = m[j]
    <3>. SUFFICES ASSUME NEW j \in 1..3 PROVE at(2)[j] = m[j]
      OBVIOUS
    <3>1. j = 1 \/ j = 2 \/ j = 3
      OBVIOUS
    <3>. QED
      BY <1>5, <1>7, <2>1, <3>1
  <2>. QED
    BY <1>7, <1>8, <2>2, SameText
<1>11. S \subseteq Nat /\ 2 \in S /\ 1 \notin S /\ \A x \in S : 2 <= x
  BY <1>4, <1>6, <1>9, <1>10
<1>12. Min(S) = 2
  BY <1>11, MinIs
<1>13. Upto(u, 2) = <<s>>
  <2>1. 2 \in 1..(Len(u) + 1)
    BY <1>4
  <2>5. Text(Upto(u, 2)) /\ Len(Upto(u, 2)) = 2 - 1 /\ \A j \in 1..(2 - 1) : Upto(u, 2)[j] = u[j]
    BY <1>3, <2>1, UptoIs
  <2>6. 2 - 1 = 1 /\ 1 \in 1..1
    OBVIOUS
  <2>2. Text(Upto(u, 2)) /\ Len(Upto(u, 2)) = 1 /\ Upto(u, 2)[1] = s
    BY <1>5, <2>5, <2>6
  <2>. DEFINE o == <<s>>
  <2>3. Text(o) /\ Len(o) = 1 /\ o[1] = s
    BY <1>1, OneIsText
  <2>. HIDE DEF o
  <2>4. Upto(u, 2) = o
    BY <2>2, <2>3, SameText
  <2>. QED
    BY <2>4 DEF o
<1>14. SubSeq(u, 5, Len(u)) = y
  <2>. DEFINE r == SubSeq(u, 5, Len(u))
  <2>2. 5 \in Nat /\ Len(u) \in Nat /\ Len(u) <= Len(u) /\ 5 <= Len(u) + 1 /\ 5 >= 1
        /\ Len(u) - 5 + 1 = Len(y)
    BY <1>4
  <2>1. /\ Text(r) /\ Len(r) = Len(u) - 5 + 1
        /\ \A j \in 1..(Len(u) - 5 + 1) : r[j] = u[5 + j - 1]
    BY <1>3, <2>2, PartIs
  <2>3. Text(r) /\ Len(r) = Len(y) /\ \A j \in 1..Len(y) : r[j] = u[5 + j - 1]
    BY <2>1, <2>2
  <2>. HIDE DEF r
  <2>4. \A j \in 1..Len(y) : 5 + j - 1 = 4 + j
    BY <1>4
  <2>5. \A j \in 1..Len(y) : r[j] = y[j]
    BY <1>4, <2>3, <2>4
  <2>6. r = y
    BY <2>3, <2>5, SameText
  <2>. QED
    BY <2>6 DEF r
<1>15. Min(S) + 3 = 5
  BY <1>12
<1>. QED
  BY <1>3, <1>5, <1>11, <1>12, <1>13, <1>14, <1>15 DEF S, Scheme

Then(p, q) == p \o q

LEMMA Associative ==
  ASSUME NEW p, Text(p), NEW q, Text(q), NEW r, Text(r)
  PROVE  Then(Then(p, q), r) = Then(p, Then(q, r)) /\ Text(Then(p, q)) /\ Text(Then(q, r))
<1>1. p \o q \o r = p \o (q \o r)
  BY ConcatAssociative DEF Text
<1>2. Text(p \o q) /\ Text(q \o r)
  BY Joining
<1>. QED
  BY <1>1, <1>2, Zenon DEF Then

LEMMA Regrouped ==
  ASSUME NEW s, Text(s), NEW i, Text(i), NEW h, Text(h), NEW p, Text(p), NEW m, Text(m),
         NEW o, Text(o)
  PROVE  Then(Then(Then(Then(Then(s, i), h), p), m), o) =
           Then(s, Then(Then(Then(i, Then(h, p)), m), o))
<1>. DEFINE x == Then(h, p)
            b == Then(i, x)
            c == Then(b, m)
<1>1. Then(Then(Then(s, i), h), p) = Then(Then(s, i), x) /\ Text(Then(s, i)) /\ Text(x)
  <2>1. Text(Then(s, i))
    BY Associative
  <2>. QED
    BY <2>1, Associative
<1>. HIDE DEF x
<1>2. Then(Then(s, i), x) = Then(s, b) /\ Text(b)
  BY <1>1, Associative
<1>. HIDE DEF b
<1>3. Then(Then(s, b), m) = Then(s, c) /\ Text(c)
  BY <1>2, Associative
<1>. HIDE DEF c
<1>4. Then(Then(s, c), o) = Then(s, Then(c, o))
  BY <1>3, Associative
<1>5. Then(Then(Then(Then(Then(s, i), h), p), m), o) = Then(s, Then(c, o))
  BY <1>1, <1>2, <1>3, <1>4, Zenon
<1>. QED
  BY <1>5, Zenon DEF c, b, x

\* What parseMailUrl finds in a URL as users write them.
LEMMA WrittenHas ==
  ASSUME NEW a, Wanted(a), Optional(a), NEW u, u = Written(a)
  PROVE  /\ Text(u) /\ u[1] = a.scheme /\ Starts(u) # {} /\ 1 \notin Starts(u)
         /\ Scheme(u) = <<a.scheme>>
         /\ Rest(u).before = InfoText(a) \o (HostText(a) \o PortText(a))
         /\ Rest(u).behind = OptionText(a)
<1>. DEFINE s == <<a.scheme, Colon, Slash, Slash>>
            i == InfoText(a)
            h == HostText(a)
            p == PortText(a)
            m == Marked(a)
            o == OptionText(a)
            b == i \o (h \o p)
            y == b \o m \o o
            q == <<Question>>
<1>1. /\ Text(h) /\ Text(p) /\ Text(h \o p) /\ NoneIn(h \o p, At) /\ NoneIn(h \o p, Question)
  BY HostPortIs
<1>2. Text(i) /\ NoneIn(i, Question) /\ Text(b)
  BY <1>1, CredentialsIs
<1>3. Text(o) /\ (a.options = <<>> => o = <<>>)
  BY OptionTextIs
<1>4. a.scheme \in Schemes /\ Text(s)
  <2>1. a.scheme \in Schemes
    BY DEF Wanted
  <2>2. a.scheme \in Nat
    BY <2>1 DEF Schemes
  <2>. QED
    BY <2>1, <2>2 DEF Text, Colon, Slash
<1>5. Text(q)
  BY OneIsText DEF Question
<1>6. m = IF a.options = <<>> THEN <<>> ELSE q
  BY DEF Marked
<1>. HIDE DEF i, h, p, m, o, q
<1>7. Text(m)
  BY <1>5, <1>6, EmptyIsText
<1>8. u = s \o i \o h \o p \o m \o o
  BY WrittenIs DEF i, h, p, m, o
<1>9. u = s \o y
  <2>. HIDE DEF s
  <2>1. Text(s) /\ Text(i) /\ Text(h) /\ Text(p) /\ Text(m) /\ Text(o)
    BY <1>1, <1>2, <1>3, <1>4, <1>7
  <2>2. Then(Then(Then(Then(Then(s, i), h), p), m), o) =
          Then(s, Then(Then(Then(i, Then(h, p)), m), o))
    BY <2>1, Regrouped
  <2>3. s \o i \o h \o p \o m \o o = s \o (i \o (h \o p) \o m \o o)
    BY <2>2, Zenon DEF Then
  <2>. QED
    BY <1>8, <2>3, Zenon
<1>10. NoneIn(b, Question)
  <2>1. Joined(b, i, h \o p)
    BY <1>1, <1>2, Joining
  <2>. QED
    BY <1>1, <1>2, <2>1, NoneInJoined
<1>. HIDE DEF b
<1>11. Text(y) /\ Cut(y, Question).before = b /\ Cut(y, Question).behind = o
  <2>1. CASE a.options = <<>>
    <3>1. m = <<>> /\ o = <<>>
      BY <1>3, <1>6, <2>1
    <3>2. y = b
      BY <1>2, <3>1, ConcatEmptySeq DEF Text
    <3>3. Cut(b, Question) = [before |-> b, behind |-> <<>>, found |-> FALSE]
      BY <1>10, CutNone
    <3>. QED
      BY <1>2, <3>1, <3>2, <3>3
  <2>2. CASE a.options # <<>>
    <3>1. m = <<Question>>
      BY <1>6, <2>2 DEF q
    <3>2. Split(y, b, Question, o) /\ Text(y)
      <4>1. Question \in Nat
        BY DEF Question
      <4>. QED
        BY <1>2, <1>3, <3>1, <4>1, Splitting
    <3>. HIDE DEF y
    <3>3. Cut(y, Question) = [before |-> b, behind |-> o, found |-> TRUE]
      BY <1>10, <3>2, CutAt
    <3>. QED
      BY <3>2, <3>3
  <2>. QED
    BY <2>1, <2>2
<1>. HIDE DEF y
<1>12. /\ Text(u) /\ u[1] = a.scheme /\ Starts(u) # {} /\ 1 \notin Starts(u)
       /\ Scheme(u) = <<a.scheme>> /\ SubSeq(u, Min(Starts(u)) + 3, Len(u)) = y
  <2>. DEFINE c == a.scheme
  <2>1. c \in Schemes /\ BehindScheme(u, c, y)
    BY <1>4, <1>9 DEF BehindScheme
  <2>. HIDE DEF c
  <2>2. /\ Text(u) /\ u[1] = c /\ Starts(u) # {} /\ 1 \notin Starts(u)
        /\ Scheme(u) = <<c>> /\ SubSeq(u, Min(Starts(u)) + 3, Len(u)) = y
    BY <1>11, <2>1, StartsAre
  <2>. QED
    BY <2>2 DEF c
<1>13. Rest(u) = Cut(y, Question)
  BY <1>12 DEF Rest
<1>. QED
  BY <1>11, <1>12, <1>13 DEF b, i, h, p, o

\* A URL as users write them is refused for its port alone.
LEMMA ParsesAsWritten ==
  ASSUME NEW a, Wanted(a), Optional(a), NEW u, u = Written(a)
  PROVE  /\ Text(u)
         /\ Accepts(u) \/ (~Accepts(u) /\ parseMailUrl(u) = Refused("InvalidPort")
                             /\ Number(a.port) \notin PortNumbers)
         /\ Accepts(u) =>
              /\ Endpoint(u).host = a.host /\ Endpoint(u).mode = schemeToMode[a.scheme]
              /\ Endpoint(u).port = IF a.port = <<>> THEN defaultPort[a.scheme] ELSE Number(a.port)
              /\ a.user = <<>> => Endpoint(u).userinfo.username = <<>>
              /\ a.user # <<>> =>
                   Endpoint(u).userinfo = [username |-> a.user, password |-> a.password]
              /\ Endpoint(u).tls = applyQuery([ca_path |-> <<>>, server_name |-> a.host,
                                               verify_peer |-> FALSE], OptionText(a))
<1>. DEFINE y == HostText(a) \o PortText(a)
            n == a.port
            x == n # <<>>
<1>1. /\ HostPort(y) = [host |-> a.host, explicit |-> x, port |-> n]
      /\ Text(y) /\ y # <<>> /\ NoneIn(y, At)
  BY HostPortIs
<1>2. /\ Text(u) /\ u[1] = a.scheme /\ Starts(u) # {} /\ 1 \notin Starts(u)
      /\ Scheme(u) = <<a.scheme>> /\ a.scheme \in Schemes
      /\ Rest(u).before = InfoText(a) \o y /\ Rest(u).behind = OptionText(a)
  BY WrittenHas DEF Wanted
<1>. DEFINE b == Rest(u).before
<1>. HIDE DEF y, n, x
<1>3. /\ Behind(b, LastPlace(b, At)) = y
      /\ a.user = <<>> => Userinfo(b).username = <<>>
      /\ a.user # <<>> => Userinfo(b) = [username |-> a.user, password |-> a.password]
  BY <1>1, <1>2, CredentialsIs
<1>. HIDE DEF b
<1>4. HostPortText(u) = y /\ Parts(u) = [host |-> a.host, explicit |-> x, port |-> n]
  BY <1>1, <1>3 DEF HostPortText, Parts, b
<1>5. Parts(u).host = a.host /\ Parts(u).explicit = x /\ Parts(u).port = n
  BY <1>4
<1>6. a.host # <<>> /\ x \in BOOLEAN /\ (x <=> n # <<>>) /\ Text(n) /\ \A i \in 1..Len(n) : Digit(n[i])
  BY DEF Wanted, n, x
<1>7. Accepts(u) <=> (x => Port(n))
  <2>1. Scheme(u) \in {<<s>> : s \in Schemes}
    BY <1>2
  <2>. QED
    BY <1>1, <1>2, <1>4, <1>5, <1>6, <2>1, Zenon DEF Accepts, HostOf
<1>8. x /\ ~Port(n) => Number(n) \notin PortNumbers
  <2>1. DOMAIN n = 1..Len(n)
    BY <1>6, TextIs
  <2>. QED
    BY <1>6, <2>1 DEF Port
<1>9. ~Accepts(u) => parseMailUrl(u) = Refused("InvalidPort") /\ Number(n) \notin PortNumbers
  <2>. SUFFICES ASSUME ~Accepts(u)
                PROVE  parseMailUrl(u) = Refused("InvalidPort") /\ Number(n) \notin PortNumbers
    OBVIOUS
  <2>1. x /\ ~Port(n)
    BY <1>7
  <2>2. ~(Starts(u) = {} \/ 1 \in Starts(u)) /\ Scheme(u) \in {<<s>> : s \in Schemes}
    BY <1>2
  <2>3. HostPortText(u) # <<>> /\ Parts(u).explicit /\ ~Port(Parts(u).port)
    BY <1>1, <1>4, <1>5, <2>1
  <2>4. parseMailUrl(u) = Refused("InvalidPort")
    BY <2>2, <2>3, ParseIs
  <2>. QED
    BY <1>8, <2>1, <2>4
<1>10. Scheme(u)[1] = a.scheme
  BY <1>2
<1>11. /\ Endpoint(u).host = a.host /\ Endpoint(u).mode = schemeToMode[a.scheme]
       /\ Endpoint(u).port = IF n = <<>> THEN defaultPort[a.scheme] ELSE Number(n)
       /\ Endpoint(u).userinfo = Userinfo(b)
       /\ Endpoint(u).tls = applyQuery([ca_path |-> <<>>, server_name |-> a.host,
                                        verify_peer |-> FALSE], OptionText(a))
  <2>1. Endpoint(u).host = Parts(u).host /\ Endpoint(u).mode = schemeToMode[Scheme(u)[1]]
        /\ Endpoint(u).port = (IF Parts(u).explicit THEN Number(Parts(u).port) ELSE defaultPort[Scheme(u)[1]])
        /\ Endpoint(u).userinfo = Userinfo(Rest(u).before)
        /\ Endpoint(u).tls = applyQuery([ca_path |-> <<>>, server_name |-> Parts(u).host,
                                         verify_peer |-> FALSE], Rest(u).behind)
    BY DEF Endpoint
  <2>2. Endpoint(u).port = IF n = <<>> THEN defaultPort[a.scheme] ELSE Number(n)
    <3>1. CASE x
      BY <1>5, <1>6, <2>1, <3>1
    <3>2. CASE ~x
      BY <1>5, <1>6, <1>10, <2>1, <3>2
    <3>. QED
      BY <3>1, <3>2
  <2>3. Endpoint(u).tls = applyQuery([ca_path |-> <<>>, server_name |-> a.host,
                                      verify_peer |-> FALSE], OptionText(a))
    BY <1>2, <1>5, <2>1
  <2>. QED
    BY <1>5, <1>10, <2>1, <2>2, <2>3 DEF b
<1>. QED
  BY <1>2, <1>3, <1>9, <1>11 DEF n
-----------------------------------------------------------------------------
(* What applyQuery makes of the options of a URL.                          *)

\* The i-th option begins behind Start and ends at b[i].
Start(b, i) == IF i = 1 THEN 0 ELSE b[i - 1] + 1
Option(a, i) == OptionPiece(a, a.options[i])
Value(a, i) == Escaped(a.options[i].value, (Chars(a) \ {Question}) \cup {Ampersand})
Count(a) == Len(a.options)

Placed(q, a, b) ==
  /\ Count(a) \in Nat /\ Count(a) >= 1 /\ Text(q) /\ Len(q) = b[Count(a)]
  /\ \A i \in 1..Count(a) :
       /\ b[i] \in Nat /\ Start(b, i) \in Nat /\ Text(Option(a, i)) /\ Len(Option(a, i)) >= 2
       /\ b[i] = Start(b, i) + Len(Option(a, i))
       /\ \A j \in 1..Len(Option(a, i)) : q[Start(b, i) + j] = Option(a, i)[j]
       /\ i # 1 => q[Start(b, i)] = Ampersand
       /\ i < Count(a) => Start(b, i + 1) = b[i] + 1
  /\ \A i \in 1..Count(a) : \A k \in i..Count(a) : b[i] <= b[k] /\ (i < k => b[i] < Start(b, k))
  /\ \A p \in 1..Len(q) : q[p] = Ampersand => \E i \in 1..Count(a) : i # 1 /\ p = Start(b, i)

LEMMA OptionIs ==
  ASSUME NEW a, Optional(a), NEW i \in 1..Count(a)
  PROVE  /\ Text(Option(a, i)) /\ Len(Option(a, i)) >= 2 /\ NoneIn(Option(a, i), Ampersand)
         /\ Split(Option(a, i), <<a.options[i].key>>, Equals, Value(a, i))
         /\ NoneIn(<<a.options[i].key>>, Equals) /\ percentDecode(Value(a, i)) = a.options[i].value
         /\ Text(OptionPieces(a)[i])
         /\ i = 1 => OptionPieces(a)[i] = Option(a, i)
         /\ i # 1 => OptionPieces(a)[i] = <<Ampersand>> \o Option(a, i)
<1>. DEFINE k == <<a.options[i].key>>
            x == Option(a, i)
<1>1. /\ Split(x, k, Equals, Value(a, i)) /\ NoneIn(x, Ampersand)
      /\ NoneIn(k, Equals) /\ percentDecode(Value(a, i)) = a.options[i].value
      /\ Text(OptionPieces(a)[i])
      /\ i = 1 => OptionPieces(a)[i] = x
      /\ i # 1 => OptionPieces(a)[i] = <<Ampersand>> \o x
  BY OptionPieceIs DEF Option, Value, Count
<1>2. Len(k) = 1
  OBVIOUS
<1>. HIDE DEF k, x
<1>3. Text(x) /\ Len(x) = Len(k) + 1 + Len(Value(a, i)) /\ Len(Value(a, i)) \in Nat
  BY <1>1, SplitIs
<1>. QED
  BY <1>1, <1>2, <1>3 DEF k, x

LEMMA OptionsPlaced ==
  ASSUME NEW a, Optional(a), a.options # <<>>
  PROVE  \E b : Placed(OptionText(a), a, b)
<1>. DEFINE ws == OptionPieces(a)
            n  == Count(a)
            q  == OptionText(a)
            x(i) == Option(a, i)
<1>1. Pieces(ws) /\ Len(ws) = n /\ Text(q)
  BY OptionTextIs DEF Count
<1>2. n \in Nat /\ n >= 1
  BY DEF Optional, Count
<1>3. PICK b : Laid(q, ws, b)
  BY <1>1, FlattenIsLaid DEF OptionText
<1>4. /\ Offsets(b, ws) /\ Len(q) = b[n]
      /\ \A k \in 1..n : \A j \in 1..Len(ws[k]) : q[b[k - 1] + j] = ws[k][j]
  BY <1>1, <1>3 DEF Laid
<1>5. b[0] = 0 /\ (\A k \in 0..n : b[k] \in Nat) /\ \A k \in 1..n : b[k] = b[k - 1] + Len(ws[k])
  BY <1>1, <1>4 DEF Offsets
<1>6. \A i \in 1..n : /\ Text(x(i)) /\ Len(x(i)) \in Nat /\ Len(x(i)) >= 2
                      /\ \A j \in 1..Len(x(i)) : x(i)[j] # Ampersand
  BY OptionIs, TextIs DEF NoneIn
<1>. HIDE DEF x, n, q, ws
<1>7. ASSUME NEW i \in 1..n, i # 1
      PROVE  /\ Len(ws[i]) = 1 + Len(x(i)) /\ ws[i][1] = Ampersand
             /\ \A j \in 1..Len(x(i)) : ws[i][1 + j] = x(i)[j]
  <2>. DEFINE m == <<Ampersand>>
  <2>1. Text(m) /\ Len(m) = 1 /\ m[1] = Ampersand
    BY OneIsText DEF Ampersand
  <2>2. ws[i] = m \o x(i)
    BY <1>7, OptionIs DEF ws, x, n
  <2>. DEFINE w == ws[i]
              y == x(i)
  <2>. HIDE DEF m
  <2>3. Joined(w, m, y)
    BY <1>6, <2>1, <2>2, Joining
  <2>. HIDE DEF w, y
  <2>4. /\ Len(w) = Len(m) + Len(y) /\ (\A j \in 1..Len(m) : w[j] = m[j])
        /\ \A j \in 1..Len(y) : w[Len(m) + j] = y[j]
    BY <2>3, JoinedIs
  <2>5. 1 \in 1..Len(m)
    BY <2>1
  <2>6. Len(w) = 1 + Len(y) /\ w[1] = Ampersand /\ \A j \in 1..Len(y) : w[1 + j] = y[j]
    BY <2>1, <2>4, <2>5
  <2>. QED
    BY <2>6 DEF w, y
<1>8. 1 \in 1..n /\ ws[1] = x(1)
  <2>1. \A i \in 1..n : i = 1 => ws[i] = x(i)
    BY OptionIs DEF ws, x, n
  <2>. QED
    BY <1>2, <2>1
<1>9. ASSUME NEW i \in 1..n
      PROVE  /\ b[i] \in Nat /\ Start(b, i) \in Nat
             /\ b[i] = Start(b, i) + Len(x(i))
             /\ \A j \in 1..Len(x(i)) : q[Start(b, i) + j] = x(i)[j]
             /\ i # 1 => q[Start(b, i)] = Ampersand
             /\ i < n => Start(b, i + 1) = b[i] + 1
  <2>1. b[i] \in Nat /\ b[i - 1] \in Nat /\ b[i] = b[i - 1] + Len(ws[i]) /\ i - 1 \in 0..n
    BY <1>2, <1>5
  <2>2. i < n => Start(b, i + 1) = b[i] + 1
    <3>1. i + 1 # 1 /\ (i + 1) - 1 = i
      OBVIOUS
    <3>. QED
      BY <3>1 DEF Start
  <2>3. CASE i = 1
    <3>1. Start(b, i) = 0 /\ i - 1 = 0 /\ b[i - 1] = 0
      BY <1>5, <2>3 DEF Start
    <3>2. ws[i] = x(i) /\ \A j \in 1..Len(ws[i]) : q[b[i - 1] + j] = ws[i][j]
      BY <1>4, <1>8, <2>3
    <3>3. b[i] = Len(x(i))
      BY <1>6, <2>1, <3>1, <3>2
    <3>. QED
      BY <1>6, <2>1, <2>2, <2>3, <3>1, <3>2, <3>3
  <2>4. CASE i # 1
    <3>1. Start(b, i) = b[i - 1] + 1
      BY <2>4 DEF Start
    <3>2. /\ Len(ws[i]) = 1 + Len(x(i)) /\ ws[i][1] = Ampersand
          /\ \A j \in 1..Len(x(i)) : ws[i][1 + j] = x(i)[j]
      BY <1>7, <2>4
    <3>3. 1 \in 1..Len(ws[i]) /\ \A j \in 1..Len(x(i)) : 1 + j \in 1..Len(ws[i])
      BY <1>6, <3>2
    <3>4. q[b[i - 1] + 1] = Ampersand
      BY <1>4, <3>2, <3>3
    <3>5. ASSUME NEW j \in 1..Len(x(i)) PROVE q[Start(b, i) + j] = x(i)[j]
      <4>1. q[b[i - 1] + (1 + j)] = ws[i][1 + j]
        BY <1>4, <3>3
      <4>. DEFINE o == b[i - 1]
      <4>3. o \in Nat /\ j \in Nat /\ Start(b, i) = o + 1
        BY <1>6, <2>1, <3>1
      <4>. HIDE DEF o
      <4>4. o + (1 + j) = Start(b, i) + j
        BY <4>3
      <4>2. b[i - 1] + (1 + j) = Start(b, i) + j
        BY <4>4 DEF o
      <4>. QED
        BY <3>2, <4>1, <4>2
    <3>6. b[i] = Start(b, i) + Len(x(i)) /\ Start(b, i) \in Nat
      <4>. DEFINE o == b[i - 1]
                  e == b[i]
                  l == Len(x(i))
                  m == Len(ws[i])
                  st == Start(b, i)
      <4>1. o \in Nat /\ e = o + m /\ m = 1 + l /\ l \in Nat /\ st = o + 1
        BY <1>6, <2>1, <3>1, <3>2
      <4>. HIDE DEF o, e, l, m, st
      <4>2. e = st + l /\ st \in Nat
        BY <4>1
      <4>. QED
        BY <4>2 DEF e, st, l
    <3>. QED
      BY <2>1, <2>2, <2>4, <3>1, <3>4, <3>5, <3>6
  <2>. QED
    BY <2>3, <2>4
<1>10. ASSUME NEW i \in 1..n, NEW k \in i..n
       PROVE  b[i] <= b[k] /\ (i < k => b[i] < Start(b, k))
  <2>1. i \in 0..Len(ws) /\ k \in i..Len(ws) /\ k \in 1..n
    BY <1>1, <1>2
  <2>2. b[i] <= b[k] /\ b[i] \in Nat /\ b[k] \in Nat
    BY <1>1, <1>4, <2>1, OffsetsRise
  <2>3. ASSUME i < k PROVE b[i] < Start(b, k)
    <3>1. k - 1 \in i..Len(ws) /\ k # 1
      BY <1>1, <1>2, <2>1, <2>3
    <3>2. b[i] <= b[k - 1] /\ b[k - 1] \in Nat
      BY <1>1, <1>4, <2>1, <3>1, OffsetsRise
    <3>3. Start(b, k) = b[k - 1] + 1
      BY <3>1 DEF Start
    <3>. QED
      BY <2>2, <3>2, <3>3
  <2>. QED
    BY <2>2, <2>3
<1>11. ASSUME NEW p \in 1..Len(q), q[p] = Ampersand
       PROVE  \E i \in 1..n : i # 1 /\ p = Start(b, i)
  <2>1. PICK k \in 1..n : b[k - 1] \in Nat /\ p - b[k - 1] \in 1..Len(ws[k])
    <3>1. p \in 1..b[Len(ws)]
      BY <1>1, <1>4
    <3>2. \E k \in 1..Len(ws) : b[k - 1] \in Nat /\ p - b[k - 1] \in 1..Len(ws[k])
      BY <1>1, <1>4, <3>1, InOnePiece
    <3>. QED
      BY <1>1, <3>2
  <2>. DEFINE j == p - b[k - 1]
  <2>2. q[b[k - 1] + j] = ws[k][j]
    BY <1>4, <2>1
  <2>3. p \in Nat /\ b[k - 1] + j = p /\ j \in Nat /\ j \in 1..Len(ws[k])
    <3>1. p \in Nat
      BY <1>1, TextIs DEF q
    <3>. QED
      BY <2>1, <3>1
  <2>4. ws[k][j] = Ampersand
    BY <1>11, <2>2, <2>3
  <2>. HIDE DEF j
  <2>5. k # 1
    BY <1>6, <1>8, <2>3, <2>4
  <2>6. j = 1
    <3>. SUFFICES ASSUME j # 1 PROVE FALSE
      OBVIOUS
    <3>1. /\ Len(ws[k]) = 1 + Len(x(k))
          /\ \A i \in 1..Len(x(k)) : ws[k][1 + i] = x(k)[i]
      BY <1>7, <2>5
    <3>2. j - 1 \in 1..Len(x(k)) /\ 1 + (j - 1) = j
      BY <1>6, <2>3, <3>1
    <3>3. ws[k][j] = x(k)[j - 1]
      BY <3>1, <3>2
    <3>. QED
      BY <1>6, <2>4, <3>2, <3>3
  <2>7. p = Start(b, k)
    BY <2>3, <2>5, <2>6 DEF Start
  <2>. QED
    BY <2>5, <2>7
<1>. QED
  BY <1>1, <1>2, <1>4, <1>6, <1>9, <1>10, <1>11 DEF Placed, x, n, q

\* The operators of applyQuery.
Ends(q) == {0, Len(q) + 1} \cup {i \in DOMAIN q : q[i] = Ampersand}
Item(q, i) == SubSeq(q, i + 1, Min({e \in Ends(q) : e > i}) - 1)
With(q, key) == {i \in Ends(q) \ {Len(q) + 1} : Cut(Item(q, i), Equals).before = <<key>>}
ValueOf(q, key) == percentDecode(Cut(Item(q, Max(With(q, key))), Equals).behind)

LEMMA QueryIs ==
  ASSUME NEW t, NEW q
  PROVE  applyQuery(t, q) =
           [ca_path     |-> IF With(q, CaPath) = {} THEN t.ca_path ELSE ValueOf(q, CaPath),
            server_name |-> IF With(q, ServerName) = {} THEN t.server_name ELSE ValueOf(q, ServerName),
            verify_peer |-> IF With(q, VerifyPeer) = {} THEN t.verify_peer
                            ELSE ValueOf(q, VerifyPeer) \in Truths]
BY DEF applyQuery, Ends, Item, With, ValueOf

LEMMA EndsAre ==
  ASSUME NEW q, NEW a, NEW b, Placed(q, a, b)
  PROVE  /\ \A e : e \in Ends(q) <=> e = Len(q) + 1 \/ \E i \in 1..Count(a) : e = Start(b, i)
         /\ \A i \in 1..Count(a) : Start(b, i) # Len(q) + 1
         /\ \A i \in 1..Count(a) : Item(q, Start(b, i)) = Option(a, i)
         /\ \A i, k \in 1..Count(a) : i < k => Start(b, i) < Start(b, k)
<1>. DEFINE n == Count(a)
            x(i) == Option(a, i)
            s(i) == Start(b, i)
            N == Len(q)
<1>1. /\ n \in Nat /\ n >= 1 /\ Text(q) /\ N = b[n]
      /\ \A i \in 1..n :
           /\ b[i] \in Nat /\ s(i) \in Nat /\ Text(x(i)) /\ Len(x(i)) >= 2
           /\ b[i] = s(i) + Len(x(i))
           /\ \A j \in 1..Len(x(i)) : q[s(i) + j] = x(i)[j]
           /\ i # 1 => q[s(i)] = Ampersand
           /\ i < n => s(i + 1) = b[i] + 1
      /\ \A i \in 1..n : \A k \in i..n : b[i] <= b[k] /\ (i < k => b[i] < s(k))
      /\ \A p \in 1..N : q[p] = Ampersand => \E i \in 1..n : i # 1 /\ p = s(i)
  BY Zenon DEF Placed
<1>2. \A i \in 1..n : Len(x(i)) \in Nat
  BY <1>1, TextIs
<1>3. s(1) = 0
  BY DEF Start
<1>4. N \in Nat /\ DOMAIN q = 1..N
  BY <1>1, TextIs
<1>. HIDE DEF n, x, s, N
<1>5. \A i \in 1..n : s(i) < b[i] /\ b[i] <= N /\ s(i) # N + 1
  <2>. SUFFICES ASSUME NEW i \in 1..n PROVE s(i) < b[i] /\ b[i] <= N /\ s(i) # N + 1
    OBVIOUS
  <2>1. n \in i..n /\ n \in 1..n
    BY <1>1
  <2>2. b[i] <= N
    BY <1>1, <2>1
  <2>. QED
    BY <1>1, <1>2, <1>4, <2>2
<1>6. ASSUME NEW i \in 1..n, NEW k \in 1..n, i < k PROVE s(i) < s(k)
  <2>1. k \in i..n
    BY <1>1, <1>6
  <2>2. b[i] < s(k) /\ s(i) < b[i] /\ s(i) \in Nat /\ b[i] \in Nat /\ s(k) \in Nat
    BY <1>1, <1>5, <1>6, <2>1
  <2>. QED
    BY <2>2
<1>7. \A e : e \in Ends(q) <=> e = N + 1 \/ \E i \in 1..n : e = s(i)
  <2>1. \A e : e \in Ends(q) <=> e = 0 \/ e = N + 1 \/ (e \in 1..N /\ q[e] = Ampersand)
    BY <1>4 DEF Ends, N
  <2>2. 1 \in 1..n
    BY <1>1
  <2>3. \A i \in 1..n : i # 1 => s(i) \in 1..N /\ q[s(i)] = Ampersand
    <3>. SUFFICES ASSUME NEW i \in 1..n, i # 1 PROVE s(i) \in 1..N
      BY <1>1
    <3>1. s(1) < s(i)
      BY <1>6, <2>2
    <3>. QED
      BY <1>1, <1>3, <1>4, <1>5, <3>1
  <2>. QED
    BY <1>1, <1>3, <2>1, <2>2, <2>3
<1>9. ASSUME NEW i \in 1..n
      PROVE  /\ b[i] \in Nat /\ s(i) \in Nat /\ b[i] <= N /\ s(i) < b[i] /\ Len(x(i)) \in Nat
             /\ b[i] = s(i) + Len(x(i))
  BY <1>1, <1>2, <1>5
<1>10. \A i \in 1..n : \A k \in i..n : i < k => b[i] < s(k)
  BY <1>1
<1>11. n \in Nat /\ n >= 1 /\ Text(q)
  BY <1>1
<1>12. \A i \in 1..n : \A j \in 1..Len(x(i)) : q[s(i) + j] = x(i)[j]
  BY <1>1
<1>8. ASSUME NEW i \in 1..n PROVE Item(q, s(i)) = x(i)
  <2>. DEFINE E == {e \in Ends(q) : e > s(i)}
              p == SubSeq(q, s(i) + 1, b[i])
  <2>1. b[i] + 1 \in E
    <3>1. b[i] + 1 > s(i)
      BY <1>1, <1>5
    <3>2. CASE i = n
      BY <1>1, <1>7, <3>1, <3>2
    <3>3. CASE i # n
      <4>1. i + 1 \in 1..n /\ s(i + 1) = b[i] + 1
        BY <1>1, <3>3
      <4>. QED
        BY <1>7, <3>1, <4>1
    <3>. QED
      BY <3>2, <3>3
  <2>2. E \subseteq Nat
    <3>. SUFFICES ASSUME NEW e \in Ends(q) PROVE e \in Nat
      OBVIOUS
    <3>1. e = N + 1 \/ \E k \in 1..n : e = s(k)
      BY <1>7
    <3>. QED
      BY <1>4, <1>9, <3>1
  <2>3. ASSUME NEW e \in E PROVE b[i] + 1 <= e
    <3>1. CASE e = N + 1
      <4>1. b[i] + 1 <= N + 1
        BY <1>4, <1>9
      <4>. QED
        BY <3>1, <4>1
    <3>2. CASE \E k \in 1..n : e = s(k)
      <4>1. PICK k \in 1..n : e = s(k)
        BY <3>2
      <4>2. s(k) > s(i)
        BY <2>3, <4>1
      <4>3. i < k
        <5>1. CASE k < i
          <6>1. s(k) < s(i)
            BY <1>6, <5>1
          <6>. QED
            BY <1>1, <4>2, <6>1
        <5>2. CASE k = i
          BY <1>1, <4>2, <5>2
        <5>. QED
          BY <5>1, <5>2, <1>1
      <4>5. k \in i..n
        BY <1>11, <4>3
      <4>4. b[i] < s(k)
        BY <1>10, <4>3, <4>5
      <4>6. b[i] + 1 <= s(k)
        BY <1>9, <4>4
      <4>. QED
        BY <4>1, <4>6
    <3>. QED
      BY <1>7, <3>1, <3>2
  <2>. HIDE DEF E
  <2>4. Min(E) = b[i] + 1
    BY <2>1, <2>2, <2>3, MinIs
  <2>5. Item(q, s(i)) = p
    <3>1. (b[i] + 1) - 1 = b[i]
      BY <1>1
    <3>. QED
      BY <2>4, <3>1 DEF Item, E
  <2>6. /\ s(i) + 1 \in Nat /\ b[i] \in Nat /\ s(i) + 1 >= 1 /\ b[i] <= Len(q)
        /\ s(i) + 1 <= b[i] + 1 /\ b[i] - (s(i) + 1) + 1 = Len(x(i))
    <3>. DEFINE e == b[i]
                st == s(i)
                l == Len(x(i))
    <3>1. e \in Nat /\ st \in Nat /\ l \in Nat /\ e = st + l /\ e <= Len(q) /\ st < e
      BY <1>9 DEF N
    <3>. HIDE DEF e, st, l
    <3>2. st + 1 \in Nat /\ e \in Nat /\ st + 1 >= 1 /\ e <= Len(q) /\ st + 1 <= e + 1
          /\ e - (st + 1) + 1 = l
      BY <3>1
    <3>. QED
      BY <3>2 DEF e, st, l
  <2>7. /\ Text(p) /\ Len(p) = b[i] - (s(i) + 1) + 1
        /\ \A j \in 1..(b[i] - (s(i) + 1) + 1) : p[j] = q[(s(i) + 1) + j - 1]
    <3>. DEFINE e == b[i]
                m == s(i) + 1
    <3>1. m \in Nat /\ e \in Nat /\ m >= 1 /\ e <= Len(q) /\ m <= e + 1
      BY <2>6
    <3>. HIDE DEF e, m
    <3>2. /\ Text(SubSeq(q, m, e)) /\ Len(SubSeq(q, m, e)) = e - m + 1
          /\ \A j \in 1..(e - m + 1) : SubSeq(q, m, e)[j] = q[m + j - 1]
      BY <1>11, <3>1, PartIs
    <3>. QED
      BY <3>2 DEF e, m
  <2>. HIDE DEF p
  <2>8. \A j \in 1..Len(x(i)) : p[j] = x(i)[j]
    <3>. SUFFICES ASSUME NEW j \in 1..Len(x(i)) PROVE p[j] = x(i)[j]
      OBVIOUS
    <3>1. (s(i) + 1) + j - 1 = s(i) + j
      BY <1>9
    <3>. QED
      BY <1>12, <2>6, <2>7, <3>1
  <2>9. Text(x(i)) /\ Len(p) = Len(x(i))
    BY <1>1, <2>6, <2>7
  <2>10. p = x(i)
    BY <2>7, <2>8, <2>9, SameText
  <2>. QED
    BY <2>5, <2>10
<1>. QED
  BY <1>5, <1>6, <1>7, <1>8 DEF n, x, s, N

\* The value of the last option with a key, and whether there is one.
Keyed(a, key) == {i \in 1..Count(a) : a.options[i].key = key}
LastValue(a, key) == IF Keyed(a, key) = {} THEN <<>> ELSE a.options[Max(Keyed(a, key))].value

LEMMA TheLastOptionWins ==
  ASSUME NEW a, Optional(a), NEW key
  PROVE  /\ With(OptionText(a), key) = {} <=> Keyed(a, key) = {}
         /\ Keyed(a, key) # {} => ValueOf(OptionText(a), key) = LastValue(a, key)
<1>. DEFINE q == OptionText(a)
            n == Count(a)
            W == With(q, key)
            K == Keyed(a, key)
<1>1. n \in Nat /\ (a.options = <<>> <=> n = 0)
  BY DEF Optional, Count
<1>2. CASE a.options = <<>>
  <2>1. K = {}
    BY <1>1, <1>2 DEF Keyed
  <2>2. q = <<>> /\ Len(q) = 0 /\ DOMAIN q = {}
    <3>1. q = <<>>
      BY <1>2, OptionTextIs
    <3>. QED
      BY <3>1
  <2>3. W = {}
    <3>1. Ends(q) = {0, 1}
      BY <2>2 DEF Ends
    <3>. DEFINE M == {e \in Ends(q) : e > 0}
    <3>2. M \subseteq Nat /\ 1 \in M /\ \A x \in M : 1 <= x
      BY <3>1
    <3>3. Min(M) = 1
      <4>. HIDE DEF M
      <4>. QED
        BY <3>2, MinIs
    <3>4. Item(q, 0) = SubSeq(q, 0 + 1, 1 - 1)
      BY <3>3 DEF Item
    <3>5. SubSeq(q, 0 + 1, 1 - 1) = <<>>
      <4>1. 0 + 1 \in Int /\ 1 - 1 \in Int /\ 1 - 1 < 0 + 1
        OBVIOUS
      <4>. QED
        BY <4>1, SubSeqEmpty
    <3>6. Cut(<<>>, Equals).before = <<>>
      BY EmptyIsText, CutNone
    <3>7. Cut(Item(q, 0), Equals).before = <<>>
      BY <3>4, <3>5, <3>6
    <3>8. <<key>> # <<>>
      OBVIOUS
    <3>9. Cut(Item(q, 0), Equals).before # <<key>>
      BY <3>7, <3>8
    <3>. QED
      BY <2>2, <3>1, <3>9 DEF With
  <2>. QED
    BY <2>1, <2>3
<1>3. CASE a.options # <<>>
  <2>1. PICK b : Placed(q, a, b)
    BY <1>3, OptionsPlaced
  <2>. DEFINE s(i) == Start(b, i)
              c(i) == Cut(Item(q, s(i)), Equals)
  <2>. HIDE DEF q
  <2>2. /\ \A e : e \in Ends(q) <=> e = Len(q) + 1 \/ \E i \in 1..n : e = s(i)
        /\ \A i \in 1..n : s(i) # Len(q) + 1
        /\ \A i \in 1..n : Item(q, s(i)) = Option(a, i)
        /\ \A i, k \in 1..n : i < k => s(i) < s(k)
    BY <2>1, EndsAre
  <2>3. \A i \in 1..n : s(i) \in Nat
    BY <2>1 DEF Placed
  <2>4. ASSUME NEW i \in 1..n
        PROVE  /\ c(i).before = <<a.options[i].key>>
               /\ percentDecode(c(i).behind) = a.options[i].value
    <3>. DEFINE k == <<a.options[i].key>>
    <3>1. /\ Split(Option(a, i), k, Equals, Value(a, i))
          /\ NoneIn(k, Equals) /\ percentDecode(Value(a, i)) = a.options[i].value
      BY OptionIs
    <3>. HIDE DEF k
    <3>2. Cut(Option(a, i), Equals) = [before |-> k, behind |-> Value(a, i), found |-> TRUE]
      BY <3>1, CutAt
    <3>3. c(i) = Cut(Option(a, i), Equals)
      BY <2>2
    <3>. QED
      BY <3>1, <3>2, <3>3 DEF k
  <2>5. \A i \in 1..n : s(i) \in W <=> i \in K
    <3>. SUFFICES ASSUME NEW i \in 1..n PROVE s(i) \in W <=> i \in K
      OBVIOUS
    <3>1. s(i) \in W <=> c(i).before = <<key>>
      BY <2>2 DEF With
    <3>2. i \in K <=> a.options[i].key = key
      BY DEF Keyed
    <3>3. <<a.options[i].key>> = <<key>> <=> a.options[i].key = key
      OBVIOUS
    <3>. QED
      BY <2>4, <3>1, <3>2, <3>3
  <2>6. \A e \in W : \E i \in 1..n : e = s(i) /\ i \in K
    <3>1. \A e \in W : e \in Ends(q) /\ e # Len(q) + 1
      BY DEF With
    <3>. QED
      BY <2>2, <2>5, <3>1
  <2>7. K \subseteq 1..n
    BY DEF Keyed
  <2>. HIDE DEF W, K, c, s
  <2>8. W = {} <=> K = {}
    BY <2>5, <2>6, <2>7
  <2>9. ASSUME K # {} PROVE ValueOf(q, key) = LastValue(a, key)
    <3>1. PICK l \in K : \A y \in K : l >= y
      <4>1. K \subseteq 0..n
        BY <1>1, <2>7
      <4>. QED
        BY <1>1, <2>9, <4>1, Greatest
    <3>2. K \subseteq Nat /\ l \in 1..n /\ l \in Nat
      BY <1>1, <2>7
    <3>3. Max(K) = l
      BY <3>1, <3>2, MaxIs
    <3>4. s(l) \in W
      BY <2>5, <3>1, <3>2
    <3>5. W \subseteq Nat /\ \A e \in W : s(l) >= e
      <4>. SUFFICES ASSUME NEW e \in W PROVE e \in Nat /\ s(l) >= e
        OBVIOUS
      <4>1. PICK i \in 1..n : e = s(i) /\ i \in K
        BY <2>6
      <4>2. i = l \/ i < l
        BY <3>1, <3>2, <4>1
      <4>3. s(i) = s(l) \/ s(i) < s(l)
        BY <2>2, <3>2, <4>2 DEF s
      <4>. QED
        BY <2>3, <3>2, <4>1, <4>3
    <3>6. Max(W) = s(l)
      BY <3>4, <3>5, MaxIs
    <3>7. ValueOf(q, key) = percentDecode(c(l).behind)
      BY <3>6 DEF ValueOf, c, W
    <3>8. LastValue(a, key) = a.options[l].value
      BY <2>9, <3>3 DEF LastValue, K
    <3>. QED
      BY <2>4, <3>2, <3>7, <3>8
  <2>. QED
    BY <2>8, <2>9 DEF W, K, q
<1>. QED
  BY <1>2, <1>3

\* The TLS parameters in the URL.
QueryOf(a, h) ==
  applyQuery([ca_path |-> <<>>, server_name |-> h, verify_peer |-> FALSE], OptionText(a))

LEMMA QueryOfOptions ==
  ASSUME NEW a, Optional(a), NEW h
  PROVE  /\ QueryOf(a, h).ca_path = LastValue(a, CaPath)
         /\ QueryOf(a, h).server_name = IF Keyed(a, ServerName) = {} THEN h ELSE LastValue(a, ServerName)
         /\ QueryOf(a, h).verify_peer = (LastValue(a, VerifyPeer) \in Truths)
<1>. DEFINE t == QueryOf(a, h)
            q == OptionText(a)
            z == [ca_path |-> <<>>, server_name |-> h, verify_peer |-> FALSE]
<1>1. z.ca_path = <<>> /\ z.server_name = h /\ z.verify_peer = FALSE
  OBVIOUS
<1>. HIDE DEF t, q, z
<1>2. /\ t.ca_path = IF With(q, CaPath) = {} THEN z.ca_path ELSE ValueOf(q, CaPath)
      /\ t.server_name = IF With(q, ServerName) = {} THEN z.server_name ELSE ValueOf(q, ServerName)
      /\ t.verify_peer = IF With(q, VerifyPeer) = {} THEN z.verify_peer
                         ELSE ValueOf(q, VerifyPeer) \in Truths
  <2>1. t = applyQuery(z, q)
    BY DEF z, q, t, QueryOf
  <2>. QED
    BY <2>1, QueryIs
<1>3. \A k \in {CaPath, ServerName, VerifyPeer} :
        /\ With(q, k) = {} <=> Keyed(a, k) = {}
        /\ Keyed(a, k) # {} => ValueOf(q, k) = LastValue(a, k)
  BY TheLastOptionWins DEF q
<1>4. <<>> \notin Truths
  <2>1. <<265>> # <<>> /\ <<266>> # <<>> /\ <<49>> # <<>>
    OBVIOUS
  <2>. QED
    BY <2>1 DEF Truths
<1>5. \A k : Keyed(a, k) = {} => LastValue(a, k) = <<>>
  BY DEF LastValue
<1>6. t.ca_path = LastValue(a, CaPath)
  BY <1>1, <1>2, <1>3, <1>5
<1>7. t.server_name = IF Keyed(a, ServerName) = {} THEN h ELSE LastValue(a, ServerName)
  BY <1>1, <1>2, <1>3
<1>8. t.verify_peer = (LastValue(a, VerifyPeer) \in Truths)
  <2>1. CASE Keyed(a, VerifyPeer) = {}
    <3>1. t.verify_peer = FALSE /\ LastValue(a, VerifyPeer) \notin Truths
      BY <1>1, <1>2, <1>3, <1>4, <1>5, <2>1
    <3>2. (LastValue(a, VerifyPeer) \in Truths) = FALSE
      BY <3>1
    <3>. QED
      BY <3>1, <3>2
  <2>2. CASE Keyed(a, VerifyPeer) # {}
    BY <1>2, <1>3, <2>2
  <2>. QED
    BY <2>1, <2>2
<1>. QED
  BY <1>6, <1>7, <1>8 DEF t
-----------------------------------------------------------------------------
(* base64: what is encoded is decoded to the same bytes.                   *)

Byte(b) == b \in 0..255
Bytes(t) == Text(t) /\ \A i \in 1..Len(t) : Byte(t[i])
ByteAt(v, k) == IF k \in 1..Len(v) THEN v[k] ELSE 0

First4(a) == a \div 4
Second4(a, b) == 16 * (a % 4) + b \div 16
Third4(b, c) == 4 * (b % 16) + c \div 64
Fourth4(c) == c % 64

LEMMA ByFour ==
  ASSUME NEW a \in 0..255
  PROVE  \E q \in 0..63, r \in 0..3 : a = 4 * q + r /\ a \div 4 = q /\ a % 4 = r
<1>1. a \div 4 \in 0..63 /\ a % 4 \in 0..3 /\ a % 4 = a - 4 * (a \div 4)
  OBVIOUS
<1>. DEFINE q == a \div 4
            r == a % 4
<1>2. q \in 0..63 /\ r \in 0..3 /\ r = a - 4 * q
  BY <1>1
<1>. HIDE DEF q, r
<1>3. a = 4 * q + r
  BY <1>2
<1>4. a \div 4 = q /\ a % 4 = r
  BY DEF q, r
<1>. QED
  BY <1>2, <1>3, <1>4

LEMMA BySixteen ==
  ASSUME NEW a \in 0..255
  PROVE  \E q \in 0..15, r \in 0..15 : a = 16 * q + r /\ a \div 16 = q /\ a % 16 = r
<1>1. a \div 16 \in 0..15 /\ a % 16 \in 0..15 /\ a % 16 = a - 16 * (a \div 16)
  OBVIOUS
<1>. DEFINE q == a \div 16
            r == a % 16
<1>2. q \in 0..15 /\ r \in 0..15 /\ r = a - 16 * q
  BY <1>1
<1>. HIDE DEF q, r
<1>3. a = 16 * q + r
  BY <1>2
<1>4. a \div 16 = q /\ a % 16 = r
  BY DEF q, r
<1>. QED
  BY <1>2, <1>3, <1>4

LEMMA BySixtyFour ==
  ASSUME NEW a \in 0..255
  PROVE  \E q \in 0..3, r \in 0..63 : a = 64 * q + r /\ a \div 64 = q /\ a % 64 = r
<1>1. a \div 64 \in 0..3 /\ a % 64 \in 0..63 /\ a % 64 = a - 64 * (a \div 64)
  OBVIOUS
<1>. DEFINE q == a \div 64
            r == a % 64
<1>2. q \in 0..3 /\ r \in 0..63 /\ r = a - 64 * q
  BY <1>1
<1>. HIDE DEF q, r
<1>3. a = 64 * q + r
  BY <1>2
<1>4. a \div 64 = q /\ a % 64 = r
  BY DEF q, r
<1>. QED
  BY <1>2, <1>3, <1>4

\* Four symbols are three bytes.
LEMMA ThreeBytes ==
  ASSUME NEW a, NEW b, NEW c, Byte(a), Byte(b), Byte(c)
  PROVE  /\ First4(a) \in 0..63 /\ Second4(a, b) \in 0..63 /\ Third4(b, c) \in 0..63
         /\ Fourth4(c) \in 0..63
         /\ 4 * First4(a) + Second4(a, b) \div 16 = a
         /\ 16 * (Second4(a, b) % 16) + Third4(b, c) \div 4 = b
         /\ 64 * (Third4(b, c) % 4) + Fourth4(c) = c
<1>1. PICK qa \in 0..63, ra \in 0..3 : a = 4 * qa + ra /\ a \div 4 = qa /\ a % 4 = ra
  BY ByFour DEF Byte
<1>2. PICK qb \in 0..15, rb \in 0..15 : b = 16 * qb + rb /\ b \div 16 = qb /\ b % 16 = rb
  BY BySixteen DEF Byte
<1>3. PICK qc \in 0..3, rc \in 0..63 : c = 64 * qc + rc /\ c \div 64 = qc /\ c % 64 = rc
  BY BySixtyFour DEF Byte
<1>4. /\ First4(a) = qa /\ Second4(a, b) = 16 * ra + qb /\ Third4(b, c) = 4 * rb + qc
      /\ Fourth4(c) = rc
  BY <1>1, <1>2, <1>3 DEF First4, Second4, Third4, Fourth4
<1>5. /\ (16 * ra + qb) \div 16 = ra /\ (16 * ra + qb) % 16 = qb
      /\ (4 * rb + qc) \div 4 = rb /\ (4 * rb + qc) % 4 = qc
  OBVIOUS
<1>6. /\ 4 * First4(a) + Second4(a, b) \div 16 = 4 * qa + ra
      /\ 16 * (Second4(a, b) % 16) + Third4(b, c) \div 4 = 16 * qb + rb
      /\ 64 * (Third4(b, c) % 4) + Fourth4(c) = 64 * qc + rc
  BY <1>4, <1>5
<1>7. /\ First4(a) \in 0..63 /\ Second4(a, b) \in 0..63 /\ Third4(b, c) \in 0..63
      /\ Fourth4(c) \in 0..63
  BY <1>4
<1>. QED
  BY <1>1, <1>2, <1>3, <1>6, <1>7, Zenon

\* s are the symbols of v.
Digits(s, v) ==
  /\ Bytes(v) /\ Text(s) /\ (3 * Len(s)) \div 4 = Len(v)
  /\ \A g \in Nat :
       /\ 3 * g + 1 <= Len(v) =>
            /\ s[4 * g + 1] = First4(ByteAt(v, 3 * g + 1))
            /\ s[4 * g + 2] = Second4(ByteAt(v, 3 * g + 1), ByteAt(v, 3 * g + 2))
       /\ 3 * g + 2 <= Len(v) =>
            s[4 * g + 3] = Third4(ByteAt(v, 3 * g + 2), ByteAt(v, 3 * g + 3))
       /\ 3 * g + 3 <= Len(v) => s[4 * g + 4] = Fourth4(ByteAt(v, 3 * g + 3))

LEMMA ByteIs ==
  ASSUME NEW v, Bytes(v), NEW k PROVE Byte(ByteAt(v, k))
<1>1. Byte(0)
  BY DEF Byte
<1>. QED
  BY <1>1 DEF Bytes, ByteAt

DecodedAt(s, k) ==
  LET g == 4 * ((k - 1) \div 3)
  IN  CASE k % 3 = 1 -> 4 * s[g + 1] + s[g + 2] \div 16
        [] k % 3 = 2 -> 16 * (s[g + 2] % 16) + s[g + 3] \div 4
        [] k % 3 = 0 -> 64 * (s[g + 3] % 4) + s[g + 4]

LEMMA DecodesDigits ==
  ASSUME NEW v, NEW s, Digits(s, v), NEW t, Cut(t, Pad).before = s
  PROVE  Decoded(t) = v
<1>. DEFINE n == Len(v)
<1>1. Bytes(v) /\ Text(v) /\ n \in Nat /\ (3 * Len(s)) \div 4 = n
  BY TextIs DEF Digits, Bytes
<1>2. ASSUME NEW k \in 1..n PROVE DecodedAt(s, k) = v[k]
  <2>. DEFINE g == (k - 1) \div 3
              a == ByteAt(v, 3 * g + 1)
              b == ByteAt(v, 3 * g + 2)
              c == ByteAt(v, 3 * g + 3)
  <2>1. g \in Nat /\ (k = 3 * g + 1 \/ k = 3 * g + 2 \/ k = 3 * g + 3) /\ k \in Nat
    BY <1>1
  <2>2. Byte(a) /\ Byte(b) /\ Byte(c)
    BY <1>1, ByteIs
  <2>3. /\ k = 3 * g + 1 => v[k] = a
        /\ k = 3 * g + 2 => v[k] = b
        /\ k = 3 * g + 3 => v[k] = c
    BY <1>2 DEF ByteAt
  <2>. DEFINE s1 == s[4 * g + 1]
              s2 == s[4 * g + 2]
              s3 == s[4 * g + 3]
              s4 == s[4 * g + 4]
  <2>. HIDE DEF g
  <2>4. /\ 3 * g + 1 <= n => s1 = First4(a) /\ s2 = Second4(a, b)
        /\ 3 * g + 2 <= n => s3 = Third4(b, c)
        /\ 3 * g + 3 <= n => s4 = Fourth4(c)
    BY <2>1 DEF Digits
  <2>5. k <= n /\ n \in Nat
    BY <1>1
  <2>6. /\ k % 3 = 1 => DecodedAt(s, k) = 4 * s1 + s2 \div 16
        /\ k % 3 = 2 => DecodedAt(s, k) = 16 * (s2 % 16) + s3 \div 4
        /\ k % 3 = 0 => DecodedAt(s, k) = 64 * (s3 % 4) + s4
    <3>. DEFINE G == 4 * g
    <3>. HIDE DEF G
    <3>1. DecodedAt(s, k) =
            CASE k % 3 = 1 -> 4 * s[G + 1] + s[G + 2] \div 16
              [] k % 3 = 2 -> 16 * (s[G + 2] % 16) + s[G + 3] \div 4
              [] k % 3 = 0 -> 64 * (s[G + 3] % 4) + s[G + 4]
      BY Zenon DEF DecodedAt, g, G
    <3>. QED
      BY <3>1 DEF G
  <2>. HIDE DEF a, b, c, s1, s2, s3, s4, n
  <2>7. /\ 4 * First4(a) + Second4(a, b) \div 16 = a
        /\ 16 * (Second4(a, b) % 16) + Third4(b, c) \div 4 = b
        /\ 64 * (Third4(b, c) % 4) + Fourth4(c) = c
    BY <2>2, ThreeBytes
  <2>8. CASE k = 3 * g + 1
    <3>1. k % 3 = 1 /\ 3 * g + 1 <= n
      BY <2>1, <2>5, <2>8
    <3>2. DecodedAt(s, k) = 4 * First4(a) + Second4(a, b) \div 16
      BY <2>4, <2>6, <3>1
    <3>. QED
      BY <2>3, <2>7, <2>8, <3>2, Zenon
  <2>9. CASE k = 3 * g + 2
    <3>1. k % 3 = 2 /\ 3 * g + 1 <= n /\ 3 * g + 2 <= n
      BY <2>1, <2>5, <2>9
    <3>2. DecodedAt(s, k) = 16 * (Second4(a, b) % 16) + Third4(b, c) \div 4
      BY <2>4, <2>6, <3>1
    <3>. QED
      BY <2>3, <2>7, <2>9, <3>2, Zenon
  <2>10. CASE k = 3 * g + 3
    <3>1. k % 3 = 0 /\ 3 * g + 2 <= n /\ 3 * g + 3 <= n
      BY <2>1, <2>5, <2>10
    <3>2. DecodedAt(s, k) = 64 * (Third4(b, c) % 4) + Fourth4(c)
      BY <2>4, <2>6, <3>1
    <3>. QED
      BY <2>3, <2>7, <2>10, <3>2, Zenon
  <2>. QED
    BY <2>1, <2>8, <2>9, <2>10
<1>3. Decoded(t) = [k \in 1..n |-> DecodedAt(s, k)]
  <2>1. Decoded(t) = [k \in 1..(3 * Len(s)) \div 4 |-> DecodedAt(s, k)]
    BY DEF Decoded, DecodedAt
  <2>. QED
    BY <1>1, <2>1
<1>4. v = [k \in 1..n |-> v[k]]
  BY <1>1, LenProperties DEF Text
<1>. QED
  BY <1>2, <1>3, <1>4

LEMMA SymbolsAre ==
  ASSUME NEW a, NEW b, NEW c, Byte(a), Byte(b), Byte(c)
  PROVE  /\ Text(Symbols(a, b, c)) /\ Len(Symbols(a, b, c)) = 4
         /\ Symbols(a, b, c)[1] = First4(a) /\ Symbols(a, b, c)[2] = Second4(a, b)
         /\ Symbols(a, b, c)[3] = Third4(b, c) /\ Symbols(a, b, c)[4] = Fourth4(c)
         /\ NoneIn(Symbols(a, b, c), Pad)
<1>1. Symbols(a, b, c) = <<First4(a), Second4(a, b), Third4(b, c), Fourth4(c)>>
  BY DEF Symbols, First4, Second4, Third4, Fourth4
<1>. DEFINE x == First4(a)
            y == Second4(a, b)
            z == Third4(b, c)
            w == Fourth4(c)
            s == <<x, y, z, w>>
<1>2. \A k \in {x, y, z, w} : k \in Nat /\ k # Pad
  <2>1. x \in 0..63 /\ y \in 0..63 /\ z \in 0..63 /\ w \in 0..63
    BY ThreeBytes
  <2>. QED
    BY <2>1 DEF Pad
<1>. HIDE DEF x, y, z, w
<1>3. Text(s) /\ Len(s) = 4 /\ s[1] = x /\ s[2] = y /\ s[3] = z /\ s[4] = w
  BY <1>2 DEF Text
<1>4. NoneIn(s, Pad)
  BY <1>2, <1>3 DEF NoneIn
<1>. QED
  BY <1>1, <1>3, <1>4 DEF s, x, y, z, w

\* The symbols of the last one or two bytes, then the padding.
Ended(e, d, w) ==
  /\ Text(e) /\ Text(d) /\ NoneIn(d, Pad) /\ (e = d \/ \E p : Split(e, d, Pad, p))
  /\ Len(d) = IF Len(w) = 0 THEN 0 ELSE Len(w) + 1
  /\ Len(w) >= 1 => d[1] = First4(ByteAt(w, 1)) /\ d[2] = Second4(ByteAt(w, 1), ByteAt(w, 2))
  /\ Len(w) >= 2 => d[3] = Third4(ByteAt(w, 2), ByteAt(w, 3))

LEMMA EndOfIs ==
  ASSUME NEW w, Bytes(w), Len(w) \in 0..2
  PROVE  \E d : Ended(EndOf(w), d, w)
<1>1. Byte(0) /\ Pad \in Nat /\ Text(<<Pad>>) /\ Text(<<>>)
  BY OneIsText, EmptyIsText DEF Byte, Pad
<1>2. CASE Len(w) = 0
  <2>1. EndOf(w) = <<>>
    BY <1>2 DEF EndOf
  <2>. DEFINE d == <<>>
  <2>2. Text(d) /\ Len(d) = 0 /\ NoneIn(d, Pad)
    BY EmptyIsText
  <2>. HIDE DEF d
  <2>3. Ended(d, d, w)
    BY <1>2, <2>2 DEF Ended
  <2>. QED
    BY <2>1, <2>3 DEF d
<1>3. CASE Len(w) = 1
  <2>. DEFINE a == w[1]
              z == 0
              s == Symbols(a, z, z)
              d == SubSeq(s, 1, 2)
  <2>1. Byte(a) /\ ByteAt(w, 1) = a /\ ByteAt(w, 2) = z
    BY <1>3 DEF Bytes, ByteAt
  <2>2. EndOf(w) = d \o <<Pad, Pad>>
    BY <1>3 DEF EndOf
  <2>. HIDE DEF a, z
  <2>3. Byte(z)
    BY <1>1 DEF z
  <2>4. Text(s) /\ Len(s) = 4 /\ s[1] = First4(a) /\ s[2] = Second4(a, z) /\ NoneIn(s, Pad)
    BY <2>1, <2>3, SymbolsAre
  <2>. HIDE DEF s
  <2>5. Text(d) /\ Len(d) = 2 /\ d[1] = s[1] /\ d[2] = s[2]
    <3>1. 1 \in Nat /\ 2 \in Nat /\ 1 >= 1 /\ 2 <= Len(s) /\ 1 <= 2 + 1 /\ 2 - 1 + 1 = 2
      BY <2>4
    <3>2. Text(d) /\ Len(d) = 2 - 1 + 1 /\ \A i \in 1..(2 - 1 + 1) : d[i] = s[1 + i - 1]
      BY <2>4, <3>1, PartIs
    <3>. QED
      BY <3>1, <3>2
  <2>. HIDE DEF d
  <2>6. NoneIn(d, Pad)
    <3>1. s[1] # Pad /\ s[2] # Pad
      BY <2>4 DEF NoneIn
    <3>. QED
      BY <2>5, <3>1 DEF NoneIn
  <2>7. <<Pad, Pad>> = <<Pad>> \o <<Pad>>
    BY <1>1, TwoIs
  <2>. DEFINE m == <<Pad>>
              e == d \o m \o m
  <2>8. EndOf(w) = e
    <3>1. Text(m)
      BY <1>1
    <3>2. EndOf(w) = Then(d, Then(m, m))
      BY <2>2, <2>7, Zenon DEF Then
    <3>. HIDE DEF m
    <3>3. Then(d, Then(m, m)) = Then(Then(d, m), m)
      BY <2>5, <3>1, Associative
    <3>. QED
      BY <3>2, <3>3, Zenon DEF Then, e
  <2>9. Split(e, d, Pad, m) /\ Text(e)
    BY <1>1, <2>5, Splitting
  <2>. HIDE DEF e, m
  <2>10. d[1] = First4(a) /\ d[2] = Second4(a, z)
    BY <2>4, <2>5
  <2>11. Len(w) = 1 /\ Len(d) = 1 + 1
    BY <1>3, <2>5
  <2>12. Ended(e, d, w)
    BY <2>1, <2>5, <2>6, <2>9, <2>10, <2>11 DEF Ended
  <2>. QED
    BY <2>8, <2>12
<1>4. CASE Len(w) = 2
  <2>. DEFINE a == w[1]
              b == w[2]
              z == 0
              s == Symbols(a, b, z)
              d == SubSeq(s, 1, 3)
  <2>1. Byte(a) /\ Byte(b) /\ ByteAt(w, 1) = a /\ ByteAt(w, 2) = b /\ ByteAt(w, 3) = z
    BY <1>4 DEF Bytes, ByteAt
  <2>2. EndOf(w) = d \o <<Pad>>
    BY <1>4 DEF EndOf
  <2>. HIDE DEF a, b, z
  <2>3. Byte(z)
    BY <1>1 DEF z
  <2>4. /\ Text(s) /\ Len(s) = 4 /\ s[1] = First4(a) /\ s[2] = Second4(a, b) /\ s[3] = Third4(b, z)
        /\ NoneIn(s, Pad)
    BY <2>1, <2>3, SymbolsAre
  <2>. HIDE DEF s
  <2>5. Text(d) /\ Len(d) = 3 /\ d[1] = s[1] /\ d[2] = s[2] /\ d[3] = s[3]
    <3>1. 1 \in Nat /\ 3 \in Nat /\ 1 >= 1 /\ 3 <= Len(s) /\ 1 <= 3 + 1 /\ 3 - 1 + 1 = 3
      BY <2>4
    <3>2. Text(d) /\ Len(d) = 3 - 1 + 1 /\ \A i \in 1..(3 - 1 + 1) : d[i] = s[1 + i - 1]
      BY <2>4, <3>1, PartIs
    <3>. QED
      BY <3>1, <3>2
  <2>. HIDE DEF d
  <2>6. NoneIn(d, Pad)
    <3>1. s[1] # Pad /\ s[2] # Pad /\ s[3] # Pad
      BY <2>4 DEF NoneIn
    <3>. QED
      BY <2>5, <3>1 DEF NoneIn
  <2>. DEFINE e == d \o <<Pad>>
              m == <<>>
  <2>9. Split(e, d, Pad, m) /\ Text(e)
    <3>1. Split(e \o m, d, Pad, m) /\ Text(e \o m)
      BY <1>1, <2>5, Splitting
    <3>2. Text(e)
      BY <1>1, <2>5, Joining
    <3>. HIDE DEF e
    <3>3. e \o m = e
      BY <3>2, ConcatEmptySeq DEF Text
    <3>. QED
      BY <3>1, <3>3
  <2>. HIDE DEF e, m
  <2>10. d[1] = First4(a) /\ d[2] = Second4(a, b) /\ d[3] = Third4(b, z)
    BY <2>4, <2>5
  <2>11. Len(w) = 2 /\ Len(d) = 2 + 1
    BY <1>4, <2>5
  <2>12. Ended(e, d, w)
    BY <2>1, <2>5, <2>6, <2>9, <2>10, <2>11 DEF Ended
  <2>. QED
    BY <2>2, <2>12 DEF e
<1>. QED
  BY <1>2, <1>3, <1>4

\* The symbols of the full groups.
Groups(v) ==
  [g \in 1 .. Len(v) \div 3 |-> Symbols(v[3 * g - 2], v[3 * g - 1], v[3 * g])]

Grouped(f, v, n) ==
  /\ Text(f) /\ Len(f) = 4 * n /\ NoneIn(f, Pad)
  /\ \A g \in 0..(n - 1) :
       /\ f[4 * g + 1] = First4(ByteAt(v, 3 * g + 1))
       /\ f[4 * g + 2] = Second4(ByteAt(v, 3 * g + 1), ByteAt(v, 3 * g + 2))
       /\ f[4 * g + 3] = Third4(ByteAt(v, 3 * g + 2), ByteAt(v, 3 * g + 3))
       /\ f[4 * g + 4] = Fourth4(ByteAt(v, 3 * g + 3))

LEMMA GroupsAre ==
  ASSUME NEW v, Bytes(v)
  PROVE  Grouped(FlattenSeq(Groups(v)), v, Len(v) \div 3)
<1>. DEFINE n == Len(v) \div 3
            ws == Groups(v)
            a == [k \in 0..n |-> 4 * k]
            x(g) == ByteAt(v, 3 * g + 1)
            y(g) == ByteAt(v, 3 * g + 2)
            z(g) == ByteAt(v, 3 * g + 3)
<1>1. Len(v) \in Nat /\ n \in Nat /\ 3 * n <= Len(v)
  <2>1. Len(v) \in Nat
    BY TextIs DEF Bytes
  <2>. QED
    BY <2>1
<1>2. ws = [g \in 1..n |-> Symbols(v[3 * g - 2], v[3 * g - 1], v[3 * g])]
  BY DEF Groups
<1>. HIDE DEF ws, n
<1>3. DOMAIN ws = 1..n /\ Len(ws) = n
  <2>1. DOMAIN ws = 1..n
    BY <1>2
  <2>2. ws = [g \in 1..n |-> ws[g]]
    BY <1>2
  <2>3. ws \in Seq({ws[g] : g \in 1..n})
    BY <1>1, <2>2
  <2>4. Len(ws) \in Nat /\ DOMAIN ws = 1..Len(ws)
    BY <2>3, LenProperties
  <2>. QED
    BY <1>1, <2>1, <2>4
<1>4. ASSUME NEW g \in 0..(n - 1)
      PROVE  /\ Text(ws[g + 1]) /\ Len(ws[g + 1]) = 4 /\ NoneIn(ws[g + 1], Pad)
             /\ ws[g + 1][1] = First4(x(g)) /\ ws[g + 1][2] = Second4(x(g), y(g))
             /\ ws[g + 1][3] = Third4(y(g), z(g)) /\ ws[g + 1][4] = Fourth4(z(g))
  <2>1. /\ g + 1 \in 1..n /\ 3 * (g + 1) - 2 = 3 * g + 1 /\ 3 * (g + 1) - 1 = 3 * g + 2
        /\ 3 * (g + 1) = 3 * g + 3
        /\ 3 * g + 1 \in 1..Len(v) /\ 3 * g + 2 \in 1..Len(v) /\ 3 * g + 3 \in 1..Len(v)
    BY <1>1
  <2>2. x(g) = v[3 * g + 1] /\ y(g) = v[3 * g + 2] /\ z(g) = v[3 * g + 3]
    BY <2>1 DEF ByteAt
  <2>3. Byte(x(g)) /\ Byte(y(g)) /\ Byte(z(g))
    BY ByteIs
  <2>4. ws[g + 1] = Symbols(x(g), y(g), z(g))
    <3>1. ws[g + 1] = Symbols(v[3 * (g + 1) - 2], v[3 * (g + 1) - 1], v[3 * (g + 1)])
      BY <1>2, <2>1
    <3>. QED
      BY <2>1, <2>2, <3>1, Zenon
  <2>. DEFINE X == x(g)
              Y == y(g)
              Z == z(g)
  <2>. HIDE DEF X, Y, Z
  <2>5. Byte(X) /\ Byte(Y) /\ Byte(Z)
    BY <2>3 DEF X, Y, Z
  <2>6. /\ Text(Symbols(X, Y, Z)) /\ Len(Symbols(X, Y, Z)) = 4
        /\ Symbols(X, Y, Z)[1] = First4(X) /\ Symbols(X, Y, Z)[2] = Second4(X, Y)
        /\ Symbols(X, Y, Z)[3] = Third4(Y, Z) /\ Symbols(X, Y, Z)[4] = Fourth4(Z)
        /\ NoneIn(Symbols(X, Y, Z), Pad)
    BY <2>5, SymbolsAre
  <2>. QED
    BY <2>4, <2>6, Zenon DEF X, Y, Z
<1>. HIDE DEF x, y, z
<1>5. ASSUME NEW k \in 1..n PROVE Text(ws[k]) /\ Len(ws[k]) = 4 /\ NoneIn(ws[k], Pad)
  <2>1. k - 1 \in 0..(n - 1) /\ (k - 1) + 1 = k
    BY <1>1
  <2>. QED
    BY <1>4, <2>1
<1>6. Pieces(ws)
  BY <1>1, <1>3, <1>5 DEF Pieces
<1>7. Offsets(a, ws)
  <2>1. a[0] = 0 /\ \A k \in 0..n : a[k] \in Nat
    BY <1>1
  <2>2. ASSUME NEW k \in 1..n PROVE a[k] = a[k - 1] + Len(ws[k])
    <3>1. k \in 0..n /\ k - 1 \in 0..n
      BY <1>1
    <3>2. a[k] = 4 * k /\ a[k - 1] = 4 * (k - 1) /\ Len(ws[k]) = 4
      BY <1>5, <3>1
    <3>3. 4 * k = 4 * (k - 1) + 4
      BY <1>1
    <3>. QED
      BY <3>2, <3>3
  <2>. QED
    BY <1>3, <2>1, <2>2 DEF Offsets
<1>. HIDE DEF a
<1>8. PICK f : Laid(f, ws, a)
  BY <1>6, <1>7, HasLaid
<1>9. FlattenSeq(ws) = f
  BY <1>8, FlattenIs
<1>10. a[n] = 4 * n /\ \A g \in 0..(n - 1) : a[g] = 4 * g
  BY <1>1 DEF a
<1>11. /\ Text(f) /\ Len(f) = 4 * n
       /\ \A k \in 1..n : \A j \in 1..Len(ws[k]) : f[a[k - 1] + j] = ws[k][j]
  BY <1>3, <1>8, <1>10 DEF Laid
<1>12. ASSUME NEW g \in 0..(n - 1), NEW j \in 1..4 PROVE f[4 * g + j] = ws[g + 1][j]
  <2>1. g + 1 \in 1..n /\ (g + 1) - 1 = g
    BY <1>1
  <2>2. Len(ws[g + 1]) = 4
    BY <1>5, <2>1
  <2>3. f[a[g] + j] = ws[g + 1][j]
    BY <1>11, <2>1, <2>2
  <2>. QED
    BY <1>10, <2>3
<1>13. NoneIn(f, Pad)
  <2>. SUFFICES ASSUME NEW i \in 1..(4 * n) PROVE f[i] # Pad
    BY <1>11 DEF NoneIn
  <2>. DEFINE g == (i - 1) \div 4
              j == i - 4 * g
  <2>1. g \in 0..(n - 1) /\ j \in 1..4 /\ 4 * g + j = i
    BY <1>1
  <2>. HIDE DEF g, j
  <2>2. f[i] = ws[g + 1][j]
    BY <1>12, <2>1
  <2>3. g + 1 \in 1..n
    BY <1>1, <2>1
  <2>. QED
    BY <1>5, <2>1, <2>2, <2>3 DEF NoneIn
<1>14. \A g \in 0..(n - 1) :
         /\ f[4 * g + 1] = First4(x(g)) /\ f[4 * g + 2] = Second4(x(g), y(g))
         /\ f[4 * g + 3] = Third4(y(g), z(g)) /\ f[4 * g + 4] = Fourth4(z(g))
  <2>. SUFFICES ASSUME NEW g \in 0..(n - 1)
                PROVE  /\ f[4 * g + 1] = First4(x(g)) /\ f[4 * g + 2] = Second4(x(g), y(g))
                       /\ f[4 * g + 3] = Third4(y(g), z(g)) /\ f[4 * g + 4] = Fourth4(z(g))
    OBVIOUS
  <2>1. 1 \in 1..4 /\ 2 \in 1..4 /\ 3 \in 1..4 /\ 4 \in 1..4
    OBVIOUS
  <2>2. /\ f[4 * g + 1] = ws[g + 1][1] /\ f[4 * g + 2] = ws[g + 1][2]
        /\ f[4 * g + 3] = ws[g + 1][3] /\ f[4 * g + 4] = ws[g + 1][4]
    BY <1>12, <2>1
  <2>. QED
    BY <1>4, <2>2, Zenon
<1>. QED
  BY <1>9, <1>11, <1>13, <1>14, Zenon DEF Grouped, x, y, z, n, ws

\* A text and its symbols.
LEMMA EncodesDigits ==
  ASSUME NEW v, Bytes(v)
  PROVE  \E s : Digits(s, v) /\ Cut(base64Encode(v), Pad).before = s
<1>. DEFINE l == Len(v)
            n == l \div 3
            f == FlattenSeq(Groups(v))
            w == SubSeq(v, 3 * n + 1, l)
            e == EndOf(w)
<1>1. l \in Nat /\ n \in Nat /\ Text(v) /\ l - 3 * n \in 0..2
  <2>1. l \in Nat /\ Text(v)
    BY TextIs DEF Bytes
  <2>. QED
    BY <2>1
<1>2. base64Encode(v) = f \o e
  BY DEF base64Encode, Groups
<1>3. Grouped(f, v, n)
  BY GroupsAre
<1>. HIDE DEF f, n
<1>4. /\ Text(w) /\ Len(w) = l - 3 * n /\ \A i \in 1..(l - 3 * n) : w[i] = v[3 * n + i]
  <2>. DEFINE m == 3 * n + 1
  <2>1. m \in Nat /\ m >= 1 /\ l <= Len(v) /\ m <= l + 1 /\ l - m + 1 = l - 3 * n
    BY <1>1
  <2>2. \A i \in 1..(l - 3 * n) : m + i - 1 = 3 * n + i
    BY <1>1
  <2>. HIDE DEF m
  <2>3. /\ Text(SubSeq(v, m, l)) /\ Len(SubSeq(v, m, l)) = l - m + 1
        /\ \A i \in 1..(l - m + 1) : SubSeq(v, m, l)[i] = v[m + i - 1]
    BY <1>1, <2>1, PartIs
  <2>4. w = SubSeq(v, m, l)
    BY DEF m
  <2>. HIDE DEF w
  <2>. QED
    BY <2>1, <2>2, <2>3, <2>4
<1>. HIDE DEF w
<1>5. \A i \in Nat \ {0} : ByteAt(w, i) = ByteAt(v, 3 * n + i)
  <2>. SUFFICES ASSUME NEW i \in Nat \ {0} PROVE ByteAt(w, i) = ByteAt(v, 3 * n + i)
    OBVIOUS
  <2>1. i \in 1..Len(w) <=> 3 * n + i \in 1..l
    BY <1>1, <1>4
  <2>2. i \in 1..Len(w) => w[i] = v[3 * n + i]
    BY <1>4
  <2>. QED
    BY <2>1, <2>2 DEF ByteAt
<1>6. Bytes(w)
  <2>. SUFFICES ASSUME NEW i \in 1..Len(w) PROVE Byte(w[i])
    BY <1>4 DEF Bytes
  <2>1. w[i] = v[3 * n + i] /\ 3 * n + i \in 1..l
    BY <1>1, <1>4
  <2>. QED
    BY <2>1 DEF Bytes
<1>7. PICK d : Ended(e, d, w)
  <2>1. Len(w) \in 0..2
    BY <1>1, <1>4
  <2>. QED
    BY <1>6, <2>1, EndOfIs
<1>. HIDE DEF e
<1>8. /\ Text(e) /\ Text(d) /\ NoneIn(d, Pad) /\ (e = d \/ \E p : Split(e, d, Pad, p))
      /\ Len(d) = IF Len(w) = 0 THEN 0 ELSE Len(w) + 1
  BY <1>7 DEF Ended
<1>9. Text(f) /\ Len(f) = 4 * n /\ NoneIn(f, Pad)
  BY <1>3 DEF Grouped
<1>. DEFINE s == f \o d
<1>10. Joined(s, f, d) /\ Text(s)
  BY <1>8, <1>9, Joining
<1>11. NoneIn(s, Pad)
  <2>. HIDE DEF s
  <2>. QED
    BY <1>8, <1>9, <1>10, NoneInJoined
<1>12. Cut(f \o e, Pad).before = s
  <2>1. CASE e = d
    <3>1. f \o e = s
      BY <2>1
    <3>. HIDE DEF s
    <3>. QED
      BY <1>11, <3>1, CutNone
  <2>2. CASE \E p : Split(e, d, Pad, p)
    <3>1. PICK p : Split(e, d, Pad, p)
      BY <2>2
    <3>. DEFINE m == <<Pad>>
    <3>2. Text(p) /\ Pad \in Nat /\ Text(m)
      BY <3>1, OneIsText DEF Split, Pad
    <3>3. e = d \o m \o p
      BY <3>1 DEF Split
    <3>. DEFINE t == s \o m \o p
    <3>4. f \o e = t
      <4>. HIDE DEF m
      <4>1. f \o e = Then(f, Then(Then(d, m), p))
        BY <3>3, Zenon DEF Then
      <4>2. Then(Then(d, m), p) = Then(d, Then(m, p)) /\ Text(Then(m, p))
        BY <1>8, <3>2, Associative
      <4>3. Then(f, Then(d, Then(m, p))) = Then(Then(f, d), Then(m, p)) /\ Text(Then(f, d))
        BY <1>8, <1>9, <4>2, Associative
      <4>4. Then(Then(f, d), Then(m, p)) = Then(Then(Then(f, d), m), p)
        BY <3>2, <4>3, Associative
      <4>5. f \o e = Then(Then(Then(f, d), m), p)
        BY <4>1, <4>2, <4>3, <4>4, Zenon
      <4>. QED
        BY <4>5, Zenon DEF Then, t, s
    <3>. HIDE DEF s
    <3>5. Split(t, s, Pad, p)
      BY <1>10, <3>2, Splitting
    <3>. HIDE DEF t
    <3>6. Cut(t, Pad).before = s
      BY <1>11, <3>5, CutAt
    <3>. QED
      BY <3>4, <3>6
  <2>. QED
    BY <1>8, <2>1, <2>2
<1>. DEFINE k == Len(w)
<1>13. /\ Len(s) = 4 * n + Len(d) /\ Len(d) \in Nat
       /\ \A i \in 1..(4 * n) : s[i] = f[i]
       /\ \A i \in 1..Len(d) : s[4 * n + i] = d[i]
  <2>1. /\ Len(s) = Len(f) + Len(d) /\ Len(d) \in Nat
        /\ \A i \in 1..Len(f) : s[i] = f[i]
        /\ \A i \in 1..Len(d) : s[Len(f) + i] = d[i]
    BY <1>10, JoinedIs
  <2>. QED
    BY <1>9, <2>1
<1>14. k \in 0..2 /\ l = 3 * n + k /\ Len(d) = IF k = 0 THEN 0 ELSE k + 1
  BY <1>1, <1>4, <1>8
<1>. HIDE DEF s, k, l
<1>15. (3 * Len(s)) \div 4 = l
  <2>1. CASE k = 0
    <3>1. Len(s) = 4 * n /\ l = 3 * n
      BY <1>1, <1>13, <1>14, <2>1
    <3>. QED
      BY <1>1, <3>1
  <2>2. CASE k = 1
    <3>1. Len(s) = 4 * n + 2 /\ l = 3 * n + 1
      BY <1>1, <1>13, <1>14, <2>2
    <3>. QED
      BY <1>1, <3>1
  <2>3. CASE k = 2
    <3>1. Len(s) = 4 * n + 3 /\ l = 3 * n + 2
      BY <1>1, <1>13, <1>14, <2>3
    <3>. QED
      BY <1>1, <3>1
  <2>4. k = 0 \/ k = 1 \/ k = 2
    BY <1>14
  <2>. QED
    BY <2>1, <2>2, <2>3, <2>4
<1>16. ASSUME NEW g \in Nat
       PROVE  /\ 3 * g + 1 <= l =>
                   /\ s[4 * g + 1] = First4(ByteAt(v, 3 * g + 1))
                   /\ s[4 * g + 2] = Second4(ByteAt(v, 3 * g + 1), ByteAt(v, 3 * g + 2))
              /\ 3 * g + 2 <= l =>
                   s[4 * g + 3] = Third4(ByteAt(v, 3 * g + 2), ByteAt(v, 3 * g + 3))
              /\ 3 * g + 3 <= l => s[4 * g + 4] = Fourth4(ByteAt(v, 3 * g + 3))
  <2>. DEFINE x == ByteAt(v, 3 * g + 1)
              y == ByteAt(v, 3 * g + 2)
              z == ByteAt(v, 3 * g + 3)
  <2>1. CASE g < n
    <3>1. g \in 0..(n - 1)
      BY <1>1, <2>1
    <3>2. /\ f[4 * g + 1] = First4(x) /\ f[4 * g + 2] = Second4(x, y)
          /\ f[4 * g + 3] = Third4(y, z) /\ f[4 * g + 4] = Fourth4(z)
      BY <1>3, <3>1, Zenon DEF Grouped
    <3>3. /\ 4 * g + 1 \in 1..(4 * n) /\ 4 * g + 2 \in 1..(4 * n)
          /\ 4 * g + 3 \in 1..(4 * n) /\ 4 * g + 4 \in 1..(4 * n)
      BY <1>1, <2>1
    <3>4. /\ s[4 * g + 1] = f[4 * g + 1] /\ s[4 * g + 2] = f[4 * g + 2]
          /\ s[4 * g + 3] = f[4 * g + 3] /\ s[4 * g + 4] = f[4 * g + 4]
      BY <1>13, <3>3
    <3>. QED
      BY <3>2, <3>4, Zenon
  <2>2. CASE g = n
    <3>1. x = ByteAt(w, 1) /\ y = ByteAt(w, 2) /\ z = ByteAt(w, 3)
      <4>1. 1 \in Nat \ {0} /\ 2 \in Nat \ {0} /\ 3 \in Nat \ {0}
        OBVIOUS
      <4>. QED
        BY <1>5, <2>2, <4>1
    <3>2. /\ k >= 1 => d[1] = First4(ByteAt(w, 1)) /\ d[2] = Second4(ByteAt(w, 1), ByteAt(w, 2))
          /\ k >= 2 => d[3] = Third4(ByteAt(w, 2), ByteAt(w, 3))
      BY <1>7, Zenon DEF Ended, k
    <3>. HIDE DEF x, y, z
    <3>3. /\ k >= 1 => d[1] = First4(x) /\ d[2] = Second4(x, y)
          /\ k >= 2 => d[3] = Third4(y, z)
      BY <3>1, <3>2
    <3>4. /\ 3 * n + 1 <= l => k >= 1 /\ 1 \in 1..Len(d) /\ 2 \in 1..Len(d)
          /\ 3 * n + 2 <= l => k >= 2 /\ 3 \in 1..Len(d)
          /\ ~(3 * n + 3 <= l)
      BY <1>1, <1>14
    <3>5. /\ 3 * n + 1 <= l => s[4 * n + 1] = First4(x) /\ s[4 * n + 2] = Second4(x, y)
          /\ 3 * n + 2 <= l => s[4 * n + 3] = Third4(y, z)
      BY <1>13, <3>3, <3>4
    <3>6. /\ 3 * g + 1 <= l => s[4 * g + 1] = First4(x) /\ s[4 * g + 2] = Second4(x, y)
          /\ 3 * g + 2 <= l => s[4 * g + 3] = Third4(y, z)
          /\ ~(3 * g + 3 <= l)
      BY <2>2, <3>4, <3>5
    <3>. QED
      BY <3>6, Zenon DEF x, y, z
  <2>3. CASE g > n
    <3>1. ~(3 * g + 1 <= l) /\ ~(3 * g + 2 <= l) /\ ~(3 * g + 3 <= l)
      BY <1>1, <1>14, <2>3
    <3>. QED
      BY <3>1
  <2>. QED
    BY <1>1, <2>1, <2>2, <2>3
<1>17. Digits(s, v)
  BY <1>10, <1>15, <1>16, Zenon DEF Digits, l
<1>. QED
  BY <1>2, <1>12, <1>17

\* The server decodes what the client encoded.
LEMMA DecodesEncoded ==
  ASSUME NEW v, Bytes(v) PROVE Decoded(base64Encode(v)) = v
<1>1. PICK s : Digits(s, v) /\ Cut(base64Encode(v), Pad).before = s
  BY EncodesDigits
<1>. QED
  BY <1>1, DecodesDigits

\* AUTH PLAIN: name and password are behind the NULs.
LEMMA PlainIs ==
  ASSUME NEW u, NEW p, Bytes(u), Bytes(p), NoneIn(u, Nul)
  PROVE  LET plain == Cut(Behind(Decoded(authPlainPayload(u, p)), 1), Nul)
         IN  plain.before = u /\ plain.behind = p
<1>. DEFINE o == <<Nul>>
            x == u \o o \o p
            v == o \o u \o o \o p
<1>1. Text(u) /\ Text(p) /\ Text(o) /\ Nul \in Nat /\ Byte(Nul) /\ Len(o) = 1 /\ o[1] = Nul
      /\ Text(<<>>) /\ Len(<<>>) = 0
  BY OneIsText, EmptyIsText DEF Bytes, Byte, Nul
<1>2. Split(x, u, Nul, p) /\ Text(x)
  BY <1>1, Splitting
<1>3. v = o \o x
  <2>. HIDE DEF o
  <2>1. Then(o, Then(Then(u, o), p)) = Then(Then(o, Then(u, o)), p) /\ Text(Then(u, o))
    <3>1. Text(Then(u, o))
      BY <1>1, Associative
    <3>. QED
      BY <1>1, <3>1, Associative
  <2>2. Then(o, Then(u, o)) = Then(Then(o, u), o)
    BY <1>1, Associative
  <2>3. Then(o, Then(Then(u, o), p)) = Then(Then(Then(o, u), o), p)
    BY <2>1, <2>2, Zenon
  <2>. QED
    BY <2>3, Zenon DEF Then, v, x
<1>. HIDE DEF x, v
<1>4. Joined(v, o, x) /\ Text(v)
  <2>. HIDE DEF o
  <2>. QED
    BY <1>1, <1>2, <1>3, Joining
<1>5. Bytes(v)
  <2>1. \A i \in 1..Len(x) : Byte(x[i])
    <3>1. /\ Len(x) = Len(u) + 1 + Len(p) /\ Len(u) \in Nat /\ Len(p) \in Nat
          /\ (\A i \in 1..Len(u) : x[i] = u[i]) /\ x[Len(u) + 1] = Nul
          /\ \A i \in 1..Len(p) : x[Len(u) + 1 + i] = p[i]
      BY <1>2, SplitIs
    <3>. SUFFICES ASSUME NEW i \in 1..Len(x) PROVE Byte(x[i])
      OBVIOUS
    <3>2. CASE i \in 1..Len(u)
      BY <3>1, <3>2 DEF Bytes
    <3>3. CASE i = Len(u) + 1
      BY <1>1, <3>1, <3>3
    <3>4. CASE i - (Len(u) + 1) \in 1..Len(p)
      <4>1. i = Len(u) + 1 + (i - (Len(u) + 1))
        BY <3>1
      <4>2. x[Len(u) + 1 + (i - (Len(u) + 1))] = p[i - (Len(u) + 1)]
        BY <3>1, <3>4
      <4>. QED
        BY <3>4, <4>1, <4>2 DEF Bytes
    <3>. QED
      BY <3>1, <3>2, <3>3, <3>4
  <2>2. /\ Len(v) = Len(o) + Len(x) /\ Len(x) \in Nat
        /\ (\A i \in 1..Len(o) : v[i] = o[i])
        /\ \A i \in 1..Len(x) : v[Len(o) + i] = x[i]
    <3>. HIDE DEF o
    <3>. QED
      BY <1>4, JoinedIs
  <2>. SUFFICES ASSUME NEW i \in 1..Len(v) PROVE Byte(v[i])
    BY <1>4 DEF Bytes
  <2>. HIDE DEF o
  <2>3. CASE i = 1
    <3>1. 1 \in 1..Len(o)
      BY <1>1
    <3>. QED
      BY <1>1, <2>2, <2>3, <3>1
  <2>4. CASE i # 1
    <3>1. i - 1 \in 1..Len(x) /\ Len(o) + (i - 1) = i
      BY <1>1, <2>2, <2>4
    <3>. QED
      BY <2>1, <2>2, <3>1
  <2>. QED
    BY <2>3, <2>4
<1>6. Decoded(authPlainPayload(u, p)) = v
  <2>1. authPlainPayload(u, p) = base64Encode(v)
    BY DEF authPlainPayload, v
  <2>. QED
    BY <1>5, <2>1, DecodesEncoded
<1>7. Behind(v, 1) = x
  <2>. DEFINE r == Behind(v, 1)
  <2>. HIDE DEF o
  <2>1. Len(v) = 1 + Len(x) /\ Len(x) \in Nat /\ \A i \in 1..Len(x) : v[1 + i] = x[i]
    <3>1. /\ Len(v) = Len(o) + Len(x) /\ Len(x) \in Nat
          /\ \A i \in 1..Len(x) : v[Len(o) + i] = x[i]
      BY <1>4, JoinedIs
    <3>. QED
      BY <1>1, <3>1
  <2>2. 1 \in 0..Len(v) /\ Len(v) - 1 = Len(x)
    BY <2>1
  <2>3. Text(r) /\ Len(r) = Len(v) - 1 /\ \A j \in 1..(Len(v) - 1) : r[j] = v[1 + j]
    BY <1>4, <2>2, BehindIs
  <2>. HIDE DEF r
  <2>4. Len(r) = Len(x) /\ \A j \in 1..Len(r) : r[j] = x[j]
    BY <2>1, <2>2, <2>3
  <2>5. r = x
    BY <1>2, <2>3, <2>4, SameText
  <2>. QED
    BY <2>5 DEF r
<1>8. Cut(x, Nul) = [before |-> u, behind |-> p, found |-> TRUE]
  BY <1>2, CutAt
<1>. QED
  BY <1>6, <1>7, <1>8
-----------------------------------------------------------------------------
(* The login.                                                              *)

\* The inductive invariant: where the URL, the endpoint, the TLS parameters
\* and what was sent come from.
UrlIs ==
  \/ asked = Nothing /\ url \in Texts
  \/ asked \in Asked /\ url = Written(asked)
EndpointIs == endpoint = Refused("Unparsed") \/ endpoint = parseMailUrl(url)
TlsIs == tls # Unset => endpoint.error = "None" /\ tls = Merged(endpoint.tls, endpoint.host)
Logged(name, pass) ==
  \/ way = "AUTH PLAIN" /\ sent = <<authPlainPayload(name, pass)>>
  \/ way = "AUTH LOGIN" /\ sent = <<base64Encode(name), base64Encode(pass)>>
  \/ way = "USER PASS" /\ sent = <<name, pass>>
SentIs ==
  way # "None" =>
    /\ endpoint.error = "None" /\ endpoint.userinfo.username # <<>>
    /\ Logged(endpoint.userinfo.username, endpoint.userinfo.password)
LoginInv == UrlIs /\ EndpointIs /\ TlsIs /\ SentIs

LEMMA UnparsedIs == Refused("Unparsed").error = "Unparsed"
BY DEF Refused

LEMMA LoginInit == Init => LoginInv
<1>. SUFFICES ASSUME Init PROVE LoginInv
  OBVIOUS
<1>1. /\ (asked \in Asked /\ url = Written(asked)) \/ (asked = Nothing /\ url \in Texts)
      /\ endpoint = Refused("Unparsed") /\ tls = Unset /\ way = "None"
  BY DEF Init
<1>. QED
  BY <1>1, Zenon DEF LoginInv, UrlIs, EndpointIs, TlsIs, SentIs

LEMMA LoginStep == LoginInv /\ [Next]_vars => LoginInv'
<1>. SUFFICES ASSUME LoginInv, [Next]_vars PROVE LoginInv'
  OBVIOUS
<1>1. UrlIs /\ EndpointIs /\ TlsIs /\ SentIs
  BY DEF LoginInv
<1>2. CASE Parse
  <2>1. /\ endpoint.error = "Unparsed" /\ endpoint' = parseMailUrl(url)
        /\ asked' = asked /\ builder' = builder /\ url' = url /\ tls' = tls /\ way' = way
        /\ sent' = sent
    BY <1>2 DEF Parse
  <2>2. "Unparsed" # "None"
    OBVIOUS
  <2>3. endpoint.error # "None"
    BY <2>1, <2>2
  <2>4. tls = Unset /\ way = "None"
    BY <1>1, <2>3, Zenon DEF TlsIs, SentIs
  <2>5. UrlIs'
    BY <1>1, <2>1, Zenon DEF UrlIs
  <2>6. EndpointIs'
    BY <2>1, Zenon DEF EndpointIs
  <2>7. TlsIs'
    <3>1. tls' = Unset
      BY <2>1, <2>4, Zenon
    <3>. QED
      BY <3>1, Zenon DEF TlsIs, Unset
  <2>8. SentIs'
    BY <2>1, <2>4, Zenon DEF SentIs
  <2>. QED
    BY <2>5, <2>6, <2>7, <2>8 DEF LoginInv
<1>3. CASE Connect
  <2>1. /\ endpoint.error = "None" /\ tls' = Merged(endpoint.tls, endpoint.host)
        /\ asked' = asked /\ builder' = builder /\ url' = url /\ endpoint' = endpoint
        /\ way' = way /\ sent' = sent
    BY <1>3 DEF Connect
  <2>2. UrlIs'
    BY <1>1, <2>1, Zenon DEF UrlIs
  <2>3. EndpointIs'
    BY <1>1, <2>1, Zenon DEF EndpointIs
  <2>4. TlsIs'
    BY <2>1, Zenon DEF TlsIs, Merged
  <2>5. SentIs'
    BY <1>1, <2>1, Zenon DEF SentIs, Logged
  <2>. QED
    BY <2>2, <2>3, <2>4, <2>5 DEF LoginInv
<1>4. CASE Authenticate
  <2>. DEFINE name == endpoint.userinfo.username
              pass == endpoint.userinfo.password
  <2>1. /\ tls # Unset /\ name # <<>>
        /\ \/ way' = "AUTH PLAIN" /\ sent' = <<authPlainPayload(name, pass)>>
           \/ way' = "AUTH LOGIN" /\ sent' = <<base64Encode(name), base64Encode(pass)>>
           \/ way' = "USER PASS" /\ sent' = <<name, pass>>
        /\ asked' = asked /\ builder' = builder /\ url' = url /\ endpoint' = endpoint
        /\ tls' = tls
    BY <1>4, Zenon DEF Authenticate
  <2>2. UrlIs'
    BY <1>1, <2>1, Zenon DEF UrlIs
  <2>3. EndpointIs'
    BY <1>1, <2>1, Zenon DEF EndpointIs
  <2>4. TlsIs'
    BY <1>1, <2>1, Zenon DEF TlsIs, Merged
  <2>5. endpoint.error = "None"
    BY <1>1, <2>1, Zenon DEF TlsIs
  <2>6. SentIs'
    BY <2>1, <2>5, Zenon DEF SentIs, Logged
  <2>. QED
    BY <2>2, <2>3, <2>4, <2>6 DEF LoginInv
<1>5. CASE UNCHANGED vars
  <2>1. /\ asked' = asked /\ builder' = builder /\ url' = url /\ endpoint' = endpoint
        /\ tls' = tls /\ way' = way /\ sent' = sent
    BY <1>5 DEF vars
  <2>. QED
    BY <1>1, <2>1, Zenon DEF LoginInv, UrlIs, EndpointIs, TlsIs, SentIs, Merged, Logged
<1>. QED
  BY <1>2, <1>3, <1>4, <1>5 DEF Next

LEMMA LoginInvHolds == Spec => []LoginInv
BY LoginInit, LoginStep, PTL DEF Spec

\* An endpoint without an error is what parseMailUrl accepted.
LEMMA EndpointAccepted ==
  ASSUME LoginInv, endpoint.error = "None"
  PROVE  Text(url) /\ Accepts(url) /\ endpoint = Endpoint(url)
<1>1. UrlIs /\ EndpointIs
  BY DEF LoginInv
<1>2. Text(url)
  <2>1. CASE url \in Texts
    BY <2>1, LoginAssumption DEF LoginAssumption, Text
  <2>2. CASE asked \in Asked /\ url = Written(asked)
    <3>1. Wanted(asked) /\ Optional(asked)
      BY <2>2, WantedIs, OptionalIs
    <3>. QED
      BY <2>2, <3>1, ParsesAsWritten
  <2>. QED
    BY <1>1, <2>1, <2>2 DEF UrlIs
<1>3. endpoint # Refused("Unparsed")
  BY UnparsedIs
<1>4. endpoint = parseMailUrl(url)
  BY <1>1, <1>3 DEF EndpointIs
<1>5. parseMailUrl(url).error = "None"
  BY <1>4
<1>6. Accepts(url)
  BY <1>5, AcceptedIs
<1>. QED
  BY <1>2, <1>4, <1>6, AcceptedIs

LEMMA AskedIs ==
  ASSUME LoginInv, asked # Nothing
  PROVE  asked \in Asked /\ url = Written(asked) /\ Wanted(asked) /\ Optional(asked)
<1>1. asked \in Asked /\ url = Written(asked)
  BY DEF LoginInv, UrlIs
<1>. QED
  BY <1>1, WantedIs, OptionalIs

\* What is accepted can be dialled, and what users write is refused for its
\* port alone: for any text, and for any host, port, credentials and options
\* that a user may mean (parseMailUrl).
THEOREM AcceptedCanBeDialledHolds == Spec => []AcceptedCanBeDialled
<1>1. LoginInv => AcceptedCanBeDialled
  <2>. SUFFICES ASSUME LoginInv PROVE AcceptedCanBeDialled
    OBVIOUS
  <2>1. ASSUME endpoint.error = "None"
        PROVE  /\ endpoint.host # <<>> /\ First(endpoint.host, At) = 0
               /\ First(endpoint.host, Question) = 0
               /\ endpoint.port \in PortNumbers
               /\ First(endpoint.host, Colon) # 0 =>
                    endpoint.port = defaultPort[url[1]] \/ First(url, Open) # 0
    <3>1. Text(url) /\ Accepts(url) /\ endpoint = Endpoint(url)
      BY <2>1, EndpointAccepted
    <3>2. endpoint.host = HostOf(url) /\ endpoint.port = PortOf(url)
      BY <3>1 DEF Endpoint, HostOf, PortOf
    <3>3. /\ HostOf(url) # <<>> /\ First(HostOf(url), At) = 0 /\ First(HostOf(url), Question) = 0
          /\ PortOf(url) \in PortNumbers
          /\ First(HostOf(url), Colon) # 0 =>
               PortOf(url) = defaultPort[url[1]] \/ First(url, Open) # 0
      BY <3>1, AcceptedDials
    <3>. QED
      BY <3>2, <3>3, Zenon
  <2>2. ASSUME asked # Nothing, endpoint.error \notin {"None", "Unparsed"}
        PROVE  endpoint.error = "InvalidPort" /\ Number(asked.port) \notin PortNumbers
    <3>1. url = Written(asked) /\ Wanted(asked) /\ Optional(asked)
      BY <2>2, AskedIs
    <3>2. endpoint = parseMailUrl(url)
      <4>1. endpoint # Refused("Unparsed")
        BY <2>2, UnparsedIs
      <4>. QED
        BY <4>1 DEF LoginInv, EndpointIs
    <3>3. ~Accepts(url)
      <4>. SUFFICES ASSUME Accepts(url) PROVE FALSE
        OBVIOUS
      <4>1. endpoint = Endpoint(url)
        BY <3>2, AcceptedIs
      <4>2. endpoint.error = "None"
        BY <4>1 DEF Endpoint
      <4>. QED
        BY <2>2, <4>2
    <3>4. parseMailUrl(url) = Refused("InvalidPort") /\ Number(asked.port) \notin PortNumbers
      BY <3>1, <3>3, ParsesAsWritten
    <3>5. endpoint.error = "InvalidPort"
      BY <3>2, <3>4 DEF Refused
    <3>. QED
      BY <3>4, <3>5
  <2>. QED
    BY <2>1, <2>2, Zenon DEF AcceptedCanBeDialled
<1>. QED
  BY <1>1, LoginInvHolds, PTL

\* The bytes of name and password.
LEMMA SecretsAre ==
  ASSUME NEW a \in Asked PROVE Bytes(a.user) /\ Bytes(a.password) /\ NoneIn(a.user, Nul)
<1>. DEFINE U == 1..255
            P == 0..255
            u == a.user
            p == a.password
<1>1. a \in [scheme : Schemes, user : Seq(U), password : Seq(P), host : Seq(Nat),
             port : Seq(48..57), sparing : BOOLEAN,
             options : Seq([key : Nat \ {Equals, Ampersand}, value : Seq(Nat)])]
  BY LoginAssumption DEF LoginAssumption
<1>2. U \subseteq Nat /\ P \subseteq Nat
  OBVIOUS
<1>3. \A c \in U : Byte(c)
  BY DEF Byte
<1>4. \A c \in P : Byte(c)
  BY DEF Byte
<1>. HIDE DEF U, P
<1>5. u \in Seq(U) /\ p \in Seq(P)
  BY <1>1
<1>. HIDE DEF u, p
<1>6. /\ Text(u) /\ \A i \in 1..Len(u) : u[i] \in U
      /\ Text(p) /\ \A i \in 1..Len(p) : p[i] \in P
  BY <1>2, <1>5, IsText
<1>7. Bytes(u) /\ Bytes(p)
  BY <1>3, <1>4, <1>6 DEF Bytes
<1>8. NoneIn(u, Nul)
  BY WantedIs DEF Wanted, u
<1>. QED
  BY <1>7, <1>8 DEF u, p

\* Every way of logging in brings the name and the password to the server as
\* they were typed, from the endpoint that was meant, whatever bytes they are
\* made of and however much of them was escaped (parseMailUrl, percentDecode,
\* base64Encode, authPlainPayload).
THEOREM LogsInAsTypedHolds == Spec => []LogsInAsTyped
<1>1. LoginInv => LogsInAsTyped
  <2>. SUFFICES ASSUME LoginInv, way # "None", asked # Nothing
                PROVE  /\ Credentials = <<asked.user, asked.password>>
                       /\ endpoint.mode = schemeToMode[asked.scheme] /\ endpoint.host = asked.host
                       /\ endpoint.port = IF asked.port = <<>> THEN defaultPort[asked.scheme]
                                          ELSE Number(asked.port)
    BY Zenon DEF LogsInAsTyped
  <2>. DEFINE u == asked.user
              p == asked.password
  <2>1. /\ endpoint.error = "None" /\ endpoint.userinfo.username # <<>>
        /\ Logged(endpoint.userinfo.username, endpoint.userinfo.password)
    BY Zenon DEF LoginInv, SentIs
  <2>2. Text(url) /\ Accepts(url) /\ endpoint = Endpoint(url)
    BY <2>1, EndpointAccepted
  <2>3. asked \in Asked /\ url = Written(asked) /\ Wanted(asked) /\ Optional(asked)
    BY AskedIs
  <2>4. /\ endpoint.host = asked.host /\ endpoint.mode = schemeToMode[asked.scheme]
        /\ endpoint.port = IF asked.port = <<>> THEN defaultPort[asked.scheme] ELSE Number(asked.port)
        /\ u = <<>> => endpoint.userinfo.username = <<>>
        /\ u # <<>> => endpoint.userinfo = [username |-> u, password |-> p]
    BY <2>2, <2>3, ParsesAsWritten
  <2>5. endpoint.userinfo.username = u /\ endpoint.userinfo.password = p
    <3>1. endpoint.userinfo = [username |-> u, password |-> p]
      BY <2>1, <2>4
    <3>. HIDE DEF u, p
    <3>. QED
      BY <3>1
  <2>6. Logged(u, p)
    BY <2>1, <2>5
  <2>7. Bytes(u) /\ Bytes(p) /\ NoneIn(u, Nul)
    BY <2>3, SecretsAre
  <2>. HIDE DEF u, p
  <2>8. Credentials = <<u, p>>
    <3>. DEFINE plain == Cut(Behind(Decoded(sent[1]), 1), Nul)
    <3>1. CASE way = "AUTH PLAIN" /\ sent = <<authPlainPayload(u, p)>>
      <4>1. sent[1] = authPlainPayload(u, p)
        BY <3>1
      <4>2. plain.before = u /\ plain.behind = p
        BY <2>7, <4>1, PlainIs
      <4>3. Credentials = <<plain.before, plain.behind>>
        BY <3>1 DEF Credentials
      <4>. QED
        BY <4>2, <4>3
    <3>2. CASE way = "AUTH LOGIN" /\ sent = <<base64Encode(u), base64Encode(p)>>
      <4>1. sent[1] = base64Encode(u) /\ sent[2] = base64Encode(p)
        BY <3>2
      <4>2. Decoded(sent[1]) = u /\ Decoded(sent[2]) = p
        BY <2>7, <4>1, DecodesEncoded
      <4>3. Credentials = <<Decoded(sent[1]), Decoded(sent[2])>>
        BY <3>2 DEF Credentials
      <4>. QED
        BY <4>2, <4>3
    <3>3. CASE way = "USER PASS" /\ sent = <<u, p>>
      <4>1. Credentials = sent
        BY <3>3 DEF Credentials
      <4>. QED
        BY <3>3, <4>1
    <3>. QED
      BY <2>6, <3>1, <3>2, <3>3 DEF Logged
  <2>. QED
    BY <2>4, <2>8, Zenon DEF u, p
<1>. QED
  BY <1>1, LoginInvHolds, PTL

LEMMA LastOfIs == \A key : LastOf(key) = LastValue(asked, key) \/ ~Optional(asked)
<1>. SUFFICES ASSUME NEW key, Optional(asked) PROVE LastOf(key) = LastValue(asked, key)
  OBVIOUS
<1>. DEFINE K == Keyed(asked, key)
            o == asked.options
            i == SelectLastInSeq(asked.options, LAMBDA x : x.key = key)
<1>1. i = IF K # {} THEN Max(K) ELSE 0
  BY DEF SelectLastInSeq, Keyed, Count
<1>2. LastOf(key) = IF i = 0 THEN <<>> ELSE o[i].value
  BY DEF LastOf
<1>3. K \subseteq 1..Len(o) /\ Len(o) \in Nat
  BY DEF Keyed, Count, Optional
<1>. HIDE DEF K, i, o
<1>4. CASE K = {}
  BY <1>1, <1>2, <1>4 DEF LastValue, K
<1>5. CASE K # {}
  <2>1. K \subseteq 0..Len(o) /\ K \subseteq Nat
    BY <1>3
  <2>2. PICK l \in K : \A y \in K : l >= y
    BY <1>3, <1>5, <2>1, Greatest
  <2>3. Max(K) = l
    BY <2>1, <2>2, MaxIs
  <2>4. i = l /\ i # 0
    BY <1>1, <1>3, <1>5, <2>2, <2>3
  <2>. QED
    BY <1>2, <1>5, <2>3, <2>4 DEF LastValue, K, o
<1>. QED
  BY <1>4, <1>5

\* The TLS parameters a connection is made with are those of the URL and of
\* the builder together, for any options in any order (applyQuery and connect
\* of both clients).
THEOREM TlsAsAskedHolds == Spec => []TlsAsAsked
<1>1. LoginInv => TlsAsAsked
  <2>. SUFFICES ASSUME LoginInv, tls # Unset, asked # Nothing
                PROVE  /\ tls.verify_peer <=> builder.verify_peer \/ LastOf(VerifyPeer) \in Truths
                       /\ tls.ca_path = IF LastOf(CaPath) # <<>> THEN LastOf(CaPath) ELSE builder.ca_path
                       /\ tls.server_name # <<>>
                       /\ LastOf(ServerName) # <<>> => tls.server_name = LastOf(ServerName)
    BY Zenon DEF TlsAsAsked
  <2>1. endpoint.error = "None" /\ tls = Merged(endpoint.tls, endpoint.host)
    BY Zenon DEF LoginInv, TlsIs
  <2>2. Accepts(url) /\ endpoint = Endpoint(url)
    BY <2>1, EndpointAccepted
  <2>3. url = Written(asked) /\ Wanted(asked) /\ Optional(asked)
    BY AskedIs
  <2>. DEFINE h == asked.host
              t == QueryOf(asked, h)
              v == LastOf(VerifyPeer)
              c == LastOf(CaPath)
              n == LastOf(ServerName)
  <2>4. endpoint.host = h /\ endpoint.tls = t /\ h # <<>>
    BY <2>2, <2>3, ParsesAsWritten DEF QueryOf, Wanted
  <2>5. /\ t.ca_path = c /\ t.verify_peer = (v \in Truths)
        /\ t.server_name = IF Keyed(asked, ServerName) = {} THEN h ELSE n
        /\ Keyed(asked, ServerName) = {} => n = <<>>
    BY <2>3, QueryOfOptions, LastOfIs DEF LastValue
  <2>. HIDE DEF h, t, v, c, n
  <2>6. /\ tls.ca_path = IF t.ca_path = <<>> THEN builder.ca_path ELSE t.ca_path
        /\ tls.server_name = IF t.server_name # <<>> THEN t.server_name
                             ELSE IF builder.server_name = <<>> THEN h ELSE builder.server_name
        /\ tls.verify_peer = (t.verify_peer \/ builder.verify_peer)
    <3>1. tls = Merged(t, h)
      BY <2>1, <2>4
    <3>2. /\ Merged(t, h).ca_path = IF t.ca_path = <<>> THEN builder.ca_path ELSE t.ca_path
          /\ Merged(t, h).server_name =
               IF t.server_name # <<>> THEN t.server_name
               ELSE IF builder.server_name = <<>> THEN h ELSE builder.server_name
          /\ Merged(t, h).verify_peer = (t.verify_peer \/ builder.verify_peer)
      BY DEF Merged
    <3>. QED
      BY <3>1, <3>2, Zenon
  <2>7. tls.verify_peer <=> builder.verify_peer \/ v \in Truths
    BY <2>5, <2>6, Zenon
  <2>8. tls.ca_path = IF c # <<>> THEN c ELSE builder.ca_path
    BY <2>5, <2>6
  <2>9. tls.server_name # <<>> /\ (n # <<>> => tls.server_name = n)
    <3>1. tls.server_name # <<>>
      BY <2>4, <2>6
    <3>2. n # <<>> => tls.server_name = n
      BY <2>5, <2>6
    <3>. QED
      BY <3>1, <3>2
  <2>. QED
    BY <2>7, <2>8, <2>9, Zenon DEF v, c, n
<1>. QED
  BY <1>1, LoginInvHolds, PTL
=============================================================================
