----------------------------- MODULE ListFacts -----------------------------
(***************************************************************************)
(* Facts about the operators on sequences that the models are built from,  *)
(* for the proofs about them.  Induction is by a least counterexample.     *)
(***************************************************************************)
EXTENDS Integers, SequencesExt, TLAPS, WellFoundedInduction, SequenceTheorems

-----------------------------------------------------------------------------
(***************************************************************************)
(* The first match.                                                        *)
(***************************************************************************)
\* A set of natural numbers that is not empty has a least element.
LEMMA LeastNat ==
    ASSUME NEW T \in SUBSET Nat, T # {}
    PROVE  \E n \in T : \A m \in T : n <= m
<1> DEFINE R == OpToRel(<, Nat)
<1>1. IsWellFoundedOn(R, Nat)
  BY NatLessThanWellFounded, Zenon
<1> HIDE DEF R
<1>2. PICK n \in T : \A m \in T : ~(<<m, n>> \in R)
  BY <1>1, WFMin
<1>3. ASSUME NEW m \in T, m < n PROVE FALSE
  <2>1. <<m, n>> \in R
    BY <1>3 DEF R, OpToRel
  <2> QED
    BY <1>2, <2>1
<1> QED
  BY <1>2, <1>3

\* The community modules' Min is that element.
LEMMA MinIsLeast ==
    ASSUME NEW T \in SUBSET Nat, T # {}
    PROVE  Min(T) \in T /\ \A m \in T : Min(T) <= m
BY LeastNat DEF Min

\* A sequence without its i-th element
LEMMA RemoveAtProperties ==
    ASSUME NEW S, NEW s \in Seq(S), NEW i \in 1..Len(s)
    PROVE  /\ RemoveAt(s, i) \in Seq(S)
           /\ Len(RemoveAt(s, i)) = Len(s) - 1
           /\ \A j \in 1..(Len(s) - 1) :
                RemoveAt(s, i)[j] = IF j < i THEN s[j] ELSE s[j + 1]
<1> DEFINE a == SubSeq(s, 1, i - 1)
           b == SubSeq(s, i + 1, Len(s))
<1>0. Len(s) \in Nat /\ i \in Nat /\ 1 <= i /\ i <= Len(s)
  BY LenProperties
<1>e. \A k \in 1..Len(s) : s[k] \in S
  BY ElementOfSeq
<1>1. a \in Seq(S) /\ Len(a) = i - 1 /\ \A j \in 1..(i - 1) : a[j] = s[j]
  <2>1. \A k \in 1..(i - 1) : s[k] \in S
    BY <1>0, <1>e
  <2>2. 1..(i - 1) \subseteq 1..Len(s)
    BY <1>0
  <2> QED
    BY <1>0, <2>1, <2>2, SubSeqProperties
<1>2. /\ b \in Seq(S) /\ Len(b) = Len(s) - i
      /\ \A j \in 1..(Len(s) - i) : b[j] = s[i + j]
  <2>1. /\ b \in Seq(S) /\ Len(b) = (IF i + 1 <= Len(s) THEN Len(s) - (i + 1) + 1 ELSE 0)
        /\ \A j \in 1..(Len(s) - (i + 1) + 1) : b[j] = s[i + 1 + j - 1]
    BY <1>0, <1>e, SubSeqProperties
  <2> QED
    BY <1>0, <2>1
<1> HIDE DEF a, b
<1>3. /\ a \o b \in Seq(S)
      /\ Len(a \o b) = Len(a) + Len(b)
      /\ \A k \in 1..(Len(a) + Len(b)) :
           (a \o b)[k] = IF k <= Len(a) THEN a[k] ELSE b[k - Len(a)]
  BY <1>1, <1>2, ConcatProperties
<1>4. RemoveAt(s, i) = a \o b
  BY DEF RemoveAt, a, b
<1>5. ASSUME NEW j \in 1..(Len(s) - 1)
      PROVE  (a \o b)[j] = IF j < i THEN s[j] ELSE s[j + 1]
  <2>1. CASE j < i
    BY <1>0, <1>1, <1>2, <1>3, <2>1
  <2>2. CASE ~(j < i)
    <3>1. j - (i - 1) \in 1..(Len(s) - i) /\ i + (j - (i - 1)) = j + 1
      BY <1>0, <2>2
    <3>2. (a \o b)[j] = b[j - (i - 1)]
      BY <1>0, <1>1, <1>2, <1>3, <2>2
    <3>3. b[j - (i - 1)] = s[i + (j - (i - 1))]
      BY <1>2, <3>1
    <3> QED
      BY <2>2, <3>1, <3>2, <3>3
  <2> QED
    BY <2>1, <2>2
<1>6. Len(a) + Len(b) = Len(s) - 1
  BY <1>0, <1>1, <1>2
<1> QED
  BY <1>3, <1>4, <1>5, <1>6

-----------------------------------------------------------------------------
(***************************************************************************)
(* Sequences put one behind the other.                                     *)
(***************************************************************************)
\* What the recursive function in FlattenSeq is, for the first m sequences
Joins(f, ss, m) ==
    f = [i \in 1..m |-> IF i = 1 THEN ss[i] ELSE f[i - 1] \o ss[i]]

\* There is one.
LEMMA JoinsExist ==
    ASSUME NEW ss, NEW n \in Nat PROVE \E f : Joins(f, ss, n)
<1> DEFINE T == {m \in 0..n : ~\E f : Joins(f, ss, m)}
<1>1. CASE T = {}
  BY <1>1
<1>2. CASE T # {}
  <2>1. PICK m \in T : \A k \in T : m <= k
    <3>1. T \in SUBSET Nat
      OBVIOUS
    <3> QED
      BY <1>2, <3>1, LeastNat
  <2>2. m \in 0..n /\ ~\E f : Joins(f, ss, m)
    BY <2>1
  <2>3. CASE m = 0
    <3> DEFINE none == [i \in 1..0 |-> <<>>]
    <3>1. Joins(none, ss, 0)
      BY DEF Joins
    <3> QED
      BY <2>2, <2>3, <3>1
  <2>4. CASE m # 0
    <3>1. m - 1 \in 0..n /\ m - 1 \notin T
      BY <2>1, <2>2, <2>4
    <3>2. PICK f : Joins(f, ss, m - 1)
      BY <3>1
    <3> DEFINE this == IF m = 1 THEN ss[m] ELSE f[m - 1] \o ss[m]
               longer == [i \in 1..m |-> IF i = m THEN this ELSE f[i]]
               step(i) == IF i = 1 THEN ss[i] ELSE longer[i - 1] \o ss[i]
    <3>3. ASSUME NEW i \in 1..m PROVE longer[i] = step(i)
      <4>1. i # 1 => longer[i - 1] = f[i - 1]
        BY <2>2
      <4>2. CASE i = m
        BY <4>1, <4>2
      <4>3. CASE i # m
        <5>1. i \in 1..(m - 1)
          BY <2>2, <4>3
        <5>2. f[i] = IF i = 1 THEN ss[i] ELSE f[i - 1] \o ss[i]
          BY <3>2, <5>1 DEF Joins
        <5> QED
          BY <4>1, <4>3, <5>2
      <4> QED
        BY <4>2, <4>3
    <3>4. longer = [i \in 1..m |-> step(i)]
      BY <3>3
    <3>5. Joins(longer, ss, m)
      BY <3>4 DEF Joins
    <3> QED
      BY <2>2, <3>5
  <2> QED
    BY <2>3, <2>4
<1> QED
  BY <1>1, <1>2

\* The places of s in t start behind o.
PlacedAt(t, o, s) ==
    \A k \in 1..Len(s) : o + k \in 1..Len(t) /\ t[o + k] = s[k]

\* FlattenSeq puts the sequences one behind the other: offset says where.
Flattened(t, ss, offset, m) ==
    /\ \A b \in 1..m : PlacedAt(t, offset[b], ss[b])
    /\ \A j \in 1..Len(t) : \E b \in 1..m : \E k \in 1..Len(ss[b]) : j = offset[b] + k
    /\ \A b, c \in 1..m : b < c => offset[b] + Len(ss[b]) <= offset[c]

LEMMA FlattenSeqPlaces ==
    ASSUME NEW S, NEW ss \in Seq(Seq(S)), Len(ss) >= 1
    PROVE  /\ FlattenSeq(ss) \in Seq(S)
           /\ \E offset \in [1..Len(ss) -> Nat] :
                Flattened(FlattenSeq(ss), ss, offset, Len(ss))
<1> DEFINE n == Len(ss)
           f == CHOOSE f : Joins(f, ss, n)
           offset == [b \in 1..n |-> IF b = 1 THEN 0 ELSE Len(f[b - 1])]
           P(m) == /\ f[m] \in Seq(S)
                   /\ \A b \in 1..m : offset[b] + Len(ss[b]) <= Len(f[m]) /\ offset[b] \in Nat
                   /\ Flattened(f[m], ss, offset, m)
           T == {m \in 1..n : ~P(m)}
<1>1. n \in Nat /\ n >= 1 /\ \A b \in 1..n : ss[b] \in Seq(S) /\ Len(ss[b]) \in Nat
  BY LenProperties, ElementOfSeq
<1>2. Joins(f, ss, n)
  BY <1>1, JoinsExist, Zenon
<1>3. FlattenSeq(ss) = f[n]
  BY <1>1 DEF FlattenSeq, Joins
<1> HIDE DEF f
<1>4. \A m \in 1..n : f[m] = IF m = 1 THEN ss[m] ELSE f[m - 1] \o ss[m]
  BY <1>2 DEF Joins
<1>5. ASSUME NEW m \in 1..n, m # 1 => P(m - 1) PROVE P(m)
  <2>1. CASE m = 1
    <3>1. f[1] = ss[1] /\ offset[1] = 0 /\ 1..m = {1}
      BY <1>1, <1>4, <2>1
    <3>2. Flattened(f[1], ss, offset, 1)
      <4>1. PlacedAt(f[1], offset[1], ss[1])
        BY <1>1, <3>1 DEF PlacedAt
      <4>2. \A j \in 1..Len(f[1]) : j = offset[1] + j /\ j \in 1..Len(ss[1])
        BY <1>1, <3>1
      <4> HIDE DEF offset
      <4> QED
        BY <4>1, <4>2, <2>1, <3>1 DEF Flattened
    <3> QED
      BY <1>1, <2>1, <3>1, <3>2
  <2>2. CASE m # 1
    <3> DEFINE a == f[m - 1]
               s == ss[m]
    <3>1. m - 1 \in 1..n /\ m \in Nat /\ m >= 2
      BY <1>1, <2>2
    <3>2. P(m - 1)
      BY <1>5, <2>2
    <3>3. f[m] = a \o s /\ a \in Seq(S) /\ s \in Seq(S) /\ offset[m] = Len(a)
      BY <1>1, <1>4, <2>2, <3>1, <3>2
    <3>4. /\ a \o s \in Seq(S) /\ Len(a \o s) = Len(a) + Len(s)
          /\ \A k \in 1..(Len(a) + Len(s)) :
               (a \o s)[k] = IF k <= Len(a) THEN a[k] ELSE s[k - Len(a)]
          /\ Len(a) \in Nat /\ Len(s) \in Nat
      BY <3>3, ConcatProperties, LenProperties, ZenonT(40)
    <3>5. /\ \A b \in 1..(m - 1) : offset[b] + Len(ss[b]) <= Len(a) /\ offset[b] \in Nat
          /\ Flattened(a, ss, offset, m - 1)
      BY <3>2
    <3> HIDE DEF a, s, offset, P
    <3>6. \A b \in 1..m : b = m \/ b \in 1..(m - 1)
      BY <3>1
    <3>7. \A b \in 1..m : offset[b] + Len(ss[b]) <= Len(f[m]) /\ offset[b] \in Nat
      <4>1. Len(f[m]) = Len(a) + Len(s) /\ offset[m] = Len(a) /\ s = ss[m]
        BY <3>3, <3>4 DEF s
      <4>2. \A b \in 1..(m - 1) : Len(ss[b]) \in Nat
        BY <1>1, <3>1
      <4> QED
        <5> TAKE b \in 1..m
        <5>1. CASE b = m
          BY <3>1, <3>4, <4>1, <5>1
        <5>2. CASE b \in 1..(m - 1)
          <6>1. Len(ss[b]) \in Nat /\ offset[b] + Len(ss[b]) <= Len(a) /\ offset[b] \in Nat
            BY <3>5, <4>2, <5>2
          <6> QED
            BY <3>4, <4>1, <6>1, SMTT(30)
        <5> QED
          BY <3>6, <5>1, <5>2
    <3>8. ASSUME NEW b \in 1..m PROVE PlacedAt(f[m], offset[b], ss[b])
      <4>1. CASE b = m
        <5>1. ASSUME NEW k \in 1..Len(s)
              PROVE  Len(a) + k \in 1..Len(f[m]) /\ f[m][Len(a) + k] = s[k]
          <6>1. /\ Len(a) + k \in 1..(Len(a) + Len(s)) /\ ~(Len(a) + k <= Len(a))
                /\ (Len(a) + k) - Len(a) = k
            BY <3>4
          <6>2. (a \o s)[Len(a) + k] = s[(Len(a) + k) - Len(a)]
            BY <3>4, <6>1
          <6> QED
            BY <3>3, <3>4, <6>1, <6>2
        <5>2. offset[b] = Len(a) /\ ss[b] = s
          BY <3>3, <4>1 DEF s
        <5> QED
          BY <5>1, <5>2 DEF PlacedAt
      <4>2. CASE b # m
        <5>1. b \in 1..(m - 1) /\ PlacedAt(a, offset[b], ss[b])
          BY <3>5, <3>6, <4>2 DEF Flattened
        <5> QED
          BY <3>3, <3>4, <5>1, SMTT(30) DEF PlacedAt
      <4> QED
        BY <4>1, <4>2
    <3>9. ASSUME NEW j \in 1..Len(f[m])
          PROVE  \E b \in 1..m : \E k \in 1..Len(ss[b]) : j = offset[b] + k
      <4>1. CASE j <= Len(a)
        <5>1. j \in 1..Len(a)
          BY <3>3, <3>4, <4>1
        <5>2. \E b \in 1..(m - 1) : \E k \in 1..Len(ss[b]) : j = offset[b] + k
          BY <3>5, <5>1 DEF Flattened
        <5> QED
          BY <3>1, <5>2
      <4>2. CASE ~(j <= Len(a))
        <5>1. j - Len(a) \in 1..Len(s) /\ j = offset[m] + (j - Len(a))
          BY <3>3, <3>4, <4>2
        <5>2. m \in 1..m
          BY <3>1
        <5> QED
          BY <5>1, <5>2 DEF s
      <4> QED
        BY <4>1, <4>2
    <3>10. ASSUME NEW b \in 1..m, NEW c \in 1..m, b < c
           PROVE  offset[b] + Len(ss[b]) <= offset[c]
      <4>1. b \in 1..(m - 1)
        BY <3>1, <3>10
      <4>2. CASE c = m
        BY <3>3, <3>5, <4>1, <4>2
      <4>3. CASE c # m
        BY <3>5, <3>6, <3>10, <4>1, <4>3 DEF Flattened
      <4> QED
        BY <4>2, <4>3
    <3>11. Flattened(f[m], ss, offset, m)
      BY <3>8, <3>9, <3>10 DEF Flattened
    <3> QED
      BY <3>3, <3>4, <3>7, <3>11 DEF P
  <2> QED
    BY <2>1, <2>2
<1> HIDE DEF P
<1>6. T = {}
  <2>1. ASSUME T # {} PROVE FALSE
    <3>1. T \in SUBSET Nat
      BY <1>1
    <3>2. PICK m \in T : \A k \in T : m <= k
      BY <2>1, <3>1, LeastNat
    <3>3. m \in 1..n /\ ~P(m) /\ (m # 1 => m - 1 \in 1..n /\ m - 1 \notin T)
      BY <1>1, <3>2
    <3> QED
      BY <1>5, <3>3
  <2> QED
    BY <2>1
<1>7. P(n)
  BY <1>1, <1>6
<1>8. offset \in [1..n -> Nat]
  <2>1. \A b \in 1..n : offset[b] \in Nat
    BY <1>7 DEF P
  <2> QED
    BY <2>1
<1> QED
  BY <1>3, <1>7, <1>8 DEF P

-----------------------------------------------------------------------------
(***************************************************************************)
(* Short sequences, spelled out.                                           *)
(***************************************************************************)
\* A sequence with one more in front
LEMMA Prefixed ==
    ASSUME NEW S, NEW head \in Seq(S), Len(head) = 1, NEW tail \in Seq(S)
    PROVE  /\ head \o tail \in Seq(S) /\ Len(head \o tail) = Len(tail) + 1
           /\ (head \o tail)[1] = head[1]
           /\ \A k \in 1..Len(tail) : (head \o tail)[k + 1] = tail[k]
<1>1. /\ head \o tail \in Seq(S) /\ Len(head \o tail) = 1 + Len(tail) /\ Len(tail) \in Nat
      /\ \A i \in 1..(1 + Len(tail)) : (head \o tail)[i] = IF i <= 1 THEN head[i] ELSE tail[i - 1]
  <2>1. /\ head \o tail \in Seq(S) /\ Len(head \o tail) = Len(head) + Len(tail)
        /\ \A i \in 1..(Len(head) + Len(tail)) :
             (head \o tail)[i] = IF i <= Len(head) THEN head[i] ELSE tail[i - Len(head)]
    BY ConcatProperties, Zenon
  <2>2. Len(tail) \in Nat
    BY LenProperties
  <2> QED
    BY <2>1, <2>2, Zenon
<1>2. (head \o tail)[1] = head[1]
  BY <1>1
<1>3. ASSUME NEW k \in 1..Len(tail) PROVE (head \o tail)[k + 1] = tail[k]
  <2>1. k + 1 \in 1..(1 + Len(tail)) /\ ~(k + 1 <= 1) /\ (k + 1) - 1 = k
    BY <1>1
  <2>2. (head \o tail)[k + 1] = tail[(k + 1) - 1]
    BY <1>1, <2>1
  <2> QED
    BY <2>1, <2>2
<1> QED
  BY <1>1, <1>2, <1>3

\* A name, or a number, behind one and behind two others
LEMMA AppendsAre ==
    ASSUME NEW x, NEW y, NEW z
    PROVE  Append(<<>>, x) = <<x>> /\ Append(<<x>>, y) = <<x, y>> /\ Append(<<x, y>>, z) = <<x, y, z>>
<1> DEFINE S == {x, y, z}
           a == <<x>>
           b == <<x, y>>
           c == <<x, y, z>>
<1>1. /\ a \in Seq(S) /\ Len(a) = 1 /\ a[1] = x /\ y \in S /\ z \in S
      /\ b \in Seq(S) /\ Len(b) = 2 /\ b[1] = x /\ b[2] = y
      /\ c \in Seq(S) /\ Len(c) = 3 /\ c[1] = x /\ c[2] = y /\ c[3] = z
  OBVIOUS
<1>2. Append(<<>>, x) = <<x>>
  OBVIOUS
<1> HIDE DEF a, b, c, S
<1>3. Append(a, y) = b
  <2> DEFINE t == Append(a, y)
  <2>1. /\ t \in Seq(S) /\ Len(t) = Len(a) + 1
        /\ (\A k \in 1..Len(a) : t[k] = a[k]) /\ t[Len(a) + 1] = y
    <3>1. a \in Seq(S) /\ y \in S
      BY <1>1
    <3> QED
      BY <3>1, AppendProperties
  <2> HIDE DEF t
  <2>2. Len(t) = 2 /\ t[1] = x /\ t[2] = y
    BY <1>1, <2>1
  <2>3. \A k \in 1..Len(t) : t[k] = b[k]
    BY <1>1, <2>2
  <2>4. t = b
    BY <1>1, <2>1, <2>2, <2>3, SeqEqual
  <2> QED
    BY <2>4 DEF t
<1>4. Append(b, z) = c
  <2> DEFINE t == Append(b, z)
  <2>1. /\ t \in Seq(S) /\ Len(t) = Len(b) + 1
        /\ (\A k \in 1..Len(b) : t[k] = b[k]) /\ t[Len(b) + 1] = z
    <3>1. b \in Seq(S) /\ z \in S
      BY <1>1
    <3> QED
      BY <3>1, AppendProperties
  <2> HIDE DEF t
  <2>2. Len(t) = 3 /\ t[1] = x /\ t[2] = y /\ t[3] = z
    BY <1>1, <2>1
  <2>3. \A k \in 1..Len(t) : t[k] = c[k]
    BY <1>1, <2>2
  <2>4. t = c
    BY <1>1, <2>1, <2>2, <2>3, SeqEqual
  <2> QED
    BY <2>4 DEF t
<1> QED
  BY <1>2, <1>3, <1>4 DEF a, b, c

\* Short sequences, put together
LEMMA ConcatsAre ==
    ASSUME NEW p, NEW q, NEW a, NEW b
    PROVE  /\ <<p, q>> \o <<a>> = <<p, q, a>>
           /\ <<a>> \o <<b>> = <<a, b>>
           /\ <<p, q>> \o <<a, b>> = <<p, q, a, b>>
<1> DEFINE S == {p, q, a, b}
           pq == <<p, q>>
           sa == <<a>>
           sb == <<b>>
           ab == <<a, b>>
           pqa == <<p, q, a>>
           pqab == <<p, q, a, b>>
<1>1. /\ pq \in Seq(S) /\ Len(pq) = 2 /\ pq[1] = p /\ pq[2] = q
      /\ sa \in Seq(S) /\ Len(sa) = 1 /\ sa[1] = a
      /\ sb \in Seq(S) /\ Len(sb) = 1 /\ sb[1] = b
      /\ ab \in Seq(S) /\ Len(ab) = 2 /\ ab[1] = a /\ ab[2] = b
  OBVIOUS
<1>2. /\ pqa \in Seq(S) /\ Len(pqa) = 3 /\ pqa[1] = p /\ pqa[2] = q /\ pqa[3] = a
      /\ pqab \in Seq(S) /\ Len(pqab) = 4
      /\ pqab[1] = p /\ pqab[2] = q /\ pqab[3] = a /\ pqab[4] = b
  OBVIOUS
<1> HIDE DEF S, pq, sa, sb, ab, pqa, pqab
<1>3. ASSUME NEW s \in Seq(S), NEW t \in Seq(S), NEW u \in Seq(S), Len(u) = Len(s) + Len(t),
             \A k \in 1..Len(s) : u[k] = s[k],
             \A k \in 1..Len(t) : u[Len(s) + k] = t[k]
      PROVE  s \o t = u
  <2> DEFINE c == s \o t
  <2>1. /\ c \in Seq(S) /\ Len(c) = Len(s) + Len(t)
        /\ \A i \in 1..(Len(s) + Len(t)) : c[i] = IF i <= Len(s) THEN s[i] ELSE t[i - Len(s)]
    BY ConcatProperties
  <2>2. Len(s) \in Nat /\ Len(t) \in Nat
    BY LenProperties
  <2> HIDE DEF c
  <2>3. ASSUME NEW i \in 1..Len(c) PROVE c[i] = u[i]
    <3>1. i \in 1..(Len(s) + Len(t))
      BY <2>1
    <3>2. CASE i <= Len(s)
      BY <1>3, <2>1, <2>2, <3>1, <3>2
    <3>3. CASE ~(i <= Len(s))
      <4>1. i - Len(s) \in 1..Len(t) /\ Len(s) + (i - Len(s)) = i
        BY <2>2, <3>1, <3>3
      <4>2. u[Len(s) + (i - Len(s))] = t[i - Len(s)]
        BY <1>3, <4>1
      <4> QED
        BY <2>1, <3>1, <3>3, <4>1, <4>2
    <3> QED
      BY <3>2, <3>3
  <2>4. c = u
    BY <1>3, <2>1, <2>3, SeqEqual
  <2> QED
    BY <2>4 DEF c
<1>4. pq \o sa = pqa
  <2>1. Len(pqa) = Len(pq) + Len(sa)
    BY <1>1, <1>2
  <2>2. \A k \in 1..Len(pq) : pqa[k] = pq[k]
    BY <1>1, <1>2
  <2>3. \A k \in 1..Len(sa) : pqa[Len(pq) + k] = sa[k]
    BY <1>1, <1>2
  <2>4. pq \in Seq(S) /\ sa \in Seq(S) /\ pqa \in Seq(S)
    BY <1>1, <1>2
  <2> QED
    BY <1>3, <2>1, <2>2, <2>3, <2>4
<1>5. sa \o sb = ab
  <2>1. Len(ab) = Len(sa) + Len(sb)
    BY <1>1
  <2>2. \A k \in 1..Len(sa) : ab[k] = sa[k]
    BY <1>1
  <2>3. \A k \in 1..Len(sb) : ab[Len(sa) + k] = sb[k]
    BY <1>1
  <2>4. sa \in Seq(S) /\ sb \in Seq(S) /\ ab \in Seq(S)
    BY <1>1
  <2> QED
    BY <1>3, <2>1, <2>2, <2>3, <2>4
<1>6. pq \o ab = pqab
  <2>1. Len(pqab) = Len(pq) + Len(ab)
    BY <1>1, <1>2
  <2>2. \A k \in 1..Len(pq) : pqab[k] = pq[k]
    BY <1>1, <1>2
  <2>3. \A k \in 1..Len(ab) : pqab[Len(pq) + k] = ab[k]
    BY <1>1, <1>2
  <2>4. pq \in Seq(S) /\ ab \in Seq(S) /\ pqab \in Seq(S)
    BY <1>1, <1>2
  <2> QED
    BY <1>3, <2>1, <2>2, <2>3, <2>4
<1> QED
  BY <1>4, <1>5, <1>6 DEF pq, sa, sb, ab, pqa, pqab

\* Of two equal sequences, all but the last element and the last one are equal.
LEMMA AppendsDiffer ==
    ASSUME NEW S, NEW a \in Seq(S), NEW b \in Seq(S), NEW x \in S, NEW y \in S,
           Append(a, x) = Append(b, y)
    PROVE  a = b /\ x = y
<1> DEFINE t == Append(a, x)
           m == Len(a)
           n == Len(b)
<1>1. /\ Len(t) = m + 1 /\ (\A k \in 1..m : t[k] = a[k]) /\ t[m + 1] = x /\ m \in Nat
  BY AppendProperties, LenProperties
<1>2. /\ Len(t) = n + 1 /\ (\A k \in 1..n : t[k] = b[k]) /\ t[n + 1] = y /\ n \in Nat
  BY AppendProperties, LenProperties
<1> HIDE DEF t
<1>3. m = n
  BY <1>1, <1>2
<1>4. \A k \in 1..m : a[k] = b[k]
  BY <1>1, <1>2, <1>3
<1> QED
  BY <1>1, <1>2, <1>3, <1>4, SeqEqual

\* A function over a sequence with one more at the end
LEMMA MapAppends ==
    ASSUME NEW f, NEW a \in Seq(Nat), NEW i \in Nat
    PROVE  [k \in 1..Len(Append(a, i)) |-> f[Append(a, i)[k]]] =
             Append([k \in 1..Len(a) |-> f[a[k]]], f[i])
<1> DEFINE S == {f[x] : x \in Nat}
           m == [k \in 1..Len(a) |-> f[a[k]]]
           b == Append(a, i)
           l == [k \in 1..Len(b) |-> f[b[k]]]
           n == Len(a)
<1>1. n \in Nat /\ \A k \in 1..n : a[k] \in Nat
  BY ElementOfSeq, LenProperties
<1>2. b \in Seq(Nat) /\ Len(b) = n + 1 /\ (\A k \in 1..n : b[k] = a[k]) /\ b[n + 1] = i
  BY AppendProperties
<1> HIDE DEF b, n
<1>3. m \in Seq(S) /\ Len(m) = n /\ \A k \in 1..n : m[k] = f[a[k]]
  <2>1. \A k \in 1..n : f[a[k]] \in S
    BY <1>1
  <2> QED
    BY <1>1, <2>1 DEF n
<1>4. l \in Seq(S) /\ Len(l) = n + 1 /\ \A k \in 1..(n + 1) : l[k] = f[b[k]]
  <2>1. \A k \in 1..(n + 1) : b[k] \in Nat
    BY <1>2, ElementOfSeq
  <2>2. \A k \in 1..(n + 1) : f[b[k]] \in S
    BY <2>1
  <2> QED
    BY <1>1, <1>2, <2>2, SMTT(30)
<1>5. f[i] \in S
  OBVIOUS
<1> HIDE DEF S, m, l
<1>6. /\ Append(m, f[i]) \in Seq(S) /\ Len(Append(m, f[i])) = n + 1
      /\ (\A k \in 1..n : Append(m, f[i])[k] = m[k]) /\ Append(m, f[i])[n + 1] = f[i]
  BY <1>3, <1>5, AppendProperties
<1>7. \A k \in 1..(n + 1) : l[k] = Append(m, f[i])[k]
  <2> TAKE k \in 1..(n + 1)
  <2>1. l[k] = f[b[k]]
    BY <1>4
  <2>2. CASE k = n + 1
    <3>1. b[k] = i /\ Append(m, f[i])[k] = f[i]
      BY <1>2, <1>6, <2>2
    <3> QED
      BY <2>1, <3>1
  <2>3. CASE k \in 1..n
    BY <1>2, <1>3, <1>6, <2>1, <2>3
  <2>4. k = n + 1 \/ k \in 1..n
    BY <1>1
  <2> QED
    BY <2>2, <2>3, <2>4, Zenon
<1>8. l = Append(m, f[i])
  BY <1>4, <1>6, <1>7, SeqEqual, Zenon
<1> QED
  BY <1>8 DEF l, m, b
=============================================================================
