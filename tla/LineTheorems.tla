---------------------------- MODULE LineTheorems ----------------------------
(* What leaves a line and what is left of it; what is least in a set.       *)
EXTENDS Lines, SequenceTheorems, FiniteSetTheorems, TLAPS

\* Without(s, r) drops the first r of s and moves what is behind it up.
LEMMA WithoutShape ==
  ASSUME NEW S, NEW s \in Seq(S), NEW r, \E i \in DOMAIN s : s[i] = r
  PROVE  \E k \in 1 .. Len(s) :
           /\ s[k] = r
           /\ Without(s, r) \in Seq(S)
           /\ Len(Without(s, r)) = Len(s) - 1
           /\ \A i \in 1 .. Len(s) - 1 :
                Without(s, r)[i] = IF i < k THEN s[i] ELSE s[i + 1]
<1> DEFINE k == CHOOSE i \in DOMAIN s : s[i] = r
           a == SubSeq(s, 1, k - 1)
           b == SubSeq(s, k + 1, Len(s))
<1>1. k \in 1 .. Len(s) /\ s[k] = r
  BY LenProperties
<1>2. Len(s) \in Nat /\ \A i \in 1 .. Len(s) : s[i] \in S
  BY LenProperties, ElementOfSeq
<1> HIDE DEF k
<1>3. /\ a \in Seq(S) /\ Len(a) = k - 1
      /\ \A i \in 1 .. k - 1 : a[i] = s[i]
  <2>1. \A i \in 1 .. k - 1 : s[i] \in S
    BY <1>1, <1>2
  <2> QED BY <1>1, <1>2, <2>1, SubSeqProperties
<1>4. /\ b \in Seq(S) /\ Len(b) = Len(s) - k
      /\ \A i \in 1 .. Len(s) - k : b[i] = s[k + i]
  <2>1. \A i \in k + 1 .. Len(s) : s[i] \in S
    BY <1>1, <1>2
  <2> QED BY <1>1, <1>2, <2>1, SubSeqProperties
<1>5. Without(s, r) = a \o b
  BY <1>1 DEF Without, RemoveAt, k
<1> HIDE DEF a, b
<1>6. /\ a \o b \in Seq(S) /\ Len(a \o b) = Len(a) + Len(b)
      /\ \A i \in 1 .. Len(a) + Len(b) : (a \o b)[i] = IF i <= Len(a) THEN a[i] ELSE b[i - Len(a)]
  BY <1>3, <1>4, ConcatProperties
<1> DEFINE c == a \o b
<1>7. Len(c) = Len(s) - 1
  BY <1>1, <1>2, <1>3, <1>4, <1>6
<1>8. ASSUME NEW i \in 1 .. Len(s) - 1
      PROVE  c[i] = IF i < k THEN s[i] ELSE s[i + 1]
  <2>0. i \in Nat /\ k \in Nat /\ Len(s) \in Nat
    BY <1>1, <1>2
  <2>1. CASE i < k
    <3>1. i \in 1 .. k - 1 /\ i <= Len(a) /\ i \in 1 .. Len(a) + Len(b)
      BY <2>0, <2>1, <1>1, <1>3, <1>4
    <3> QED BY <3>1, <2>1, <1>3, <1>6
  <2>2. CASE ~(i < k)
    <3>1. /\ ~(i <= Len(a)) /\ i \in 1 .. Len(a) + Len(b)
          /\ i - Len(a) = i + 1 - k /\ i + 1 - k \in 1 .. Len(s) - k
          /\ k + (i + 1 - k) = i + 1
      BY <2>0, <2>2, <1>1, <1>3, <1>4
    <3>2. c[i] = b[i + 1 - k]
      BY <3>1, <1>6
    <3>3. b[i + 1 - k] = s[i + 1]
      BY <3>1, <1>4
    <3> QED BY <2>2, <3>2, <3>3
  <2> QED BY <2>1, <2>2
<1> HIDE DEF c
<1>9. Without(s, r) = c /\ c \in Seq(S)
  BY <1>5, <1>6 DEF c
<1> QED BY <1>1, <1>7, <1>8, <1>9

\* Without(s, r) is a subsequence of s.
LEMMA WithoutIsSubsequence ==
  ASSUME NEW S, NEW s \in Seq(S), NEW r
  PROVE  /\ Without(s, r) \in Seq(S)
         /\ ToSet(Without(s, r)) \subseteq ToSet(s)
         /\ \A i, j \in DOMAIN Without(s, r) : i <= j =>
              \E m, n \in DOMAIN s :
                m <= n /\ s[m] = Without(s, r)[i] /\ s[n] = Without(s, r)[j]
<1>1. CASE \E i \in DOMAIN s : s[i] = r
  <2>1. PICK k \in 1 .. Len(s) :
           /\ s[k] = r
           /\ Without(s, r) \in Seq(S)
           /\ Len(Without(s, r)) = Len(s) - 1
           /\ \A i \in 1 .. Len(s) - 1 :
                Without(s, r)[i] = IF i < k THEN s[i] ELSE s[i + 1]
    BY <1>1, WithoutShape
  <2> DEFINE w == Without(s, r)
             up(i) == IF i < k THEN i ELSE i + 1
  <2>2. DOMAIN w = 1 .. Len(s) - 1 /\ DOMAIN s = 1 .. Len(s) /\ Len(s) \in Nat
    BY <2>1, LenProperties
  <2>3. \A i \in DOMAIN w : up(i) \in DOMAIN s /\ w[i] = s[up(i)]
    BY <2>1, <2>2
  <2>4. \A i, j \in DOMAIN w : i <= j => up(i) <= up(j)
    BY <2>2
  <2> HIDE DEF w, up
  <2>5. \A i, j \in DOMAIN w : i <= j =>
          \E m, n \in DOMAIN s : m <= n /\ s[m] = w[i] /\ s[n] = w[j]
    BY <2>3, <2>4
  <2>6. ToSet(w) \subseteq ToSet(s)
    BY <2>3 DEF ToSet
  <2> QED BY <2>1, <2>5, <2>6 DEF w
<1>2. CASE ~\E i \in DOMAIN s : s[i] = r
  <2>1. Without(s, r) = s
    BY <1>2 DEF Without
  <2> QED BY <2>1
<1> QED BY <1>1, <1>2

\* Where s holds everything once, Without(s, r) holds all of it but r, and
\* the front stays the front.
LEMMA WithoutInjective ==
  ASSUME NEW S, NEW s \in Seq(S), NEW r
  PROVE  IsInjective(s) =>
           /\ IsInjective(Without(s, r))
           /\ ToSet(Without(s, r)) = ToSet(s) \ {r}
           /\ s # <<>> /\ Head(s) # r =>
                Without(s, r) # <<>> /\ Head(Without(s, r)) = Head(s)
<1>1. CASE \E i \in DOMAIN s : s[i] = r
  <2>1. PICK k \in 1 .. Len(s) :
           /\ s[k] = r
           /\ Without(s, r) \in Seq(S)
           /\ Len(Without(s, r)) = Len(s) - 1
           /\ \A i \in 1 .. Len(s) - 1 :
                Without(s, r)[i] = IF i < k THEN s[i] ELSE s[i + 1]
    BY <1>1, WithoutShape
  <2> SUFFICES ASSUME IsInjective(s)
               PROVE  /\ IsInjective(Without(s, r))
                      /\ ToSet(Without(s, r)) = ToSet(s) \ {r}
                      /\ s # <<>> /\ Head(s) # r =>
                           Without(s, r) # <<>> /\ Head(Without(s, r)) = Head(s)
    OBVIOUS
  <2> DEFINE w == Without(s, r)
             up(i) == IF i < k THEN i ELSE i + 1
             down(i) == IF i < k THEN i ELSE i - 1
  <2>2. DOMAIN w = 1 .. Len(s) - 1 /\ DOMAIN s = 1 .. Len(s) /\ Len(s) \in Nat
        /\ Len(w) = Len(s) - 1 /\ w \in Seq(S)
    BY <2>1, LenProperties
  <2>3. \A i \in DOMAIN w : up(i) \in DOMAIN s /\ w[i] = s[up(i)] /\ up(i) # k
    BY <2>1, <2>2
  <2>4. \A i, j \in DOMAIN w : up(i) = up(j) => i = j
    BY <2>2
  <2>5. \A i \in DOMAIN s : i # k => down(i) \in DOMAIN w /\ up(down(i)) = i
    BY <2>2
  <2>6. s # <<>> /\ Head(s) # r => w # <<>> /\ Head(w) = Head(s)
    <3> SUFFICES ASSUME s # <<>>, Head(s) # r PROVE w # <<>> /\ Head(w) = Head(s)
      OBVIOUS
    <3>1. Head(s) = s[1] /\ k # 1
      BY <2>1, <2>2
    <3>2. 1 \in DOMAIN w /\ up(1) = 1
      BY <2>2, <3>1
    <3>3. w # <<>> /\ Head(w) = w[1]
      BY <2>2, <3>2
    <3> QED BY <2>3, <3>1, <3>2, <3>3
  <2> HIDE DEF w, up, down
  <2>7. IsInjective(w)
    BY <2>3, <2>4 DEF IsInjective
  <2>8. ToSet(w) = ToSet(s) \ {r}
    <3>1. \A i \in DOMAIN s : s[i] = r => i = k
      BY <2>1, <2>2 DEF IsInjective
    <3>2. ToSet(w) \subseteq ToSet(s) \ {r}
      BY <2>3, <3>1 DEF ToSet
    <3>3. ASSUME NEW x \in ToSet(s) \ {r} PROVE x \in ToSet(w)
      <4>1. PICK i \in DOMAIN s : s[i] = x
        BY DEF ToSet
      <4>2. i # k
        BY <4>1, <2>1
      <4> QED BY <4>1, <4>2, <2>3, <2>5 DEF ToSet
    <3> QED BY <3>2, <3>3
  <2> QED BY <2>6, <2>7, <2>8 DEF w
<1>2. CASE ~\E i \in DOMAIN s : s[i] = r
  <2>1. Without(s, r) = s
    BY <1>2 DEF Without
  <2> QED BY <1>2, <2>1 DEF ToSet
<1> QED BY <1>1, <1>2

\* Serving the front of a line: what is left is the rest of it.
LEMMA TailProperties ==
  ASSUME NEW S, NEW s \in Seq(S), s # <<>>
  PROVE  /\ Head(s) = s[1] /\ Head(s) \in S /\ Head(s) \in ToSet(s)
         /\ Tail(s) \in Seq(S)
         /\ DOMAIN s = 1 .. Len(s) /\ 1 \in DOMAIN s
         /\ \A i \in DOMAIN Tail(s) : i + 1 \in DOMAIN s /\ Tail(s)[i] = s[i + 1]
         /\ \A i \in DOMAIN s : i # 1 => i - 1 \in DOMAIN Tail(s)
         /\ <<Head(s)>> \o Tail(s) = s
<1>1. /\ Len(s) \in Nat /\ Len(s) # 0 /\ DOMAIN s = 1 .. Len(s)
      /\ Tail(s) \in Seq(S) /\ Len(Tail(s)) = Len(s) - 1
      /\ DOMAIN Tail(s) = 1 .. Len(s) - 1
      /\ \A i \in 1 .. Len(Tail(s)) : Tail(s)[i] = s[i + 1]
  BY EmptySeq, HeadTailProperties, LenProperties
<1>2. Head(s) = s[1] /\ Head(s) \in S /\ Head(s) \in ToSet(s)
  BY <1>1, HeadTailProperties DEF ToSet
<1>3. \A i \in DOMAIN Tail(s) : i + 1 \in DOMAIN s /\ Tail(s)[i] = s[i + 1]
  BY <1>1
<1>4. <<Head(s)>> \o Tail(s) = s
  BY <1>1, <1>2
<1> QED BY <1>1, <1>2, <1>3, <1>4

LEMMA TailInjective ==
  ASSUME NEW S, NEW s \in Seq(S), s # <<>>, IsInjective(s)
  PROVE  IsInjective(Tail(s)) /\ ToSet(Tail(s)) = ToSet(s) \ {Head(s)}
<1>1. IsInjective(Tail(s))
  <2> SUFFICES ASSUME NEW i \in DOMAIN Tail(s), NEW j \in DOMAIN Tail(s),
                      Tail(s)[i] = Tail(s)[j]
               PROVE  i = j
    BY DEF IsInjective
  <2>1. i + 1 = j + 1
    BY TailProperties DEF IsInjective
  <2>2. i \in Nat /\ j \in Nat
    BY TailProperties, LenProperties
  <2> QED BY <2>1, <2>2
<1>2. ToSet(Tail(s)) \subseteq ToSet(s) \ {Head(s)}
  <2> SUFFICES ASSUME NEW i \in DOMAIN Tail(s)
               PROVE  Tail(s)[i] \in ToSet(s) \ {Head(s)}
    BY DEF ToSet
  <2>1. i + 1 \in DOMAIN s /\ Tail(s)[i] = s[i + 1] /\ s[1] = Head(s) /\ 1 \in DOMAIN s
    BY TailProperties
  <2>2. i + 1 # 1
    BY TailProperties, LenProperties
  <2> QED BY <2>1, <2>2 DEF IsInjective, ToSet
<1>3. ToSet(s) \ {Head(s)} \subseteq ToSet(Tail(s))
  <2> SUFFICES ASSUME NEW i \in DOMAIN s, s[i] # Head(s)
               PROVE  s[i] \in ToSet(Tail(s))
    BY DEF ToSet
  <2>1. i - 1 \in DOMAIN Tail(s) /\ i \in Nat
    BY TailProperties
  <2>2. Tail(s)[i - 1] = s[i - 1 + 1] /\ i - 1 + 1 = i
    BY <2>1, TailProperties
  <2> QED BY <2>1, <2>2 DEF ToSet
<1> QED BY <1>1, <1>2, <1>3

\* Joining a line: x stands behind everyone who stands there.
LEMMA AppendShape ==
  ASSUME NEW S, NEW s \in Seq(S), NEW x \in S
  PROVE  /\ Append(s, x) \in Seq(S)
         /\ Append(s, x) # <<>>
         /\ ToSet(Append(s, x)) = ToSet(s) \cup {x}
         /\ s # <<>> => Head(Append(s, x)) = Head(s)
         /\ \A i \in DOMAIN Append(s, x) :
              \/ i \in DOMAIN s /\ i <= Len(s) /\ Append(s, x)[i] = s[i]
              \/ i = Len(s) + 1 /\ Append(s, x)[i] = x
         /\ IsInjective(s) /\ x \notin ToSet(s) => IsInjective(Append(s, x))
<1> DEFINE t == Append(s, x)
<1>1. /\ t \in Seq(S) /\ Len(t) = Len(s) + 1 /\ Len(s) \in Nat
      /\ DOMAIN t = 1 .. Len(s) + 1 /\ DOMAIN s = 1 .. Len(s)
      /\ \A i \in 1 .. Len(s) : t[i] = s[i]
      /\ t[Len(s) + 1] = x
  BY AppendProperties, LenProperties
<1>2. \A i \in DOMAIN t : \/ i \in DOMAIN s /\ i <= Len(s) /\ t[i] = s[i]
                          \/ i = Len(s) + 1 /\ t[i] = x
  BY <1>1
<1>3. ToSet(t) = ToSet(s) \cup {x}
  <2>1. \A i \in DOMAIN s : i \in DOMAIN t /\ t[i] = s[i]
    BY <1>1
  <2>2. Len(s) + 1 \in DOMAIN t
    BY <1>1
  <2> HIDE DEF t
  <2> QED BY <1>1, <1>2, <2>1, <2>2 DEF ToSet
<1>4. t # <<>> /\ (s # <<>> => Head(t) = Head(s))
  <2>1. t # <<>>
    BY <1>1
  <2>2. ASSUME s # <<>> PROVE Head(t) = Head(s)
    <3>1. Head(t) = t[1] /\ Head(s) = s[1] /\ 1 \in 1 .. Len(s)
      BY <1>1, <2>1, <2>2, TailProperties
    <3> QED BY <1>1, <3>1
  <2> QED BY <2>1, <2>2
<1>5. IsInjective(s) /\ x \notin ToSet(s) => IsInjective(t)
  <2> HIDE DEF t
  <2> SUFFICES ASSUME IsInjective(s), x \notin ToSet(s),
                      NEW i \in DOMAIN t, NEW j \in DOMAIN t, t[i] = t[j]
               PROVE  i = j
    BY DEF IsInjective
  <2>1. \A n \in DOMAIN s : s[n] # x
    BY DEF ToSet
  <2> QED BY <1>2, <2>1 DEF IsInjective
<1> QED BY <1>1, <1>2, <1>3, <1>4, <1>5

\* What stays in a line keeps those ahead of it: nobody gets in front.
LEMMA WithoutKeepsPlace ==
  ASSUME NEW S, NEW s \in Seq(S), NEW r, NEW i \in DOMAIN s, s[i] # r
  PROVE  \E j \in DOMAIN Without(s, r) :
           /\ Without(s, r)[j] = s[i]
           /\ \A k \in 1 .. j : \E m \in 1 .. i : Without(s, r)[k] = s[m]
<1>1. CASE \E k \in DOMAIN s : s[k] = r
  <2>1. PICK k \in 1 .. Len(s) :
           /\ s[k] = r
           /\ Without(s, r) \in Seq(S)
           /\ Len(Without(s, r)) = Len(s) - 1
           /\ \A n \in 1 .. Len(s) - 1 :
                Without(s, r)[n] = IF n < k THEN s[n] ELSE s[n + 1]
    BY <1>1, WithoutShape
  <2> DEFINE w == Without(s, r)
             j == IF i < k THEN i ELSE i - 1
  <2>2. DOMAIN w = 1 .. Len(s) - 1 /\ DOMAIN s = 1 .. Len(s) /\ Len(s) \in Nat
    BY <2>1, LenProperties
  <2>3. i # k /\ i \in Nat /\ k \in Nat
    BY <2>1, <2>2
  <2>4. j \in DOMAIN w /\ w[j] = s[i] /\ j \in Nat
    BY <2>1, <2>2, <2>3
  <2>5. ASSUME NEW n \in 1 .. j PROVE \E m \in 1 .. i : w[n] = s[m]
    <3>1. n \in 1 .. Len(s) - 1
      BY <2>2, <2>4
    <3>2. CASE n < k
      BY <2>1, <2>3, <3>1, <3>2
    <3>3. CASE ~(n < k)
      <4>1. n + 1 \in 1 .. i /\ w[n] = s[n + 1]
        BY <2>1, <2>3, <3>1, <3>3
      <4> QED BY <4>1
    <3> QED BY <3>2, <3>3
  <2> HIDE DEF w, j
  <2>6. \E n \in DOMAIN w : w[n] = s[i] /\ \A l \in 1 .. n : \E m \in 1 .. i : w[l] = s[m]
    BY <2>4, <2>5
  <2> QED BY <2>6 DEF w
<1>2. CASE ~\E k \in DOMAIN s : s[k] = r
  <2>1. Without(s, r) = s
    BY <1>2 DEF Without
  <2> QED BY <2>1
<1> QED BY <1>1, <1>2

----------------------------------------------------------------------------
(* Finite sets *)

\* Induction over the subsets of a finite set: a set of them has one that
\* includes no other.
LEMMA SmallestSubset ==
  ASSUME NEW S, IsFiniteSet(S), NEW Bad \in SUBSET (SUBSET S), Bad # {}
  PROVE  \E T \in Bad : \A U \in SUBSET T : U # T => U \notin Bad
<1>1. /\ FiniteSubsetsOf(S) = SUBSET S
      /\ IsWellFoundedOn(StrictSubsetOrdering(S), FiniteSubsetsOf(S))
  BY FS_FiniteSubsetsOfFinite, FS_StrictSubsetOrderingWellFounded
<1>2. PICK T \in Bad : \A U \in Bad : <<U, T>> \notin StrictSubsetOrdering(S)
  <2> DEFINE R == StrictSubsetOrdering(S)
  <2>1. IsWellFoundedOn(R, SUBSET S) /\ Bad \subseteq SUBSET S
    BY <1>1
  <2> HIDE DEF R
  <2>2. \E T \in Bad : \A U \in Bad : ~(<<U, T>> \in R)
    BY <2>1, WFMin
  <2> QED BY <2>2 DEF R
<1>3. ASSUME NEW U \in SUBSET T, U # T PROVE U \notin Bad
  <2>1. <<U, T>> \in StrictSubsetOrdering(S)
    BY <1>2, <1>3 DEF StrictSubsetOrdering
  <2> QED BY <1>2, <2>1
<1> QED BY <1>2, <1>3

\* Max and Min are those of the set.
LEMMA MaxOfFinite ==
  ASSUME NEW C \in SUBSET Nat, IsFiniteSet(C), C # {}
  PROVE  Max(C) \in C /\ \A x \in C : x <= Max(C)
<1> DEFINE Above(x) == {y \in C : y > x}
           Bad == {Above(x) : x \in C}
<1>1. Bad \in SUBSET (SUBSET C) /\ Bad # {}
  OBVIOUS
<1> HIDE DEF Bad
<1>2. PICK T \in Bad : \A U \in SUBSET T : U # T => U \notin Bad
  BY <1>1, SmallestSubset
<1>3. PICK x \in C : T = Above(x)
  BY <1>2 DEF Bad
<1>4. ASSUME NEW y \in C, y > x PROVE FALSE
  <2>1. x \in Nat /\ y \in Nat /\ ~(y > y) /\ \A z \in C : z > y => z > x
    BY <1>4
  <2>2. Above(y) \subseteq Above(x) /\ y \in Above(x) /\ y \notin Above(y)
    BY <1>4, <2>1
  <2>3. Above(y) \in SUBSET T /\ Above(y) # T
    BY <1>3, <2>2
  <2>4. Above(y) \in Bad
    BY DEF Bad
  <2> QED BY <1>2, <2>3, <2>4
<1>5. \A y \in C : x >= y
  BY <1>4
<1>6. Max(C) \in C /\ \A y \in C : Max(C) >= y
  BY <1>5 DEF Max
<1> QED BY <1>6

LEMMA MinOfNats ==
  ASSUME NEW C \in SUBSET Nat, IsFiniteSet(C), C # {}
  PROVE  Min(C) \in C /\ \A x \in C : Min(C) <= x
<1> DEFINE Below(x) == {y \in C : y < x}
           Bad == {Below(x) : x \in C}
<1>1. Bad \in SUBSET (SUBSET C) /\ Bad # {}
  OBVIOUS
<1> HIDE DEF Bad
<1>2. PICK T \in Bad : \A U \in SUBSET T : U # T => U \notin Bad
  BY <1>1, SmallestSubset
<1>3. PICK x \in C : T = Below(x)
  BY <1>2 DEF Bad
<1>4. ASSUME NEW y \in C, y < x PROVE FALSE
  <2>1. x \in Nat /\ y \in Nat /\ ~(y < y) /\ \A z \in C : z < y => z < x
    BY <1>4
  <2>2. Below(y) \subseteq Below(x) /\ y \in Below(x) /\ y \notin Below(y)
    BY <1>4, <2>1
  <2>3. Below(y) \in SUBSET T /\ Below(y) # T
    BY <1>3, <2>2
  <2>4. Below(y) \in Bad
    BY DEF Bad
  <2> QED BY <1>2, <2>3, <2>4
<1>5. \A y \in C : x <= y
  BY <1>4
<1> QED BY <1>5 DEF Min
=============================================================================
