----------------------------- MODULE TotalsProofs -----------------------------
(* What Total() computes, for all sequences of natural numbers.               *)
EXTENDS Totals, LeastNumber, TLAPS

\* f holds the sums of the first numbers of s, up to n of them.
TotalsUpTo(s, f, n) ==
  f[0] = 0 /\ \A i \in 1..n : f[i] = f[i - 1] + s[i]

\* There is such a function, so that the recursive definition defines it.
LEMMA TotalsExist ==
  ASSUME NEW s \in Seq(Nat)
  PROVE  \E f \in [0..Len(s) -> Nat] : TotalsUpTo(s, f, Len(s))
<1> DEFINE T == {n \in 0..Len(s) : \E f \in [0..n -> Nat] : TotalsUpTo(s, f, n)}
<1>1. 0 \in T
  <2>1. [n \in 0..0 |-> 0] \in [0..0 -> Nat] /\ TotalsUpTo(s, [n \in 0..0 |-> 0], 0)
    BY DEF TotalsUpTo
  <2> QED BY <2>1
<1>2. ASSUME NEW n \in 0..(Len(s) - 1), n \in T PROVE n + 1 \in T
  <2>1. PICK f \in [0..n -> Nat] : TotalsUpTo(s, f, n)
    BY <1>2
  <2>2. n \in 0..n /\ n + 1 \in 0..Len(s) /\ s[n + 1] \in Nat /\ f[n] \in Nat
    OBVIOUS
  <2> DEFINE g == [i \in 0..(n + 1) |-> IF i = n + 1 THEN f[n] + s[n + 1] ELSE f[i]]
  <2>3. g \in [0..(n + 1) -> Nat]
    BY <2>2
  <2>4. \A i \in 1..(n + 1) : g[i] = g[i - 1] + s[i]
    BY <2>1, <2>2 DEF TotalsUpTo
  <2>5. g[0] = 0
    BY <2>1, <2>2 DEF TotalsUpTo
  <2> QED BY <2>2, <2>3, <2>4, <2>5 DEF TotalsUpTo
<1> HIDE DEF T
<1>3. Len(s) \in Nat
  OBVIOUS
<1>4. \A n \in 0..Len(s) : n \in T
  BY <1>1, <1>2, <1>3, UpToN, Zenon
<1> QED BY <1>4 DEF T

\* What RunningTotal(s) is.
LEMMA RunningTotalDef ==
  ASSUME NEW s \in Seq(Nat)
  PROVE  /\ RunningTotal(s) \in [0..Len(s) -> Nat]
         /\ TotalsUpTo(s, RunningTotal(s), Len(s))
<1> DEFINE Eq(f) == f = [n \in 0..Len(s) |-> IF n = 0 THEN 0 ELSE f[n - 1] + s[n]]
<1>1. RunningTotal(s) = CHOOSE f : Eq(f)
  BY DEF RunningTotal
<1>2. PICK g \in [0..Len(s) -> Nat] : TotalsUpTo(s, g, Len(s))
  BY TotalsExist
<1>3. Eq(g)
  BY <1>2 DEF TotalsUpTo
<1> DEFINE f == RunningTotal(s)
<1>4. Eq(f)
  <2> HIDE DEF Eq
  <2> QED BY <1>1, <1>3, Zenon
<1> HIDE DEF f
<1>5. DOMAIN f = 0..Len(s) /\ f[0] = 0
  BY <1>4
<1>6. \A i \in 1..Len(s) : f[i] = f[i - 1] + s[i]
  <2>1. \A i \in 1..Len(s) : i \in 0..Len(s) /\ i # 0
    OBVIOUS
  <2> QED BY <1>4, <2>1, Zenon
<1>7. \A n \in 0..Len(s) : f[n] \in Nat
  <2> DEFINE T == {n \in 0..Len(s) : f[n] \in Nat}
  <2>1. 0 \in T
    BY <1>5
  <2>2. ASSUME NEW n \in 0..(Len(s) - 1), n \in T PROVE n + 1 \in T
    <3>1. n + 1 \in 1..Len(s) /\ (n + 1) - 1 = n /\ s[n + 1] \in Nat /\ f[n] \in Nat
      BY <2>2
    <3>2. f[n + 1] = f[n] + s[n + 1]
      BY <1>6, <3>1
    <3> QED BY <3>1, <3>2
  <2> HIDE DEF T
  <2>3. Len(s) \in Nat
    OBVIOUS
  <2>4. \A n \in 0..Len(s) : n \in T
    BY <2>1, <2>2, <2>3, UpToN, Zenon
  <2> QED BY <2>4 DEF T
<1>8. f \in [0..Len(s) -> Nat]
  BY <1>4, <1>7
<1> QED BY <1>5, <1>6, <1>8 DEF f, TotalsUpTo

\* Functions that satisfy the recursion, and begin alike, are alike.
LEMMA RunningTotalsAgree ==
  ASSUME NEW s \in Seq(Nat), NEW t \in Seq(Nat), NEW n \in 0..Len(s), n <= Len(t),
         \A i \in 1..n : s[i] = t[i]
  PROVE  RunningTotal(s)[n] = RunningTotal(t)[n]
<1> DEFINE f == RunningTotal(s)
           g == RunningTotal(t)
<1>1. /\ f[0] = 0 /\ \A i \in 1..Len(s) : f[i] = f[i - 1] + s[i]
      /\ g[0] = 0 /\ \A i \in 1..Len(t) : g[i] = g[i - 1] + t[i]
  BY RunningTotalDef DEF TotalsUpTo
<1> HIDE DEF f, g
<1> DEFINE T == {k \in 0..n : f[k] = g[k]}
<1>2. 0 \in T
  BY <1>1
<1>3. ASSUME NEW k \in 0..(n - 1), k \in T PROVE k + 1 \in T
  <2>1. k + 1 \in 1..n /\ k + 1 \in 1..Len(s) /\ k + 1 \in 1..Len(t) /\ (k + 1) - 1 = k
    OBVIOUS
  <2>2. f[k + 1] = f[k] + s[k + 1] /\ g[k + 1] = g[k] + t[k + 1]
    BY <1>1, <2>1
  <2> QED BY <1>3, <2>1, <2>2
<1> HIDE DEF T
<1>4. n \in Nat /\ n \in 0..n
  OBVIOUS
<1>5. n \in T
  BY <1>2, <1>3, <1>4, UpToN, Zenon
<1> QED BY <1>5 DEF T, f, g

\* No numbers have the sum 0.
LEMMA TotalOfNone == Total(<<>>) = 0
<1>1. <<>> \in Seq(Nat) /\ Len(<<>>) = 0
  OBVIOUS
<1> QED BY <1>1, RunningTotalDef DEF Total, TotalsUpTo

\* One number is its own sum.
LEMMA TotalOfOne == ASSUME NEW n \in Nat PROVE Total(<<n>>) = n
<1>1. <<n>> \in Seq(Nat) /\ Len(<<n>>) = 1 /\ <<n>>[1] = n
  OBVIOUS
<1> DEFINE s == <<n>>
<1>2. s \in Seq(Nat) /\ Len(s) = 1 /\ s[1] = n
  BY <1>1
<1> HIDE DEF s
<1>3. Total(s) = n
  BY <1>2, RunningTotalDef DEF Total, TotalsUpTo
<1> QED BY <1>3 DEF s

\* A sum of naturals is a natural.
LEMMA TotalIsNat == ASSUME NEW s \in Seq(Nat) PROVE Total(s) \in Nat
<1>1. Len(s) \in 0..Len(s)
  OBVIOUS
<1> QED BY <1>1, RunningTotalDef DEF Total

\* The sum of a sequence in two parts.
LEMMA TotalOfConcat ==
  ASSUME NEW s \in Seq(Nat), NEW t \in Seq(Nat)
  PROVE  Total(s \o t) = Total(s) + Total(t)
<1> DEFINE u == s \o t
           f == RunningTotal(u)
           g == RunningTotal(t)
<1>1. /\ u \in Seq(Nat) /\ Len(u) = Len(s) + Len(t)
      /\ \A i \in 1..Len(s) : u[i] = s[i]
      /\ \A i \in 1..Len(t) : u[Len(s) + i] = t[i]
  OBVIOUS
<1>2. Len(s) \in Nat /\ Len(t) \in Nat
  OBVIOUS
<1> HIDE DEF u
<1>3. f[Len(s)] = Total(s)
  <2>1. /\ Len(s) \in 0..Len(s) /\ Len(s) <= Len(u)
        /\ \A i \in 1..Len(s) : s[i] = u[i]
    BY <1>1, <1>2
  <2>2. RunningTotal(s)[Len(s)] = RunningTotal(u)[Len(s)]
    BY <1>1, <2>1, RunningTotalsAgree
  <2> QED BY <2>2 DEF Total
<1>4. /\ \A i \in 0..Len(u) : f[i] \in Nat
      /\ \A i \in 1..Len(u) : f[i] = f[i - 1] + u[i]
      /\ \A i \in 0..Len(t) : g[i] \in Nat
      /\ \A i \in 1..Len(t) : g[i] = g[i - 1] + t[i]
      /\ g[0] = 0
  BY <1>1, RunningTotalDef DEF TotalsUpTo
<1> HIDE DEF f, g
<1> DEFINE T == {k \in 0..Len(t) : f[Len(s) + k] = f[Len(s)] + g[k]}
<1>5. 0 \in T
  <2>1. f[Len(s)] \in Nat
    BY <1>1, <1>2, <1>4
  <2> QED BY <1>2, <1>4, <2>1
<1>6. ASSUME NEW k \in 0..(Len(t) - 1), k \in T PROVE k + 1 \in T
  <2>0. k \in 0..Len(t) /\ f[Len(s) + k] = f[Len(s)] + g[k]
    BY <1>6
  <2> HIDE DEF T
  <2>1. /\ k + 1 \in 1..Len(t) /\ (k + 1) - 1 = k /\ k \in 0..Len(t)
        /\ Len(s) + (k + 1) \in 1..Len(u) /\ Len(s) + (k + 1) - 1 = Len(s) + k
        /\ Len(s) + k \in 0..Len(u) /\ Len(s) \in 0..Len(u)
    BY <1>1, <1>2
  <2>2. /\ f[Len(s) + (k + 1)] = f[Len(s) + k] + u[Len(s) + (k + 1)]
        /\ g[k + 1] = g[k] + t[k + 1]
        /\ u[Len(s) + (k + 1)] = t[k + 1]
    <3> DEFINE j == Len(s) + (k + 1)
    <3>1. j \in 1..Len(u) /\ j - 1 = Len(s) + k
      BY <2>1
    <3> HIDE DEF j
    <3>2. f[j] = f[j - 1] + u[j]
      BY <1>4, <3>1
    <3>3. f[j] = f[Len(s) + k] + u[j]
      BY <3>1, <3>2
    <3>4. g[k + 1] = g[k] + t[k + 1]
      BY <1>4, <2>1
    <3>5. u[j] = t[k + 1]
      BY <1>1, <2>1 DEF j
    <3> QED BY <3>3, <3>4, <3>5 DEF j
  <2>3. f[Len(s)] \in Nat /\ g[k] \in Nat
    BY <1>4, <2>1, Zenon
  <2>4. t[k + 1] \in Nat
    BY <2>1
  <2>5. f[Len(s) + (k + 1)] = f[Len(s)] + g[k + 1]
    BY <2>0, <2>2, <2>3, <2>4
  <2>6. k + 1 \in 0..Len(t)
    BY <2>1
  <2> QED BY <2>5, <2>6 DEF T
<1> HIDE DEF T
<1>7. Len(t) \in T
  <2>1. Len(t) \in 0..Len(t)
    BY <1>2
  <2> QED BY <1>2, <1>5, <1>6, <2>1, UpToN, Zenon
<1>8. f[Len(s) + Len(t)] = f[Len(s)] + g[Len(t)]
  BY <1>7 DEF T
<1> QED BY <1>1, <1>3, <1>8 DEF Total, f, g, u

----------------------------------------------------------------------------
(* Sequences in parts.                                                     *)

\* Sequences are equal if their elements are.
LEMMA SequencesEqual ==
  ASSUME NEW S, NEW a \in Seq(S), NEW b \in Seq(S), Len(a) = Len(b),
         \A i \in 1..Len(a) : a[i] = b[i]
  PROVE  a = b
OBVIOUS

\* The members of a concatenation, by place.
LEMMA ConcatFacts ==
  ASSUME NEW S, NEW a \in Seq(S), NEW b \in Seq(S)
  PROVE  /\ a \o b \in Seq(S) /\ Len(a \o b) = Len(a) + Len(b)
         /\ \A i \in 1..Len(a \o b) :
              (a \o b)[i] = IF i <= Len(a) THEN a[i] ELSE b[i - Len(a)]
OBVIOUS

\* The members of a prefix, by place.
LEMMA PrefixFacts ==
  ASSUME NEW S, NEW s \in Seq(S), NEW k \in 0..Len(s)
  PROVE  /\ SubSeq(s, 1, k) \in Seq(S) /\ Len(SubSeq(s, 1, k)) = k
         /\ \A i \in 1..k : SubSeq(s, 1, k)[i] = s[i]
OBVIOUS

\* The members of a suffix, by place.
LEMMA SuffixFacts ==
  ASSUME NEW S, NEW s \in Seq(S), NEW k \in 0..Len(s)
  PROVE  /\ SubSeq(s, k + 1, Len(s)) \in Seq(S)
         /\ Len(SubSeq(s, k + 1, Len(s))) = Len(s) - k
         /\ \A i \in 1..(Len(s) - k) : SubSeq(s, k + 1, Len(s))[i] = s[k + i]
OBVIOUS

\* A sequence in two parts.
LEMMA SequenceSplit ==
  ASSUME NEW S, NEW s \in Seq(S), NEW k \in 0..Len(s)
  PROVE  /\ SubSeq(s, 1, k) \in Seq(S) /\ SubSeq(s, k + 1, Len(s)) \in Seq(S)
         /\ s = SubSeq(s, 1, k) \o SubSeq(s, k + 1, Len(s))
<1> DEFINE a == SubSeq(s, 1, k)
           b == SubSeq(s, k + 1, Len(s))
<1>1. a \in Seq(S) /\ Len(a) = k /\ \A i \in 1..k : a[i] = s[i]
  OBVIOUS
<1>2. /\ b \in Seq(S) /\ Len(b) = Len(s) - k
      /\ \A i \in 1..(Len(s) - k) : b[i] = s[k + i]
  OBVIOUS
<1>3. Len(s) \in Nat
  OBVIOUS
<1> HIDE DEF a, b
<1>4. a \o b \in Seq(S) /\ Len(a \o b) = Len(s)
  BY <1>1, <1>2, <1>3
<1>5. ASSUME NEW i \in 1..Len(s) PROVE s[i] = (a \o b)[i]
  <2>1. CASE i <= k
    BY <1>1, <1>2, <2>1
  <2>2. CASE ~(i <= k)
    <3>1. i - k \in 1..(Len(s) - k) /\ k + (i - k) = i
      BY <2>2
    <3>2. b[i - k] = s[i]
      BY <1>2, <3>1
    <3>3. (a \o b)[i] = b[i - k]
      BY <1>1, <1>2, <2>2, <3>1
    <3> QED BY <3>2, <3>3
  <2> QED BY <2>1, <2>2
<1>6. s = a \o b
  BY <1>4, <1>5, SequencesEqual
<1> QED BY <1>1, <1>2, <1>6 DEF a, b

\* A sequence is its first member and the rest.
LEMMA HeadAndTail ==
  ASSUME NEW S, NEW s \in Seq(S), s # <<>>
  PROVE  Head(s) \in S /\ Tail(s) \in Seq(S) /\ s = <<Head(s)>> \o Tail(s)
<1>1. Head(s) \in S /\ Tail(s) \in Seq(S) /\ Head(s) = s[1] /\ Len(s) \in Nat \ {0}
      /\ Len(Tail(s)) = Len(s) - 1 /\ \A i \in 1..(Len(s) - 1) : Tail(s)[i] = s[i + 1]
  OBVIOUS
<1> DEFINE h == Head(s)
           t == Tail(s)
           u == <<h>> \o t
<1>2. u \in Seq(S) /\ Len(u) = 1 + Len(t) /\ u[1] = h
      /\ \A i \in 1..Len(t) : u[1 + i] = t[i]
  <2> HIDE DEF h, t
  <2> QED BY <1>1 DEF h, t
<1> HIDE DEF u
<1>3. \A i \in 1..Len(s) : i = 1 \/ (i - 1 \in 1..(Len(s) - 1) /\ 1 + (i - 1) = i
                                    /\ (i - 1) + 1 = i)
  BY <1>1
<1>4. \A i \in 1..Len(s) : s[i] = u[i]
  BY <1>1, <1>2, <1>3
<1>5. Len(s) = Len(u)
  BY <1>1, <1>2
<1>6. s = u
  BY <1>2, <1>4, <1>5, SequencesEqual
<1> QED BY <1>1, <1>6 DEF u

\* Concatenation may be done in any order.
LEMMA ConcatAssociative ==
  ASSUME NEW S, NEW a \in Seq(S), NEW b \in Seq(S), NEW c \in Seq(S)
  PROVE  (a \o b) \o c = a \o (b \o c)
OBVIOUS

\* Appending to the second part is appending to the whole.
LEMMA AppendToConcat ==
  ASSUME NEW S, NEW a \in Seq(S), NEW b \in Seq(S), NEW x \in S
  PROVE  a \o Append(b, x) = Append(a \o b, x)
OBVIOUS

\* The end of a sequence that is longer by t.
LEMMA SuffixOfConcat ==
  ASSUME NEW S, NEW s \in Seq(S), NEW t \in Seq(S), NEW k \in 0..Len(s)
  PROVE  SubSeq(s \o t, k + 1, Len(s \o t)) = SubSeq(s, k + 1, Len(s)) \o t
<1> DEFINE u == s \o t
           a == SubSeq(s, k + 1, Len(s))
           l == SubSeq(u, k + 1, Len(u))
           r == a \o t
<1>1. /\ u \in Seq(S) /\ Len(u) = Len(s) + Len(t) /\ Len(s) \in Nat /\ Len(t) \in Nat
      /\ \A i \in 1..Len(u) : u[i] = IF i <= Len(s) THEN s[i] ELSE t[i - Len(s)]
  OBVIOUS
<1>2. /\ a \in Seq(S) /\ Len(a) = Len(s) - k
      /\ \A i \in 1..(Len(s) - k) : a[i] = s[k + i]
  BY SuffixFacts
<1> HIDE DEF u, a
<1>3. /\ r \in Seq(S) /\ Len(r) = Len(a) + Len(t)
      /\ \A i \in 1..Len(r) : r[i] = IF i <= Len(a) THEN a[i] ELSE t[i - Len(a)]
  BY <1>2, ConcatFacts
<1>4. k \in 0..Len(u)
  BY <1>1
<1>5. /\ l \in Seq(S) /\ Len(l) = Len(u) - k
      /\ \A i \in 1..(Len(u) - k) : l[i] = u[k + i]
  BY <1>1, <1>4, SuffixFacts
<1> HIDE DEF r, l
<1>6. ASSUME NEW i \in 1..Len(l) PROVE l[i] = r[i]
  <2>1. /\ i \in 1..(Len(u) - k) /\ i \in 1..Len(r) /\ k + i \in 1..Len(u)
        /\ (k + i) - Len(s) = i - Len(a) /\ (k + i <= Len(s) <=> i <= Len(a))
        /\ (i <= Len(a) => i \in 1..(Len(s) - k))
    BY <1>1, <1>2, <1>3, <1>5
  <2>2. l[i] = u[k + i] /\ r[i] = IF i <= Len(a) THEN a[i] ELSE t[i - Len(a)]
    BY <1>3, <1>5, <2>1, Zenon
  <2>3. u[k + i] = IF k + i <= Len(s) THEN s[k + i] ELSE t[(k + i) - Len(s)]
    BY <1>1, <2>1, Zenon
  <2>4. i <= Len(a) => a[i] = s[k + i]
    BY <1>2, <2>1
  <2> QED BY <2>1, <2>2, <2>3, <2>4, Zenon
<1>7. Len(l) = Len(r)
  BY <1>1, <1>2, <1>3, <1>5
<1>8. l = r
  BY <1>3, <1>5, <1>6, <1>7, SequencesEqual
<1> QED BY <1>8 DEF l, r, u, a

----------------------------------------------------------------------------
(* What a sequence amounts to, if x counts for g[x].                       *)

Image(g, s) == [i \in 1..Len(s) |-> g[s[i]]]

\* The images of the members, by place.
LEMMA ImageType ==
  ASSUME NEW S, NEW g \in [S -> Nat], NEW s \in Seq(S)
  PROVE  /\ Image(g, s) \in Seq(Nat) /\ Len(Image(g, s)) = Len(s)
         /\ \A i \in 1..Len(s) : Image(g, s)[i] = g[s[i]]
<1>1. \A i \in 1..Len(s) : g[s[i]] \in Nat
  OBVIOUS
<1> QED BY <1>1 DEF Image

\* The images of two sequences follow one another like these.
LEMMA ImageOfConcat ==
  ASSUME NEW S, NEW g \in [S -> Nat], NEW s \in Seq(S), NEW t \in Seq(S)
  PROVE  Image(g, s \o t) = Image(g, s) \o Image(g, t)
<1>0. ASSUME NEW q \in Seq(S)
      PROVE  /\ Image(g, q) \in Seq(Nat) /\ Len(Image(g, q)) = Len(q)
             /\ \A i \in 1..Len(q) : Image(g, q)[i] = g[q[i]]
  <2>1. \A i \in 1..Len(q) : g[q[i]] \in Nat
    OBVIOUS
  <2> QED BY <2>1 DEF Image
<1> DEFINE u == s \o t
           a == Image(g, s)
           b == Image(g, t)
           v == a \o b
<1>1. /\ u \in Seq(S) /\ Len(u) = Len(s) + Len(t)
      /\ Len(s) \in Nat /\ Len(t) \in Nat
      /\ \A i \in 1..Len(u) : u[i] = IF i <= Len(s) THEN s[i] ELSE t[i - Len(s)]
  OBVIOUS
<1>2. /\ a \in Seq(Nat) /\ Len(a) = Len(s) /\ \A i \in 1..Len(s) : a[i] = g[s[i]]
      /\ b \in Seq(Nat) /\ Len(b) = Len(t) /\ \A i \in 1..Len(t) : b[i] = g[t[i]]
  BY ImageType
<1> HIDE DEF a, b
<1>3. /\ v \in Seq(Nat) /\ Len(v) = Len(a) + Len(b)
      /\ \A i \in 1..Len(v) : v[i] = IF i <= Len(a) THEN a[i] ELSE b[i - Len(a)]
  BY <1>2, ConcatFacts
<1> HIDE DEF u, v
<1>4. /\ Image(g, u) \in Seq(Nat) /\ Len(Image(g, u)) = Len(u)
      /\ \A i \in 1..Len(u) : Image(g, u)[i] = g[u[i]]
  BY <1>0, <1>1, Zenon
<1>5. \A i \in 1..Len(u) : Image(g, u)[i] = v[i]
  <2> SUFFICES ASSUME NEW i \in 1..Len(u) PROVE Image(g, u)[i] = v[i]
    OBVIOUS
  <2>1. i \in 1..Len(v)
    BY <1>1, <1>2, <1>3
  <2>2. CASE i <= Len(s)
    <3>1. i \in 1..Len(s)
      BY <1>1, <2>2
    <3>2. Image(g, u)[i] = g[u[i]] /\ u[i] = s[i]
      BY <1>1, <1>4, <2>2, Zenon
    <3>3. v[i] = a[i] /\ a[i] = g[s[i]]
      BY <1>2, <1>3, <2>1, <2>2, <3>1
    <3> QED BY <3>2, <3>3
  <2>3. CASE ~(i <= Len(s))
    <3>1. i - Len(s) \in 1..Len(t)
      BY <1>1, <2>3
    <3>2. Image(g, u)[i] = g[u[i]] /\ u[i] = t[i - Len(s)]
      BY <1>1, <1>4, <2>3, Zenon
    <3>3. v[i] = b[i - Len(s)] /\ b[i - Len(s)] = g[t[i - Len(s)]]
      BY <1>2, <1>3, <2>1, <2>3, <3>1
    <3> QED BY <3>2, <3>3
  <2> QED BY <2>2, <2>3
<1>6. Image(g, u) = v
  BY <1>1, <1>2, <1>3, <1>4, <1>5, SequencesEqual
<1> QED BY <1>6 DEF u, v, a, b

\* Sums of images are naturals, and add up.
LEMMA ImageTotals ==
  ASSUME NEW S, NEW g \in [S -> Nat]
  PROVE  /\ Total(Image(g, <<>>)) = 0
         /\ \A x \in S : Total(Image(g, <<x>>)) = g[x]
         /\ \A s \in Seq(S) : Total(Image(g, s)) \in Nat
         /\ \A s, t \in Seq(S) :
              Total(Image(g, s \o t)) = Total(Image(g, s)) + Total(Image(g, t))
<1>1. Total(Image(g, <<>>)) = 0
  <2>1. <<>> \in Seq(S) /\ Len(<<>>) = 0
    OBVIOUS
  <2>2. Image(g, <<>>) = <<>>
    BY <2>1 DEF Image
  <2> QED BY <2>2, TotalOfNone
<1>2. ASSUME NEW x \in S PROVE Total(Image(g, <<x>>)) = g[x]
  <2> DEFINE s == <<x>>
             r == <<g[x]>>
  <2>1. s \in Seq(S) /\ Len(s) = 1 /\ s[1] = x
    OBVIOUS
  <2>2. g[x] \in Nat /\ r \in Seq(Nat) /\ Len(r) = 1 /\ r[1] = g[x]
    OBVIOUS
  <2>3. Total(r) = g[x]
    BY <2>2, TotalOfOne
  <2> HIDE DEF s, r
  <2>4. Image(g, s) \in Seq(Nat) /\ Len(Image(g, s)) = 1 /\ Image(g, s)[1] = g[x]
    BY <2>1, ImageType
  <2>5. \A i \in 1..1 : i = 1
    OBVIOUS
  <2>6. Image(g, s) = r
    BY <2>2, <2>4, <2>5, SequencesEqual
  <2> QED BY <2>3, <2>6 DEF s
<1>3. \A s \in Seq(S) : Total(Image(g, s)) \in Nat
  BY ImageType, TotalIsNat
<1>4. ASSUME NEW s \in Seq(S), NEW t \in Seq(S)
      PROVE  Total(Image(g, s \o t)) = Total(Image(g, s)) + Total(Image(g, t))
  <2>1. Image(g, s) \in Seq(Nat) /\ Image(g, t) \in Seq(Nat)
    BY ImageType
  <2>2. Image(g, s \o t) = Image(g, s) \o Image(g, t)
    BY ImageOfConcat
  <2>3. Total(Image(g, s) \o Image(g, t)) = Total(Image(g, s)) + Total(Image(g, t))
    BY <2>1, TotalOfConcat
  <2> QED BY <2>2, <2>3, Zenon
<1> QED BY <1>1, <1>2, <1>3, <1>4
=============================================================================
