----------------------------- MODULE ListLemmas -----------------------------
(***************************************************************************)
(* Facts about FoldLeft and about Kept, the sequences that a filter leaves.*)
(***************************************************************************)
EXTENDS Filter, DataLemmas

-----------------------------------------------------------------------------
(* Folding over a sequence of N elements: g gives the value for every set  *)
(* of indices, whose greatest one is the last to be applied.               *)

Folded(g, F, b, A, N) ==
  /\ g \in [SUBSET (1..N) -> A]
  /\ \A t \in SUBSET (1..N) : g[t] = IF t = {} THEN b ELSE F[<<Max(t), g[t \ {Max(t)}]>>]

LEMMA MaxOf ==
  ASSUME NEW N \in Nat, NEW t \in SUBSET (1..N), t # {}
  PROVE  Max(t) \in t /\ \A n \in t : n <= Max(t)
BY MaxIsGreatest

LEMMA MaxUpTo == \A n \in Nat \ {0} : Max(1..n) = n /\ (1..n) \ {n} = 1..(n - 1)
<1>1. TAKE n \in Nat \ {0}
<1>2. n \in Nat /\ 1..n \in SUBSET (1..n) /\ n \in 1..n /\ 1..n # {}
  OBVIOUS
<1>3. Max(1..n) \in 1..n /\ \A m \in 1..n : m <= Max(1..n)
  BY <1>2, MaxOf
<1>4. Max(1..n) = n
  BY <1>2, <1>3
<1> QED BY <1>4

\* If it exists up to n - 1 it exists up to n.
LEMMA FoldExists ==
  ASSUME NEW N \in Nat, NEW A, NEW b \in A, NEW F \in [(1..N) \X A -> A]
  PROVE  \E g : Folded(g, F, b, A, N)
<1> DEFINE G == { n \in 0..N : \E g : Folded(g, F, b, A, n) }
<1>1. 0 \in G
  <2>1. \A t \in SUBSET (1..0) : t = {}
    OBVIOUS
  <2>2. Folded([t \in SUBSET (1..0) |-> b], F, b, A, 0)
    BY <2>1 DEF Folded
  <2> QED BY <2>2
<1>2. ASSUME NEW n \in 1..N, n - 1 \in G PROVE n \in G
  <2>1. PICK g : Folded(g, F, b, A, n - 1)
    BY <1>2
  <2> DEFINE h == [t \in SUBSET (1..n) |->
                     IF n \in t THEN F[<<n, g[t \ {n}]>>] ELSE g[t]]
  <2>2. ASSUME NEW t \in SUBSET (1..n)
        PROVE  /\ n \in t => t \ {n} \in SUBSET (1..(n - 1)) /\ Max(t) = n
               /\ n \notin t => t \in SUBSET (1..(n - 1))
    <3>1. ASSUME n \in t PROVE Max(t) = n
      <4>1. n \in Nat /\ t # {}
        BY <3>1
      <4>2. Max(t) \in t /\ \A m \in t : m <= Max(t)
        BY <4>1, MaxOf
      <4>3. n <= Max(t) /\ Max(t) \in 1..n
        BY <3>1, <4>2
      <4> QED BY <4>3
    <3> QED BY <3>1
  <2>3. \A t \in SUBSET (1..n) : h[t] \in A
    <3>1. ASSUME NEW t \in SUBSET (1..n), n \in t PROVE h[t] \in A
      <4>1. g[t \ {n}] \in A
        BY <2>1, <2>2, <3>1 DEF Folded
      <4>2. <<n, g[t \ {n}]>> \in (1..N) \X A
        BY <4>1
      <4> QED BY <3>1, <4>2
    <3> QED BY <2>1, <2>2, <3>1 DEF Folded
  <2>4. ASSUME NEW t \in SUBSET (1..n)
        PROVE  h[t] = IF t = {} THEN b ELSE F[<<Max(t), h[t \ {Max(t)}]>>]
    <3>1. CASE n \in t
      <4>1. n \notin t \ {n} /\ t \ {n} \in SUBSET (1..n)
        OBVIOUS
      <4>2. h[t \ {n}] = g[t \ {n}]
        BY <4>1
      <4>3. h[t] = F[<<n, h[t \ {n}]>>]
        BY <3>1, <4>2
      <4>4. Max(t) = n
        BY <2>2, <3>1
      <4> QED BY <3>1, <4>3, <4>4
    <3>2. CASE n \notin t
      <4>1. h[t] = g[t] /\ t \in SUBSET (1..(n - 1))
        BY <2>2, <3>2
      <4>2. g[t] = IF t = {} THEN b ELSE F[<<Max(t), g[t \ {Max(t)}]>>]
        BY <2>1, <4>1 DEF Folded
      <4>3. n \notin t \ {Max(t)} /\ t \ {Max(t)} \in SUBSET (1..n)
        BY <3>2
      <4>4. h[t \ {Max(t)}] = g[t \ {Max(t)}]
        BY <4>3
      <4> QED BY <4>1, <4>2, <4>4
    <3> QED BY <3>1, <3>2
  <2>5. h \in [SUBSET (1..n) -> A]
    <3>1. h = [t \in SUBSET (1..n) |-> h[t]]
      OBVIOUS
    <3> HIDE DEF h
    <3> QED BY <2>3, <3>1
  <2> HIDE DEF h
  <2>6. Folded(h, F, b, A, n)
    BY <2>4, <2>5 DEF Folded
  <2> QED BY <2>6
<1> HIDE DEF G
<1>3. N \in G
  BY <1>1, <1>2, UpToInduction
<1> QED BY <1>3 DEF G

-----------------------------------------------------------------------------
(* Kept                                                                    *)

KeptBy(g, s, S) ==
  g = [t \in SUBSET DOMAIN s |->
         IF t = {} THEN <<>>
         ELSE IF s[Max(t)] \in S THEN Append(g[t \ {Max(t)}], s[Max(t)])
              ELSE g[t \ {Max(t)}]]

LEMMA KeptByExists ==
  ASSUME NEW T, NEW s \in Seq(T), NEW S
  PROVE  \E g : KeptBy(g, s, S)
<1> DEFINE N == Len(s)
           A == Seq(T)
           F == [p \in (1..N) \X A |->
                   IF s[p[1]] \in S THEN Append(p[2], s[p[1]]) ELSE p[2]]
<1>1. N \in Nat /\ DOMAIN s = 1..N /\ \A i \in 1..N : s[i] \in T
  BY LenProperties, ElementOfSeq
<1>2. <<>> \in A
  OBVIOUS
<1>3. \A i \in 1..N, a \in A :
        F[<<i, a>>] = IF s[i] \in S THEN Append(a, s[i]) ELSE a
  OBVIOUS
<1>4. \A i \in 1..N, a \in A : F[<<i, a>>] \in A
  BY <1>1, <1>3, AppendProperties
<1>5. F \in [(1..N) \X A -> A]
  BY <1>4
<1> HIDE DEF F, A, N
<1>6. PICK g : Folded(g, F, <<>>, A, N)
  BY <1>1, <1>2, <1>5, FoldExists
<1>7. ASSUME NEW t \in SUBSET (1..N)
      PROVE  g[t] = IF t = {} THEN <<>>
                    ELSE IF s[Max(t)] \in S THEN Append(g[t \ {Max(t)}], s[Max(t)])
                    ELSE g[t \ {Max(t)}]
  <2>1. g[t] = IF t = {} THEN <<>> ELSE F[<<Max(t), g[t \ {Max(t)}]>>]
    BY <1>6 DEF Folded
  <2>2. ASSUME t # {} PROVE Max(t) \in 1..N /\ g[t \ {Max(t)}] \in A
    <3>1. Max(t) \in t
      BY <1>1, <2>2, MaxOf
    <3> QED BY <1>6, <3>1 DEF Folded
  <2> QED BY <1>3, <2>1, <2>2
<1>8. g = [t \in SUBSET (1..N) |-> g[t]]
  BY <1>6 DEF Folded
<1>9. g = [t \in SUBSET (1..N) |->
             IF t = {} THEN <<>>
             ELSE IF s[Max(t)] \in S THEN Append(g[t \ {Max(t)}], s[Max(t)])
             ELSE g[t \ {Max(t)}]]
  BY <1>7, <1>8
<1> QED BY <1>1, <1>9 DEF KeptBy

\* Kept is given by such a g.
LEMMA KeptIsGiven ==
  ASSUME NEW T, NEW s \in Seq(T), NEW S
  PROVE  \E g : KeptBy(g, s, S) /\ Kept(s, S) = g[DOMAIN s]
<1> DEFINE g == CHOOSE g : KeptBy(g, s, S)
<1>1. KeptBy(g, s, S)
  BY KeptByExists, Zenon
<1>2. Kept(s, S) = g[DOMAIN s]
  BY Zenon DEF Kept, FoldLeft, MapThenFoldSet, KeptBy
<1> HIDE DEF g
<1> QED BY <1>1, <1>2

\* The elements are tried one after the other.
LEMMA KeptSteps ==
  ASSUME NEW T, NEW s \in Seq(T), NEW S
  PROVE  \E k : /\ k[0] = <<>> /\ Kept(s, S) = k[Len(s)]
               /\ \A n \in 1..Len(s) :
                    k[n] = IF s[n] \in S THEN Append(k[n - 1], s[n]) ELSE k[n - 1]
<1>1. PICK g : KeptBy(g, s, S) /\ Kept(s, S) = g[DOMAIN s]
  BY KeptIsGiven
<1> DEFINE N == Len(s)
           k == [n \in 0..N |-> g[1..n]]
<1>2. N \in Nat /\ DOMAIN s = 1..N
  BY LenProperties
<1>3. ASSUME NEW t \in SUBSET (1..N)
      PROVE  g[t] = IF t = {} THEN <<>>
                    ELSE IF s[Max(t)] \in S THEN Append(g[t \ {Max(t)}], s[Max(t)])
                    ELSE g[t \ {Max(t)}]
  BY <1>1, <1>2, Zenon DEF KeptBy
<1>4. k[0] = <<>>
  <2>1. 1..0 = {} /\ 0 \in 0..N /\ {} \in SUBSET (1..N)
    BY <1>2
  <2>2. k[0] = g[1..0]
    BY <2>1
  <2>3. g[{}] = <<>>
    BY <1>3, <2>1
  <2> HIDE DEF k
  <2> QED BY <2>1, <2>2, <2>3
<1>5. ASSUME NEW n \in 1..N
      PROVE  k[n] = IF s[n] \in S THEN Append(k[n - 1], s[n]) ELSE k[n - 1]
  <2>1. Max(1..n) = n /\ (1..n) \ {n} = 1..(n - 1)
    BY MaxUpTo
  <2>2. n \in 1..n /\ n \in 0..N /\ n - 1 \in 0..N
    BY <1>2
  <2> HIDE DEF N
  <2>4. 1..n \in SUBSET (1..N) /\ 1..n # {}
    BY <1>2, <2>2
  <2>3. g[1..n] = IF s[n] \in S THEN Append(g[1..(n - 1)], s[n]) ELSE g[1..(n - 1)]
    BY <1>3, <2>1, <2>4
  <2> QED BY <2>2, <2>3
<1>6. Kept(s, S) = k[N]
  BY <1>1, <1>2
<1> QED BY <1>4, <1>5, <1>6

LEMMA KeptEmpty == \A S : Kept(<<>>, S) = <<>>
<1>1. ASSUME NEW S, NEW s \in Seq({}), s = <<>>
      PROVE  Kept(s, S) = <<>>
  <2>1. Len(s) = 0
    BY <1>1
  <2>2. PICK k : k[0] = <<>> /\ Kept(s, S) = k[Len(s)]
    BY KeptSteps
  <2> QED BY <2>1, <2>2
<1>2. <<>> \in Seq({})
  OBVIOUS
<1> QED BY <1>1, <1>2

\* One element more is kept if it is wanted.
LEMMA KeptAppend ==
  ASSUME NEW T, NEW s \in Seq(T), NEW x \in T, NEW S
  PROVE  Kept(Append(s, x), S) = IF x \in S THEN Append(Kept(s, S), x) ELSE Kept(s, S)
<1> DEFINE N == Len(s)
           r == Append(s, x)
<1>1. /\ r \in Seq(T) /\ Len(r) = N + 1 /\ N \in Nat
      /\ r[N + 1] = x /\ \A n \in 1..N : r[n] = s[n]
  BY AppendProperties, LenProperties
<1> HIDE DEF r, N
<1>2. PICK k : /\ k[0] = <<>> /\ Kept(s, S) = k[N]
               /\ \A n \in 1..N :
                    k[n] = IF s[n] \in S THEN Append(k[n - 1], s[n]) ELSE k[n - 1]
  BY KeptSteps DEF N
<1>3. PICK h : /\ h[0] = <<>> /\ Kept(r, S) = h[N + 1]
               /\ \A n \in 1..(N + 1) :
                    h[n] = IF r[n] \in S THEN Append(h[n - 1], r[n]) ELSE h[n - 1]
  <2>1. \E h : /\ h[0] = <<>> /\ Kept(r, S) = h[Len(r)]
               /\ \A n \in 1..Len(r) :
                    h[n] = IF r[n] \in S THEN Append(h[n - 1], r[n]) ELSE h[n - 1]
    BY <1>1, KeptSteps
  <2> QED BY <1>1, <2>1
<1> DEFINE G == { n \in 0..N : h[n] = k[n] }
<1>4. 0 \in G
  BY <1>1, <1>2, <1>3
<1>5. ASSUME NEW n \in 1..N, n - 1 \in G PROVE n \in G
  <2>1. n \in 1..(N + 1) /\ r[n] = s[n] /\ h[n - 1] = k[n - 1]
    BY <1>1, <1>5
  <2>2. h[n] = k[n]
    BY <1>2, <1>3, <2>1
  <2> QED BY <1>1, <2>2
<1> HIDE DEF G
<1>6. N \in G
  BY <1>1, <1>4, <1>5, UpToInduction
<1>7. h[N] = k[N] /\ N + 1 \in 1..(N + 1) /\ (N + 1) - 1 = N
  BY <1>1, <1>6 DEF G
<1>8. h[N + 1] = IF x \in S THEN Append(h[N], x) ELSE h[N]
  BY <1>1, <1>3, <1>7
<1> QED BY <1>2, <1>3, <1>7, <1>8 DEF r

\* Induction over sequences that grow at their end.
LEMMA AppendInduction ==
  ASSUME NEW T, NEW G, <<>> \in G,
         \A s \in Seq(T), x \in T : s \in G => Append(s, x) \in G
  PROVE  Seq(T) \subseteq G
<1> SUFFICES ASSUME NEW s \in Seq(T) PROVE s \in G
  OBVIOUS
<1> DEFINE N == Len(s)
           P == { n \in 0..N : SubSeq(s, 1, n) \in G }
<1>1. N \in Nat /\ \A n \in 1..N : s[n] \in T
  BY LenProperties, ElementOfSeq
<1>2. 0 \in P
  <2>1. SubSeq(s, 1, 0) = <<>>
    BY SubSeqEmpty
  <2>2. 0 \in 0..N
    BY <1>1
  <2> QED BY <2>1, <2>2
<1>3. ASSUME NEW n \in 1..N, n - 1 \in P PROVE n \in P
  <2>1. SubSeq(s, 1, n) = Append(SubSeq(s, 1, n - 1), s[n]) /\ SubSeq(s, 1, n - 1) \in Seq(T)
    <3>1. 1 \in 1..(N + 1) /\ n \in (1 - 1)..N /\ 1 <= n /\ n - 1 \in Nat
      BY <1>1
    <3> QED BY <1>1, <3>1, SubSeqRecursiveSecond, SubSeqProperties
  <2>2. SubSeq(s, 1, n - 1) \in G
    BY <1>3
  <2>3. SubSeq(s, 1, n) \in G
    BY <1>1, <2>1, <2>2
  <2> QED BY <1>1, <2>3
<1> HIDE DEF P
<1>4. N \in P
  BY <1>1, <1>2, <1>3, UpToInduction
<1>5. SubSeq(s, 1, N) = s
  BY SubSeqFull
<1> QED BY <1>4, <1>5 DEF P

-----------------------------------------------------------------------------
(* What is kept                                                            *)

LEMMA RangeEmpty == Range(<<>>) = {}
BY DEF Range

\* Some of the elements, those that are wanted.
LEMMA KeptType ==
  ASSUME NEW T, NEW S, NEW s \in Seq(T)
  PROVE  Kept(s, S) \in Seq(T) /\ Range(Kept(s, S)) = Range(s) \cap S
<1> DEFINE G == { r \in Seq(T) : /\ Kept(r, S) \in Seq(T)
                                 /\ Range(Kept(r, S)) = Range(r) \cap S }
<1>1. <<>> \in G
  <2>1. <<>> \in Seq(T) /\ Kept(<<>>, S) = <<>>
    BY KeptEmpty
  <2> QED BY <2>1, RangeEmpty
<1>2. ASSUME NEW r \in Seq(T), NEW x \in T, r \in G PROVE Append(r, x) \in G
  <2> DEFINE k == Kept(r, S)
             rx == Append(r, x)
  <2>1. k \in Seq(T) /\ Range(k) = Range(r) \cap S
    BY <1>2
  <2>2. Kept(rx, S) = IF x \in S THEN Append(k, x) ELSE k
    BY KeptAppend
  <2>3. Range(rx) = Range(r) \cup {x} /\ rx \in Seq(T)
    BY RangeAppend, AppendProperties
  <2>4. ASSUME x \in S PROVE Append(k, x) \in Seq(T) /\ Range(Append(k, x)) = Range(k) \cup {x}
    BY <2>1, RangeAppend, AppendProperties
  <2> HIDE DEF k, rx
  <2>5. Kept(rx, S) \in Seq(T) /\ Range(Kept(rx, S)) = Range(rx) \cap S
    BY <2>1, <2>2, <2>3, <2>4
  <2> QED BY <2>3, <2>5 DEF rx
<1> HIDE DEF G
<1>3. Seq(T) \subseteq G
  BY <1>1, <1>2, AppendInduction
<1> QED BY <1>3 DEF G

\* What is in R throughout is a sequence over R.
LEMMA SeqOver ==
  ASSUME NEW T, NEW R, NEW s \in Seq(T), Range(s) \subseteq R
  PROVE  s \in Seq(R)
<1>1. Len(s) \in Nat /\ DOMAIN s = 1..Len(s) /\ s = [i \in 1..Len(s) |-> s[i]]
  BY LenProperties
<1>2. \A i \in 1..Len(s) : s[i] \in R
  BY <1>1 DEF Range
<1> QED BY <1>1, <1>2

\* It matters only which of the elements are wanted.
LEMMA KeptSame ==
  ASSUME NEW T, NEW s \in Seq(T), NEW S, NEW R,
         \A x \in Range(s) : x \in S <=> x \in R
  PROVE  Kept(s, S) = Kept(s, R)
<1> DEFINE G == { r \in Seq(T) : (\A x \in Range(r) : x \in S <=> x \in R)
                                   => Kept(r, S) = Kept(r, R) }
<1>1. <<>> \in G
  <2>1. <<>> \in Seq(T) /\ Kept(<<>>, S) = <<>> /\ Kept(<<>>, R) = <<>>
    BY KeptEmpty
  <2> QED BY <2>1
<1>2. ASSUME NEW r \in Seq(T), NEW x \in T, r \in G PROVE Append(r, x) \in G
  <2> DEFINE rx == Append(r, x)
  <2>1. Range(rx) = Range(r) \cup {x} /\ rx \in Seq(T)
    BY RangeAppend, AppendProperties
  <2>2. Kept(rx, S) = IF x \in S THEN Append(Kept(r, S), x) ELSE Kept(r, S)
    BY KeptAppend
  <2>3. Kept(rx, R) = IF x \in R THEN Append(Kept(r, R), x) ELSE Kept(r, R)
    BY KeptAppend
  <2> HIDE DEF rx
  <2>4. ASSUME \A y \in Range(rx) : y \in S <=> y \in R
        PROVE  Kept(rx, S) = Kept(rx, R)
    <3>1. Kept(r, S) = Kept(r, R) /\ (x \in S <=> x \in R)
      BY <1>2, <2>1, <2>4
    <3> QED BY <2>2, <2>3, <3>1
  <2>5. rx \in G
    BY <2>1, <2>4
  <2> QED BY <2>5 DEF rx
<1> HIDE DEF G
<1>3. Seq(T) \subseteq G
  BY <1>1, <1>2, AppendInduction
<1> QED BY <1>3 DEF G

\* To keep twice is to keep what is wanted both times.
LEMMA KeptTwice ==
  ASSUME NEW T, NEW s \in Seq(T), NEW S, NEW R
  PROVE  Kept(Kept(s, S), R) = Kept(s, S \cap R)
<1> DEFINE G == { r \in Seq(T) : Kept(Kept(r, S), R) = Kept(r, S \cap R) }
<1>1. <<>> \in G
  <2>1. <<>> \in Seq(T) /\ \A Q : Kept(<<>>, Q) = <<>>
    BY KeptEmpty
  <2> QED BY <2>1
<1>2. ASSUME NEW r \in Seq(T), NEW x \in T, r \in G PROVE Append(r, x) \in G
  <2> DEFINE rx == Append(r, x)
             k == Kept(r, S)
             Q == S \cap R
  <2>1. rx \in Seq(T) /\ k \in Seq(T)
    BY AppendProperties, KeptType
  <2>2. Kept(rx, S) = IF x \in S THEN Append(k, x) ELSE k
    BY KeptAppend
  <2>3. Kept(rx, Q) = IF x \in Q THEN Append(Kept(r, Q), x) ELSE Kept(r, Q)
    BY KeptAppend
  <2>4. Kept(Append(k, x), R) = IF x \in R THEN Append(Kept(k, R), x) ELSE Kept(k, R)
    BY <2>1, KeptAppend
  <2>5. Kept(k, R) = Kept(r, Q)
    BY <1>2
  <2>6. x \in Q <=> x \in S /\ x \in R
    OBVIOUS
  <2> HIDE DEF rx, k, Q
  <2>7. Kept(Kept(rx, S), R) = Kept(rx, Q)
    BY <2>2, <2>3, <2>4, <2>5, <2>6
  <2> QED BY <2>1, <2>7 DEF rx, Q
<1> HIDE DEF G
<1>3. Seq(T) \subseteq G
  BY <1>1, <1>2, AppendInduction
<1> QED BY <1>3 DEF G

-----------------------------------------------------------------------------
(* Changing every element                                                  *)

Mapped(f, s) == [i \in DOMAIN s |-> f[s[i]]]

LEMMA MappedType ==
  ASSUME NEW T, NEW U, NEW f, \A y \in T : f[y] \in U, NEW s \in Seq(T)
  PROVE  Mapped(f, s) \in Seq(U)
<1>1. Len(s) \in Nat /\ DOMAIN s = 1..Len(s) /\ \A i \in 1..Len(s) : s[i] \in T
  BY LenProperties, ElementOfSeq
<1> QED BY <1>1 DEF Mapped

LEMMA MappedAppend ==
  ASSUME NEW T, NEW f, NEW s \in Seq(T), NEW x \in T
  PROVE  Mapped(f, Append(s, x)) = Append(Mapped(f, s), f[x])
<1> DEFINE N == Len(s)
           U == { f[y] : y \in T }
           r == Append(s, x)
           m == Mapped(f, s)
<1>1. N \in Nat /\ DOMAIN s = 1..N /\ \A i \in 1..N : s[i] \in T
  BY LenProperties, ElementOfSeq
<1>2. r \in Seq(T) /\ Len(r) = N + 1 /\ r[N + 1] = x /\ \A i \in 1..N : r[i] = s[i]
  BY AppendProperties
<1>3. DOMAIN r = 1..(N + 1)
  BY <1>2, LenProperties
<1>4. f[x] \in U /\ \A y \in T : f[y] \in U
  OBVIOUS
<1> HIDE DEF U
<1>5. m \in Seq(U) /\ Len(m) = N /\ \A i \in 1..N : m[i] = f[s[i]]
  BY <1>1, <1>4 DEF Mapped
<1> HIDE DEF r, m, N
<1> DEFINE a == Append(m, f[x])
<1>6. a \in Seq(U) /\ Len(a) = N + 1 /\ a[N + 1] = f[x] /\ \A i \in 1..N : a[i] = m[i]
  BY <1>4, <1>5, AppendProperties
<1>7. DOMAIN a = 1..(N + 1) /\ a = [i \in 1..(N + 1) |-> a[i]]
  BY <1>6, LenProperties
<1> HIDE DEF a
<1>8. ASSUME NEW i \in 1..(N + 1) PROVE a[i] = f[r[i]]
  BY <1>1, <1>2, <1>5, <1>6
<1>9. Mapped(f, r) = a
  BY <1>3, <1>7, <1>8 DEF Mapped
<1> QED BY <1>9 DEF r, m, a

\* What is kept of the changed elements is what becomes of those that are kept.
LEMMA KeptMapped ==
  ASSUME NEW T, NEW f, NEW S, NEW s \in Seq(T), NEW R, \A x \in T : x \in R <=> f[x] \in S
  PROVE  Kept(Mapped(f, s), S) = Mapped(f, Kept(s, R))
<1> DEFINE U == { f[y] : y \in T }
<1>0. \A y \in T : f[y] \in U
  OBVIOUS
<1> HIDE DEF U
<1>a. ASSUME NEW q \in Seq(U), NEW y \in U
      PROVE  Kept(Append(q, y), S) = IF y \in S THEN Append(Kept(q, S), y) ELSE Kept(q, S)
  BY KeptAppend
<1> DEFINE G == { r \in Seq(T) : Kept(Mapped(f, r), S) = Mapped(f, Kept(r, R)) }
<1>1. <<>> \in G
  <2>1. <<>> \in Seq(T) /\ \A Q : Kept(<<>>, Q) = <<>>
    BY KeptEmpty
  <2>2. Mapped(f, <<>>) = <<>>
    BY DEF Mapped
  <2> QED BY <2>1, <2>2
<1>2. ASSUME NEW r \in Seq(T), NEW x \in T, r \in G PROVE Append(r, x) \in G
  <2> DEFINE rx == Append(r, x)
             m == Mapped(f, r)
             k == Kept(r, R)
  <2>1. rx \in Seq(T) /\ k \in Seq(T)
    BY AppendProperties, KeptType
  <2>2. m \in Seq(U) /\ f[x] \in U /\ Mapped(f, rx) = Append(m, f[x])
    BY <1>0, MappedType, MappedAppend
  <2>3. Kept(rx, R) = IF x \in R THEN Append(k, x) ELSE k
    BY KeptAppend
  <2>4. Kept(Append(m, f[x]), S) = IF f[x] \in S THEN Append(Kept(m, S), f[x]) ELSE Kept(m, S)
    BY <2>2, <1>a
  <2>5. Mapped(f, Append(k, x)) = Append(Mapped(f, k), f[x])
    BY <2>1, MappedAppend
  <2>6. Kept(m, S) = Mapped(f, k)
    BY <1>2
  <2>7. x \in R <=> f[x] \in S
    OBVIOUS
  <2> HIDE DEF rx, k, m
  <2>8. Kept(Mapped(f, rx), S) = Mapped(f, Kept(rx, R))
    BY <2>2, <2>3, <2>4, <2>5, <2>6, <2>7
  <2> QED BY <2>1, <2>8 DEF rx
<1> HIDE DEF G
<1>3. Seq(T) \subseteq G
  BY <1>1, <1>2, AppendInduction
<1> QED BY <1>3 DEF G

-----------------------------------------------------------------------------
(* Prefixes                                                                *)

LEMMA PrefixIs ==
  ASSUME NEW T, NEW s \in Seq(T), NEW t \in Seq(T)
  PROVE  IsPrefix(s, t) <=> Len(s) <= Len(t) /\ \A i \in 1..Len(s) : s[i] = t[i]
<1> DEFINE n == Len(s)
<1>1. n \in Nat /\ Len(t) \in Nat /\ SubSeq(s, 1, n) = s
  BY LenProperties, SubSeqFull
<1>2. ASSUME n <= Len(t)
      PROVE  SubSeq(t, 1, n) = s <=> \A i \in 1..n : s[i] = t[i]
  <2> DEFINE u == SubSeq(t, 1, n)
  <2>1. u \in Seq(T) /\ Len(u) = n /\ \A i \in 1..n : u[i] = t[i]
    BY <1>1, <1>2, SubSeqProperties
  <2> HIDE DEF u
  <2>2. (\A i \in 1..n : s[i] = u[i]) => s = u
    BY <2>1, SeqEqual
  <2> QED BY <2>1, <2>2 DEF u
<1> QED BY <1>1, <1>2 DEF IsPrefix

LEMMA PrefixAppend ==
  ASSUME NEW T, NEW s \in Seq(T), NEW t \in Seq(T), NEW x \in T, IsPrefix(s, t)
  PROVE  IsPrefix(s, Append(t, x))
<1> DEFINE a == Append(t, x)
<1>1. Len(s) \in Nat /\ Len(t) \in Nat
  BY LenProperties
<1>2. a \in Seq(T) /\ Len(a) = Len(t) + 1 /\ \A i \in 1..Len(t) : a[i] = t[i]
  BY AppendProperties
<1>3. Len(s) <= Len(t) /\ \A i \in 1..Len(s) : s[i] = t[i]
  BY PrefixIs
<1> HIDE DEF a
<1>4. Len(s) <= Len(a) /\ \A i \in 1..Len(s) : s[i] = a[i]
  BY <1>1, <1>2, <1>3
<1>5. IsPrefix(s, a)
  BY <1>2, <1>4, PrefixIs
<1> QED BY <1>5 DEF a

\* Of two prefixes of a sequence one is a prefix of the other.
LEMMA PrefixesCompare ==
  ASSUME NEW T, NEW s \in Seq(T), NEW t \in Seq(T), NEW q \in Seq(T),
         IsPrefix(s, q), IsPrefix(t, q)
  PROVE  IsPrefix(s, t) \/ IsPrefix(t, s)
<1>1. Len(s) \in Nat /\ Len(t) \in Nat
  BY LenProperties
<1>2. \A i \in 1..Len(s) : s[i] = q[i]
  BY PrefixIs
<1>3. \A i \in 1..Len(t) : t[i] = q[i]
  BY PrefixIs
<1>4. CASE Len(s) <= Len(t)
  <2>1. \A i \in 1..Len(s) : s[i] = t[i]
    BY <1>1, <1>2, <1>3, <1>4
  <2> QED BY <1>4, <2>1, PrefixIs
<1>5. CASE Len(t) <= Len(s)
  <2>1. \A i \in 1..Len(t) : t[i] = s[i]
    BY <1>1, <1>2, <1>3, <1>5
  <2> QED BY <1>5, <2>1, PrefixIs
<1> QED BY <1>1, <1>4, <1>5
=============================================================================
