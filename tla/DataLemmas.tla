----------------------------- MODULE DataLemmas -----------------------------
(***************************************************************************)
(* Facts about numbers, sums, sequences and the registry that the proofs   *)
(* rest on.                                                                *)
(* Induction is written as: of the numbers for which something fails there *)
(* is a least one.                                                         *)
(***************************************************************************)
EXTENDS Integers, Sequences, FiniteSets, FiniteSetsExt, Functions, Registry,
        FiniteSetTheorems, SequenceTheorems, TLAPS

-----------------------------------------------------------------------------
(* Numbers                                                                 *)

NatLess == { ss \in Nat \X Nat : ss[1] < ss[2] }

\* Every set of natural numbers that is not empty has a least one.
LEMMA NatLeast ==
  ASSUME NEW T \in SUBSET Nat, T # {}
  PROVE  \E m \in T : \A n \in T : m <= n
<1>1. IsWellFoundedOn(NatLess, Nat)
  BY NatLessThanWellFounded DEF OpToRel, NatLess
<1>2. PICK x \in T : \A y \in T : <<y, x>> \notin NatLess
  BY <1>1, WFMin
<1>3. ASSUME NEW y \in T PROVE x <= y
  <2>1. x \in Nat /\ y \in Nat
    OBVIOUS
  <2>2. ~(y < x)
    BY <1>2, <2>1 DEF NatLess
  <2> QED BY <2>1, <2>2
<1> QED BY <1>3

\* One that is bounded has a greatest one, which is its Max.
LEMMA MaxIsGreatest ==
  ASSUME NEW T \in SUBSET Nat, T # {}, NEW b \in Nat, \A n \in T : n <= b
  PROVE  Max(T) \in T /\ \A n \in T : n <= Max(T)
<1> DEFINE D == { d \in Nat : \E n \in T : d = b - n }
<1>1. D \in SUBSET Nat /\ D # {}
  <2>1. PICK n \in T : TRUE
    OBVIOUS
  <2>2. b - n \in D
    BY <2>1
  <2> QED BY <2>2
<1>2. PICK d \in D : \A e \in D : d <= e
  <2> HIDE DEF D
  <2> QED BY <1>1, NatLeast
<1>3. PICK m \in T : d = b - m
  BY <1>2
<1>4. ASSUME NEW n \in T PROVE m >= n
  <2>1. b - n \in D /\ b - m <= b - n
    BY <1>2, <1>3
  <2> QED BY <2>1
<1>5. Max(T) \in T /\ \A n \in T : Max(T) >= n
  BY <1>4 DEF Max
<1> QED BY <1>5

\* Induction over the parts of a finite set: if the empty one is in G and no
\* further element leads out of G, then the whole set is in G.
LEMMA PartsInduction ==
  ASSUME NEW S, IsFiniteSet(S), NEW G, {} \in G,
         \A s \in SUBSET S : \A x \in S \ s : s \in G => s \cup {x} \in G
  PROVE  S \in G
<1> DEFINE Fails == { n \in Nat : \E s \in SUBSET S : Cardinality(s) = n /\ s \notin G }
<1>1. \A s \in SUBSET S : IsFiniteSet(s) /\ Cardinality(s) \in Nat
  BY FS_Subset, FS_CardinalityType
<1>2. Fails = {}
  <2> SUFFICES ASSUME Fails # {} PROVE FALSE
    OBVIOUS
  <2>1. PICK n \in Fails : \A m \in Fails : n <= m
    <3>1. Fails \in SUBSET Nat
      OBVIOUS
    <3> HIDE DEF Fails
    <3> QED BY <3>1, NatLeast
  <2>2. PICK s \in SUBSET S : Cardinality(s) = n /\ s \notin G
    BY <2>1
  <2>3. PICK x \in s : TRUE
    BY <2>2
  <2> DEFINE t == s \ {x}
  <2>4. t \in SUBSET S /\ Cardinality(t) = n - 1 /\ n - 1 \in Nat /\ n \in Nat
    <3>1. t \in SUBSET S /\ n \in Nat
      OBVIOUS
    <3>2. Cardinality(t) = Cardinality(s) - 1
      BY <1>1, FS_RemoveElement
    <3> HIDE DEF t
    <3> QED BY <1>1, <2>2, <3>1, <3>2
  <2>5. t \in G
    <3>1. n - 1 \notin Fails
      <4> HIDE DEF Fails, t
      <4> QED BY <2>1, <2>4
    <3> QED BY <2>4, <3>1
  <2>6. t \cup {x} = s /\ x \in S \ t
    OBVIOUS
  <2> HIDE DEF t
  <2> QED BY <2>2, <2>4, <2>5, <2>6
<1> QED BY <1>1, <1>2

\* The same for the numbers up to N.
LEMMA UpToInduction ==
  ASSUME NEW N \in Nat, NEW G, 0 \in G, \A n \in 1..N : n - 1 \in G => n \in G
  PROVE  N \in G
<1> DEFINE Fails == { n \in 0..N : n \notin G }
<1>1. Fails = {}
  <2> SUFFICES ASSUME Fails # {} PROVE FALSE
    OBVIOUS
  <2>1. PICK n \in Fails : \A m \in Fails : n <= m
    <3>1. Fails \in SUBSET Nat
      OBVIOUS
    <3> HIDE DEF Fails
    <3> QED BY <3>1, NatLeast
  <2>2. n \in 1..N /\ n - 1 \in 0..N /\ ~(n <= n - 1)
    OBVIOUS
  <2>3. n - 1 \in G
    <3>1. n - 1 \notin Fails
      <4> HIDE DEF Fails
      <4> QED BY <2>1, <2>2
    <3> QED BY <2>2, <3>1
  <2> QED BY <2>2, <2>3
<1> QED BY <1>1

\* The values of a function on a finite set are finitely many.
LEMMA ImageFinite ==
  ASSUME NEW S, IsFiniteSet(S), NEW u
  PROVE  IsFiniteSet({ u[x] : x \in S })
<1> DEFINE G == { s \in SUBSET S : IsFiniteSet({ u[x] : x \in s }) }
<1>1. {} \in G
  <2>1. { u[x] : x \in {} } = {}
    OBVIOUS
  <2> QED BY <2>1, FS_EmptySet
<1>2. ASSUME NEW s \in SUBSET S, NEW y \in S \ s, s \in G
      PROVE  s \cup {y} \in G
  <2>1. { u[x] : x \in s \cup {y} } = { u[x] : x \in s } \cup {u[y]}
    OBVIOUS
  <2>2. IsFiniteSet({ u[x] : x \in s })
    BY <1>2
  <2>3. IsFiniteSet({ u[x] : x \in s } \cup {u[y]})
    BY <2>2, FS_AddElement
  <2> QED BY <2>1, <2>3
<1> HIDE DEF G
<1>3. S \in G
  BY <1>1, <1>2, PartsInduction
<1> QED BY <1>3 DEF G

-----------------------------------------------------------------------------
(* Sums                                                                    *)

Chosen(s) == CHOOSE x \in s : TRUE

\* g gives the sum of f over every set of D, whose sets lose their chosen element
\* one after the other.
Sums(g, f, D) ==
  g = [s \in D |-> IF s = {} THEN 0 ELSE f[Chosen(s)] + g[s \ {Chosen(s)}]]

\* Such a g exists for the subsets with at most n elements, if it does not fail
\* for a least n.
LEMMA SumsExist ==
  ASSUME NEW f, NEW S, IsFiniteSet(S)
  PROVE  \E g : Sums(g, f, SUBSET S)
<1> DEFINE D(n) == { s \in SUBSET S : Cardinality(s) <= n }
           Fails == { n \in Nat : ~ \E g : Sums(g, f, D(n)) }
<1>1. \A s \in SUBSET S : IsFiniteSet(s) /\ Cardinality(s) \in Nat
  BY FS_Subset, FS_CardinalityType
<1>2. Fails = {}
  <2> SUFFICES ASSUME Fails # {} PROVE FALSE
    OBVIOUS
  <2>1. PICK n \in Fails : \A m \in Fails : n <= m
    <3>1. Fails \in SUBSET Nat
      OBVIOUS
    <3> HIDE DEF Fails
    <3> QED BY <3>1, NatLeast
  <2>2. n # 0
    <3> SUFFICES ASSUME n = 0 PROVE FALSE
      OBVIOUS
    <3>1. D(0) = {{}}
      BY <1>1, FS_EmptySet
    <3>2. Sums([s \in D(0) |-> 0], f, D(0))
      BY <3>1 DEF Sums
    <3> QED BY <2>1, <3>2
  <2>3. n - 1 \in Nat /\ n - 1 \notin Fails
    <3>1. n \in Nat /\ n - 1 \in Nat /\ ~(n <= n - 1)
      BY <2>2
    <3> HIDE DEF Fails
    <3> QED BY <2>1, <3>1
  <2>4. PICK g : Sums(g, f, D(n - 1))
    BY <2>3
  <2> DEFINE h == [s \in D(n) |->
                     IF s = {} THEN 0 ELSE f[Chosen(s)] + g[s \ {Chosen(s)}]]
  <2>5. ASSUME NEW s \in D(n), s # {}
        PROVE  s \ {Chosen(s)} \in D(n - 1) /\ s \ {Chosen(s)} \in D(n)
    <3>1. Chosen(s) \in s
      BY <2>5 DEF Chosen
    <3>2. Cardinality(s \ {Chosen(s)}) = Cardinality(s) - 1
      BY <1>1, <3>1, FS_RemoveElement
    <3> QED BY <1>1, <2>3, <3>2
  <2>6. ASSUME NEW t \in D(n - 1) PROVE g[t] = h[t]
    <3>1. t \in D(n)
      BY <1>1, <2>3
    <3>2. g[t] = IF t = {} THEN 0 ELSE f[Chosen(t)] + g[t \ {Chosen(t)}]
      BY <2>4 DEF Sums
    <3> QED BY <3>1, <3>2
  <2>7. Sums(h, f, D(n))
    <3>1. ASSUME NEW s \in D(n)
          PROVE  h[s] = IF s = {} THEN 0 ELSE f[Chosen(s)] + h[s \ {Chosen(s)}]
      BY <2>5, <2>6
    <3> HIDE DEF D
    <3> QED BY <3>1 DEF Sums
  <2> QED BY <2>1, <2>7
<1>3. D(Cardinality(S)) = SUBSET S
  BY <1>1, FS_Subset
<1>4. Cardinality(S) \notin Fails /\ Cardinality(S) \in Nat
  BY <1>2, FS_CardinalityType
<1>5. \E g : Sums(g, f, D(Cardinality(S)))
  BY <1>4
<1> QED BY <1>3, <1>5

SumsWithin(g, f, S) == Sums(g, f, SUBSET S)

\* Where two of them are both defined they agree.
LEMMA SumsAgree ==
  \A f, S, T, g, h :
    IsFiniteSet(T) /\ T \subseteq S /\ SumsWithin(g, f, S) /\ SumsWithin(h, f, T)
      => g[T] = h[T]
<1> SUFFICES ASSUME NEW f, NEW S, NEW T, NEW g, NEW h, IsFiniteSet(T), T \subseteq S,
                    SumsWithin(g, f, S), SumsWithin(h, f, T)
             PROVE  g[T] = h[T]
  OBVIOUS
<1> DEFINE Differ == { n \in Nat : \E s \in SUBSET T : Cardinality(s) = n /\ g[s] # h[s] }
<1>1. \A s \in SUBSET T : IsFiniteSet(s) /\ Cardinality(s) \in Nat
  BY FS_Subset, FS_CardinalityType
<1>2. Differ = {}
  <2> SUFFICES ASSUME Differ # {} PROVE FALSE
    OBVIOUS
  <2>1. PICK n \in Differ : \A m \in Differ : n <= m
    <3>1. Differ \in SUBSET Nat
      OBVIOUS
    <3> HIDE DEF Differ
    <3> QED BY <3>1, NatLeast
  <2>2. PICK s \in SUBSET T : Cardinality(s) = n /\ g[s] # h[s]
    BY <2>1
  <2> DEFINE rest == s \ {Chosen(s)}
  <2>3. /\ g[s] = IF s = {} THEN 0 ELSE f[Chosen(s)] + g[rest]
        /\ h[s] = IF s = {} THEN 0 ELSE f[Chosen(s)] + h[rest]
    BY DEF Sums, SumsWithin
  <2>4. s # {} /\ g[rest] # h[rest]
    BY <2>2, <2>3
  <2>5. Chosen(s) \in s
    BY <2>4 DEF Chosen
  <2>6. Cardinality(rest) = n - 1
    BY <1>1, <2>2, <2>5, FS_RemoveElement
  <2>7. rest \in SUBSET T /\ Cardinality(rest) \in Nat
    BY <1>1
  <2>8. n - 1 \in Differ
    BY <2>4, <2>6, <2>7
  <2>9. n \in Nat
    BY <2>1
  <2> HIDE DEF Differ, rest
  <2> QED BY <2>1, <2>8, <2>9
<1> QED BY <1>1, <1>2

Sum(f, S) == SumFunctionOnSet(f, S)

\* The sum over a set is given by such a g.
LEMMA SumIsGiven ==
  ASSUME NEW f, NEW S, IsFiniteSet(S)
  PROVE  \E g : SumsWithin(g, f, S) /\ Sum(f, S) = g[S]
<1> DEFINE g == CHOOSE g : Sums(g, f, SUBSET S)
<1>1. Sums(g, f, SUBSET S)
  BY SumsExist, Zenon
<1>2. Sum(f, S) = g[S]
  BY Zenon DEF Sum, SumFunctionOnSet, FoldFunctionOnSet, MapThenFoldSet, Sums, Chosen
<1> HIDE DEF g
<1> QED BY <1>1, <1>2 DEF SumsWithin

\* The sum over a set adds the value of its chosen element to the rest.
LEMMA SumChosen ==
  ASSUME NEW f, NEW S, IsFiniteSet(S)
  PROVE  Sum(f, S) = IF S = {} THEN 0
                     ELSE f[Chosen(S)] + Sum(f, S \ {Chosen(S)})
<1> DEFINE T == S \ {Chosen(S)}
<1>1. PICK g : SumsWithin(g, f, S) /\ Sum(f, S) = g[S]
  BY SumIsGiven
<1>2. IsFiniteSet(T) /\ T \in SUBSET S
  BY FS_Subset
<1>3. PICK h : SumsWithin(h, f, T) /\ Sum(f, T) = h[T]
  BY <1>2, SumIsGiven
<1>4. g[T] = h[T]
  <2> HIDE DEF T
  <2> QED BY <1>1, <1>2, <1>3, SumsAgree
<1>5. g[S] = IF S = {} THEN 0 ELSE f[Chosen(S)] + g[T]
  BY <1>1 DEF Sums, SumsWithin
<1> QED BY <1>1, <1>3, <1>4, <1>5

\* The sum of natural numbers is one, and any element may be the first.
LEMMA SumRemove ==
  ASSUME NEW f, NEW S, IsFiniteSet(S), \A x \in S : f[x] \in Nat
  PROVE  /\ Sum(f, S) \in Nat
         /\ \A x \in S : Sum(f, S) = f[x] + Sum(f, S \ {x})
<1> DEFINE Good(s) == /\ Sum(f, s) \in Nat
                      /\ \A x \in s : Sum(f, s) = f[x] + Sum(f, s \ {x})
           Fails == { n \in Nat : \E s \in SUBSET S : Cardinality(s) = n /\ ~Good(s) }
<1>1. \A s \in SUBSET S : IsFiniteSet(s) /\ Cardinality(s) \in Nat
  BY FS_Subset, FS_CardinalityType
<1>2. Fails = {}
  <2> SUFFICES ASSUME Fails # {} PROVE FALSE
    OBVIOUS
  <2>1. PICK n \in Fails : \A m \in Fails : n <= m
    <3>1. Fails \in SUBSET Nat
      OBVIOUS
    <3> HIDE DEF Fails
    <3> QED BY <3>1, NatLeast
  <2>2. PICK s \in SUBSET S : Cardinality(s) = n /\ ~Good(s)
    BY <2>1
  <2> DEFINE y == Chosen(s)
  <2>3. \A x \in s : Good(s \ {x})
    <3> SUFFICES ASSUME NEW x \in s, ~Good(s \ {x}) PROVE FALSE
      OBVIOUS
    <3>1. Cardinality(s \ {x}) = n - 1 /\ s \ {x} \in SUBSET S
      BY <1>1, <2>2, FS_RemoveElement
    <3>2. n - 1 \in Fails
      BY <1>1, <3>1
    <3>3. n \in Nat
      BY <2>1
    <3> HIDE DEF Fails, Good
    <3> QED BY <2>1, <3>2, <3>3
  <2>4. Sum(f, s) = IF s = {} THEN 0 ELSE f[y] + Sum(f, s \ {y})
    BY <1>1, SumChosen
  <2>5. s # {}
    BY <2>2, <2>4
  <2>6. y \in s /\ f[y] \in Nat
    BY <2>5 DEF Chosen
  <2>7. Sum(f, s) = f[y] + Sum(f, s \ {y}) /\ Sum(f, s) \in Nat
    BY <2>3, <2>4, <2>5, <2>6
  <2>8. ASSUME NEW x \in s PROVE Sum(f, s) = f[x] + Sum(f, s \ {x})
    <3>1. CASE x = y
      BY <2>7, <3>1
    <3>2. CASE x # y
      <4>1. Sum(f, s \ {y}) = f[x] + Sum(f, (s \ {y}) \ {x})
        BY <2>3, <2>6, <3>2
      <4>2. Sum(f, s \ {x}) = f[y] + Sum(f, (s \ {x}) \ {y})
        BY <2>3, <2>6, <3>2
      <4>3. (s \ {y}) \ {x} = (s \ {x}) \ {y}
        OBVIOUS
      <4>4. Sum(f, (s \ {x}) \ {y}) \in Nat
        <5>1. (s \ {x}) \ {y} \in SUBSET S /\ y \in s \ {x}
          BY <2>6, <3>2
        <5>2. Good(s \ {x}) /\ Sum(f, s \ {x}) \in Nat
          BY <2>3
        <5>3. Cardinality((s \ {x}) \ {y}) = n - 2
          <6>1. Cardinality(s \ {x}) = n - 1
            BY <1>1, <2>2, FS_RemoveElement
          <6>2. IsFiniteSet(s \ {x}) /\ n \in Nat
            BY <1>1
          <6>3. Cardinality((s \ {x}) \ {y}) = Cardinality(s \ {x}) - 1
            BY <5>1, <6>2, FS_RemoveElement
          <6> QED BY <6>1, <6>2, <6>3
        <5>4. Good((s \ {x}) \ {y})
          <6> SUFFICES ASSUME ~Good((s \ {x}) \ {y}) PROVE FALSE
            OBVIOUS
          <6>1. n - 2 \in Fails
            BY <1>1, <5>1, <5>3
          <6>2. n \in Nat
            BY <2>1
          <6> HIDE DEF Fails, Good
          <6> QED BY <2>1, <6>1, <6>2
        <5> QED BY <5>4
      <4>5. f[x] \in Nat
        OBVIOUS
      <4> DEFINE a == Sum(f, s \ {y})
                 b == Sum(f, s \ {x})
                 c == Sum(f, (s \ {x}) \ {y})
      <4>6. Sum(f, s) = f[y] + a /\ a = f[x] + c /\ b = f[y] + c
        BY <2>7, <4>1, <4>2, <4>3
      <4> HIDE DEF a, b, c
      <4>7. c \in Nat /\ f[y] \in Nat
        BY <2>6, <4>4 DEF c
      <4>8. Sum(f, s) = f[x] + b
        BY <4>5, <4>6, <4>7
      <4> QED BY <4>8 DEF b
    <3> QED BY <3>1, <3>2
  <2> QED BY <2>2, <2>7, <2>8
<1> QED BY <1>1, <1>2

\* Functions that agree on a set have the same sum over it.
LEMMA SumSame ==
  ASSUME NEW f, NEW g, NEW S, IsFiniteSet(S), \A x \in S : f[x] = g[x]
  PROVE  Sum(f, S) = Sum(g, S)
<1>1. PICK h : SumsWithin(h, f, S) /\ Sum(f, S) = h[S]
  BY SumIsGiven
<1>2. PICK k : SumsWithin(k, g, S) /\ Sum(g, S) = k[S]
  BY SumIsGiven
<1>3. SumsWithin(k, f, S)
  <2>1. ASSUME NEW s \in SUBSET S
        PROVE  k[s] = IF s = {} THEN 0 ELSE f[Chosen(s)] + k[s \ {Chosen(s)}]
    <3>1. k[s] = IF s = {} THEN 0 ELSE g[Chosen(s)] + k[s \ {Chosen(s)}]
      BY <1>2 DEF Sums, SumsWithin
    <3>2. s # {} => Chosen(s) \in S
      BY DEF Chosen
    <3> QED BY <3>1, <3>2
  <2>2. k = [s \in SUBSET S |-> k[s]]
    BY <1>2 DEF Sums, SumsWithin
  <2> QED BY <2>1, <2>2 DEF Sums, SumsWithin
<1>4. h[S] = k[S]
  BY <1>1, <1>3, SumsAgree
<1> QED BY <1>1, <1>2, <1>4

LEMMA SumEmpty == \A f : Sum(f, {}) = 0
BY SumChosen, FS_EmptySet

\* The sum over a set with one element more.
LEMMA SumAdd ==
  ASSUME NEW f, NEW S, IsFiniteSet(S), NEW x, \A y \in S \cup {x} : f[y] \in Nat,
         x \notin S
  PROVE  Sum(f, S \cup {x}) = f[x] + Sum(f, S)
<1>1. IsFiniteSet(S \cup {x})
  BY FS_AddElement
<1>2. (S \cup {x}) \ {x} = S
  OBVIOUS
<1> QED BY <1>1, <1>2, SumRemove

\* A function that changes at x only changes its sum by as much.
LEMMA SumChange ==
  ASSUME NEW f, NEW g, NEW S, IsFiniteSet(S), NEW x \in S,
         \A y \in S : f[y] \in Nat /\ g[y] \in Nat,
         \A y \in S \ {x} : f[y] = g[y]
  PROVE  Sum(g, S) + f[x] = Sum(f, S) + g[x]
<1> DEFINE T == S \ {x}
<1>1. IsFiniteSet(T)
  BY FS_RemoveElement
<1>2. Sum(f, T) = Sum(g, T) /\ Sum(f, T) \in Nat
  BY <1>1, SumSame, SumRemove
<1>3. Sum(f, S) = f[x] + Sum(f, T) /\ Sum(g, S) = g[x] + Sum(g, T)
  BY SumRemove
<1>4. f[x] \in Nat /\ g[x] \in Nat
  OBVIOUS
<1> HIDE DEF T
<1> QED BY <1>2, <1>3, <1>4

\* One that is nowhere greater has no greater sum.
LEMMA SumMonotonic ==
  ASSUME NEW f, NEW g, NEW S, IsFiniteSet(S),
         \A x \in S : f[x] \in Nat /\ g[x] \in Nat /\ f[x] <= g[x]
  PROVE  Sum(f, S) <= Sum(g, S)
<1> DEFINE G == { s \in SUBSET S : Sum(f, s) <= Sum(g, s) }
<1>1. \A s \in SUBSET S : IsFiniteSet(s) /\ Sum(f, s) \in Nat /\ Sum(g, s) \in Nat
  BY FS_Subset, SumRemove
<1>2. {} \in G
  BY SumEmpty
<1>3. ASSUME NEW s \in SUBSET S, NEW x \in S \ s, s \in G
      PROVE  s \cup {x} \in G
  <2>1. Sum(f, s \cup {x}) = f[x] + Sum(f, s) /\ Sum(g, s \cup {x}) = g[x] + Sum(g, s)
    BY <1>1, SumAdd
  <2>2. Sum(f, s \cup {x}) <= Sum(g, s \cup {x})
    BY <1>1, <1>3, <2>1
  <2> QED BY <2>2
<1> HIDE DEF G
<1>4. S \in G
  BY <1>2, <1>3, PartsInduction
<1> QED BY <1>4 DEF G

\* The sum over two sets without a common element.
LEMMA SumDisjoint ==
  ASSUME NEW f, NEW S, IsFiniteSet(S), \A x \in S : f[x] \in Nat,
         NEW A \in SUBSET S, NEW B \in SUBSET S, A \cap B = {}
  PROVE  Sum(f, A \cup B) = Sum(f, A) + Sum(f, B)
<1> DEFINE G == { s \in SUBSET B : Sum(f, A \cup s) = Sum(f, A) + Sum(f, s) }
<1>1. \A s \in SUBSET S : IsFiniteSet(s) /\ Sum(f, s) \in Nat
  BY FS_Subset, SumRemove
<1>2. {} \in G
  <2>1. A \cup {} = A /\ Sum(f, {}) = 0 /\ Sum(f, A) \in Nat
    BY <1>1, SumEmpty
  <2> QED BY <2>1
<1>3. ASSUME NEW s \in SUBSET B, NEW x \in B \ s, s \in G
      PROVE  s \cup {x} \in G
  <2>1. Sum(f, s \cup {x}) = f[x] + Sum(f, s)
    BY <1>1, SumAdd
  <2>2. Sum(f, (A \cup s) \cup {x}) = f[x] + Sum(f, A \cup s)
    <3>1. IsFiniteSet(A \cup s) /\ x \notin A \cup s
      BY <1>1
    <3> QED BY <3>1, SumAdd
  <2>3. A \cup (s \cup {x}) = (A \cup s) \cup {x}
    OBVIOUS
  <2>4. f[x] \in Nat /\ Sum(f, s) \in Nat /\ Sum(f, A) \in Nat
    BY <1>1
  <2>5. Sum(f, A \cup s) = Sum(f, A) + Sum(f, s)
    BY <1>3
  <2> DEFINE a == Sum(f, A)
             b == Sum(f, s)
  <2>6. Sum(f, A \cup (s \cup {x})) = f[x] + (a + b)
    BY <2>2, <2>3, <2>5
  <2>7. Sum(f, s \cup {x}) = f[x] + b
    BY <2>1
  <2>8. f[x] + (a + b) = a + (f[x] + b)
    <3> HIDE DEF a, b
    <3> QED BY <2>4 DEF a, b
  <2>9. Sum(f, A \cup (s \cup {x})) = Sum(f, A) + Sum(f, s \cup {x})
    BY <2>6, <2>7, <2>8
  <2> QED BY <2>9
<1>4. IsFiniteSet(B)
  BY <1>1
<1> HIDE DEF G
<1>5. B \in G
  BY <1>2, <1>3, <1>4, PartsInduction
<1> QED BY <1>5 DEF G

\* The parts at[i] that divide R by the value of u sum up to the sum over R.
LEMMA SumDivided ==
  ASSUME NEW f, NEW S, IsFiniteSet(S), \A x \in S : f[x] \in Nat, NEW u,
         NEW I, IsFiniteSet(I),
         NEW at, \A i \in I : at[i] \in SUBSET S /\ \A x \in S : x \in at[i] <=> u[x] = i,
         NEW R \in SUBSET S, \A x \in S : x \in R <=> u[x] \in I,
         NEW g, \A i \in I : g[i] = Sum(f, at[i])
  PROVE  Sum(g, I) = Sum(f, R)
<1> DEFINE In(s) == { x \in S : u[x] \in s }
           G == { s \in SUBSET I : Sum(g, s) = Sum(f, In(s)) }
<1>1. \A T \in SUBSET S : IsFiniteSet(T) /\ Sum(f, T) \in Nat
  BY FS_Subset, SumRemove
<1>2. \A i \in I : g[i] \in Nat
  BY <1>1
<1>3. {} \in G
  <2>1. In({}) = {}
    OBVIOUS
  <2> QED BY <2>1, SumEmpty
<1>4. ASSUME NEW s \in SUBSET I, NEW i \in I \ s, s \in G
      PROVE  s \cup {i} \in G
  <2>1. Sum(g, s \cup {i}) = g[i] + Sum(g, s)
    <3>1. IsFiniteSet(s)
      BY FS_Subset
    <3> QED BY <1>2, <3>1, SumAdd
  <2>2. In(s \cup {i}) = at[i] \cup In(s) /\ at[i] \cap In(s) = {}
    OBVIOUS
  <2>3. Sum(f, at[i] \cup In(s)) = Sum(f, at[i]) + Sum(f, In(s))
    <3>1. at[i] \in SUBSET S /\ In(s) \in SUBSET S
      OBVIOUS
    <3> HIDE DEF In
    <3> QED BY <2>2, <3>1, SumDisjoint
  <2> QED BY <1>4, <2>1, <2>2, <2>3
<1> HIDE DEF G
<1>5. I \in G
  BY <1>3, <1>4, PartsInduction
<1>6. In(I) = R
  OBVIOUS
<1> QED BY <1>5, <1>6 DEF G

\* What is zero everywhere sums up to zero.
LEMMA SumZero ==
  ASSUME NEW S, IsFiniteSet(S), NEW f, \A x \in S : f[x] = 0
  PROVE  Sum(f, S) = 0
<1> DEFINE G == { s \in SUBSET S : Sum(f, s) = 0 }
<1>1. {} \in G
  BY SumEmpty
<1>2. ASSUME NEW s \in SUBSET S, NEW x \in S \ s, s \in G
      PROVE  s \cup {x} \in G
  <2>1. IsFiniteSet(s)
    BY FS_Subset
  <2>2. Sum(f, s \cup {x}) = f[x] + Sum(f, s)
    BY <2>1, SumAdd
  <2>3. Sum(f, s \cup {x}) = 0
    BY <1>2, <2>2
  <2> QED BY <2>3
<1> HIDE DEF G
<1>3. S \in G
  BY <1>1, <1>2, PartsInduction
<1> QED BY <1>3 DEF G

\* g counts f over R, save one at each element of D.
LEMMA SumSave ==
  ASSUME NEW f, NEW g, NEW S, IsFiniteSet(S), NEW R \in SUBSET S, NEW D \in SUBSET R,
         \A x \in S : f[x] \in Nat, \A x \in D : f[x] >= 1,
         \A x \in S : g[x] = IF x \in D THEN f[x] - 1 ELSE IF x \in R THEN f[x] ELSE 0
  PROVE  Sum(g, S) + Cardinality(D) = Sum(f, R)
<1> DEFINE G == { s \in SUBSET S :
                    Sum(g, s) + Cardinality(D \cap s) = Sum(f, R \cap s) }
<1>1. \A s \in SUBSET S : IsFiniteSet(s) /\ Cardinality(s) \in Nat /\ Sum(f, s) \in Nat
  BY FS_Subset, FS_CardinalityType, SumRemove
<1>2. \A x \in S : g[x] \in Nat
  OBVIOUS
<1>3. \A s \in SUBSET S : Sum(g, s) \in Nat
  BY <1>1, <1>2, SumRemove
<1>4. {} \in G
  <2>1. D \cap {} = {} /\ R \cap {} = {}
    OBVIOUS
  <2> QED BY <2>1, SumEmpty, FS_EmptySet
<1>5. ASSUME NEW s \in SUBSET S, NEW x \in S \ s, s \in G
      PROVE  s \cup {x} \in G
  <2> DEFINE a == Sum(g, s)
             n == Cardinality(D \cap s)
             b == Sum(f, R \cap s)
  <2>1. a + n = b /\ a \in Nat /\ n \in Nat /\ b \in Nat /\ f[x] \in Nat
    BY <1>1, <1>3, <1>5
  <2>2. Sum(g, s \cup {x}) = g[x] + a
    BY <1>1, <1>2, SumAdd
  <2>3. Cardinality(D \cap (s \cup {x})) = IF x \in D THEN n + 1 ELSE n
    <3>1. CASE x \in D
      <4>1. D \cap (s \cup {x}) = (D \cap s) \cup {x}
        BY <3>1
      <4> QED BY <1>1, <3>1, <4>1, FS_AddElement
    <3>2. CASE x \notin D
      <4>1. D \cap (s \cup {x}) = D \cap s
        BY <3>2
      <4> QED BY <3>2, <4>1
    <3> QED BY <3>1, <3>2
  <2>4. Sum(f, R \cap (s \cup {x})) = IF x \in R THEN f[x] + b ELSE b
    <3>1. CASE x \in R
      <4>1. R \cap (s \cup {x}) = (R \cap s) \cup {x} /\ IsFiniteSet(R \cap s)
        BY <1>1, <3>1
      <4> QED BY <3>1, <4>1, SumAdd
    <3>2. CASE x \notin R
      <4>1. R \cap (s \cup {x}) = R \cap s
        BY <3>2
      <4> QED BY <3>2, <4>1
    <3> QED BY <3>1, <3>2
  <2>5. /\ x \in D => x \in R /\ f[x] >= 1
        /\ g[x] = IF x \in D THEN f[x] - 1 ELSE IF x \in R THEN f[x] ELSE 0
    OBVIOUS
  <2> HIDE DEF a, n, b
  <2>6. Sum(g, s \cup {x}) + Cardinality(D \cap (s \cup {x}))
          = Sum(f, R \cap (s \cup {x}))
    BY <2>1, <2>2, <2>3, <2>4, <2>5
  <2> QED BY <2>6
<1> HIDE DEF G
<1>6. S \in G
  BY <1>4, <1>5, PartsInduction
<1>7. D \cap S = D /\ R \cap S = R
  OBVIOUS
<1> QED BY <1>6, <1>7 DEF G

-----------------------------------------------------------------------------
(* Sequences                                                               *)

\* A non-empty queue is its head and its tail.
LEMMA HeadTailConcat ==
  ASSUME NEW S, NEW q \in Seq(S), q # <<>>
  PROVE  Head(q) \in S /\ Tail(q) \in Seq(S) /\ q = <<Head(q)>> \o Tail(q)
<1> DEFINE h == Head(q)
<1>1. h \in S /\ Tail(q) \in Seq(S) /\ <<h>> \in Seq(S)
  BY HeadTailProperties
<1>2. <<h>> \o Tail(q) \in Seq(S) /\ Len(<<h>> \o Tail(q)) = Len(q)
  BY <1>1, HeadTailProperties, ConcatProperties
<1>3. ASSUME NEW i \in 1..Len(q) PROVE q[i] = (<<h>> \o Tail(q))[i]
  BY <1>1, HeadTailProperties, ConcatProperties
<1> QED BY <1>1, <1>2, <1>3, SeqEqual

\* Moving a message h from the front of the queue to the end of the frame.
LEMMA MoveHead ==
  ASSUME NEW S, NEW d \in Seq(S), NEW f \in Seq(S), NEW t \in Seq(S), NEW h \in S
  PROVE  (d \o Append(f, h)) \o t = (d \o f) \o (<<h>> \o t)
<1>1. <<h>> \in Seq(S)
  OBVIOUS
<1>2. Append(f, h) = f \o <<h>>
  BY AppendIsConcat
<1>3. d \o f \in Seq(S) /\ f \o <<h>> \in Seq(S)
  BY <1>1, ConcatProperties
<1>4. (d \o (f \o <<h>>)) \o t = ((d \o f) \o <<h>>) \o t
  BY <1>1, ConcatAssociative
<1>5. ((d \o f) \o <<h>>) \o t = (d \o f) \o (<<h>> \o t)
  BY <1>1, <1>3, ConcatAssociative
<1> QED BY <1>2, <1>4, <1>5

\* Taking the head of the queue in an empty hand.
LEMMA TakeHead ==
  ASSUME NEW S, NEW d \in Seq(S), NEW t \in Seq(S), NEW h \in S
  PROVE  (d \o <<h>>) \o t = (d \o <<>>) \o (<<h>> \o t)
<1>1. <<h>> \in Seq(S)
  OBVIOUS
<1>2. d \o <<>> = d
  BY ConcatEmptySeq
<1>3. (d \o <<h>>) \o t = d \o (<<h>> \o t)
  BY <1>1, ConcatAssociative
<1> QED BY <1>2, <1>3

\* Appending to the queue appends to the whole.
LEMMA AppendLast ==
  ASSUME NEW S, NEW r \in Seq(S), NEW q \in Seq(S), NEW m \in S
  PROVE  r \o Append(q, m) = Append(r \o q, m)
<1>1. r \o q \in Seq(S) /\ <<m>> \in Seq(S)
  BY ConcatProperties
<1>2. r \o Append(q, m) = r \o (q \o <<m>>)
  BY AppendIsConcat
<1>3. Append(r \o q, m) = (r \o q) \o <<m>>
  BY <1>1, AppendIsConcat
<1> QED BY <1>1, <1>2, <1>3, ConcatAssociative

\* What is at the front stays there.
LEMMA ConcatPrefix ==
  ASSUME NEW S, NEW d \in Seq(S), NEW e \in Seq(S), NEW i \in 1..Len(d)
  PROVE  i \in 1..Len(d \o e) /\ (d \o e)[i] = d[i]
<1>1. Len(d) \in Nat /\ Len(e) \in Nat
  BY LenProperties
<1>2. i \in 1..Len(d) + Len(e) /\ i <= Len(d)
  BY <1>1
<1> QED BY <1>1, <1>2, ConcatProperties

\* Appending adds one value to those that occur.
LEMMA RangeAppend ==
  ASSUME NEW S, NEW q \in Seq(S), NEW m \in S
  PROVE  Range(Append(q, m)) = Range(q) \cup {m}
BY AppendProperties, LenProperties DEF Range

\* Appending a new value repeats none.
LEMMA InjectiveAppend ==
  ASSUME NEW S, NEW q \in Seq(S), NEW m \in S, IsInjective(q), m \notin Range(q)
  PROVE  IsInjective(Append(q, m))
BY AppendProperties, LenProperties DEF Range, IsInjective

-----------------------------------------------------------------------------
(* The registry: what the methods of ConnectionRegistry preserve, for      *)
(* every set of ids and protocols                                          *)

\* Add leaves a well-formed map in which the id has a fresh entry.
LEMMA AddClientType ==
  ASSUME NEW IDs, NEW Protos, NEW reg, IsRegistry(reg, IDs, Protos),
         NEW id \in IDs, NEW proto \in Protos
  PROVE  IsRegistry(AddClient(reg, id, proto), IDs, Protos)
BY DEF IsRegistry, AddClient, Entry

\* RecordMessage leaves a well-formed map with the same ids.
LEMMA RecordMessageType ==
  ASSUME NEW IDs, NEW Protos, NEW reg, IsRegistry(reg, IDs, Protos), NEW id
  PROVE  /\ IsRegistry(RecordMessageOf(reg, id), IDs, Protos)
         /\ DOMAIN RecordMessageOf(reg, id) = DOMAIN reg
<1> DEFINE new == RecordMessageOf(reg, id)
<1>1. DOMAIN new = DOMAIN reg
  BY DEF RecordMessageOf
<1>2. ASSUME NEW i \in DOMAIN reg PROVE new[i] \in Entry(Protos)
  <2>1. reg[i] \in [protocol : Protos, messageCount : Nat]
    BY DEF IsRegistry, Entry
  <2>2. [reg[i] EXCEPT !.messageCount = @ + 1] \in [protocol : Protos, messageCount : Nat]
    BY <2>1
  <2> QED BY <2>1, <2>2 DEF RecordMessageOf, Entry
<1>3. new = [i \in DOMAIN reg |-> new[i]]
  BY DEF RecordMessageOf
<1>4. new \in [DOMAIN reg -> Entry(Protos)]
  BY <1>2, <1>3
<1> QED BY <1>1, <1>4 DEF IsRegistry

\* Remove forgets the id and keeps every other entry.
LEMMA RemoveClientType ==
  ASSUME NEW IDs, NEW Protos, NEW reg, IsRegistry(reg, IDs, Protos), NEW id
  PROVE  /\ IsRegistry(RemoveClient(reg, id), IDs, Protos)
         /\ DOMAIN RemoveClient(reg, id) = DOMAIN reg \ {id}
BY DEF IsRegistry, RemoveClient
=============================================================================
