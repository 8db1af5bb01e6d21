-------------------------------- MODULE Sums --------------------------------
(* What a sum over a finite set is, whatever the order in which a fold takes *)
(* its members; how the members of a finite set are ranked; and sequences.   *)
EXTENDS Functions, FiniteSetTheorems, SequenceTheorems, WellFoundedInduction, TLAPS

LEMMA LeastNumber ==
  ASSUME NEW S \in SUBSET Nat, S # {}
  PROVE  \E x \in S : \A y \in S : x <= y
<1>1. PICK x \in S : \A y \in S : ~ (<<y, x>> \in OpToRel(<, Nat))
  BY NatLessThanWellFounded, WFMin
<1>2. ASSUME NEW y \in S PROVE x <= y
  <2>1. ~ (<<y, x>> \in OpToRel(<, Nat)) /\ y \in Nat /\ x \in Nat
    BY <1>1
  <2> QED  BY <2>1 DEF OpToRel
<1> QED  BY <1>2

\* What holds of 1, and of the number after one of which it holds, holds up to n.
LEMMA ByNumbers ==
  ASSUME NEW n \in Nat, NEW Good, n > 0 => 1 \in Good,
         \A i \in 1..n : i \in Good /\ i < n => (i + 1) \in Good
  PROVE  \A i \in 1..n : i \in Good
<1> SUFFICES ASSUME NEW b \in 1..n, b \notin Good PROVE FALSE
  OBVIOUS
<1> DEFINE Bad == {i \in 1..n : i \notin Good}
<1>1. Bad # {} /\ Bad \in SUBSET Nat
  OBVIOUS
<1> HIDE DEF Bad
<1>2. PICK k \in Bad : \A j \in Bad : k <= j
  BY <1>1, LeastNumber
<1>3. k \in 1..n /\ k \notin Good /\ k # 1
  BY DEF Bad
<1>4. k - 1 \in 1..n /\ k - 1 < n /\ (k - 1) + 1 = k
  BY <1>3
<1>5. k - 1 \notin Bad
  BY <1>2, <1>4
<1>6. k - 1 \in Good
  BY <1>4, <1>5 DEF Bad
<1> QED  BY <1>3, <1>4, <1>6

\* What holds of the empty set, and of a set when it holds of it without any
\* one of its members, holds of every finite set.
LEMMA ByMembers ==
  ASSUME NEW S, IsFiniteSet(S), NEW Good \in SUBSET SUBSET S, {} \in Good,
         \A T \in SUBSET S : T # {} /\ (\A x \in T : T \ {x} \in Good) => T \in Good
  PROVE  \A T \in SUBSET S : T \in Good
<1> SUFFICES ASSUME NEW B \in SUBSET S, B \notin Good PROVE FALSE
  OBVIOUS
<1> DEFINE Sizes == {n \in Nat : \E T \in SUBSET S : T \notin Good /\ Cardinality(T) = n}
<1>1. \A T \in SUBSET S : IsFiniteSet(T) /\ Cardinality(T) \in Nat
  BY FS_Subset, FS_CardinalityType
<1>2. Cardinality(B) \in Sizes
  BY <1>1
<1>3. PICK n \in Sizes : \A k \in Sizes : n <= k
  <2> HIDE DEF Sizes
  <2>1. Sizes # {} /\ Sizes \in SUBSET Nat
    BY <1>2 DEF Sizes
  <2> QED  BY <2>1, LeastNumber
<1>4. PICK T \in SUBSET S : T \notin Good /\ Cardinality(T) = n
  BY <1>3
<1>5. ASSUME NEW x \in T PROVE T \ {x} \in Good
  <2>1. T \ {x} \in SUBSET S /\ Cardinality(T \ {x}) = n - 1 /\ n - 1 \in Nat
    <3> DEFINE U == T \ {x}
    <3>1. U \in SUBSET S /\ IsFiniteSet(T) /\ n \in Nat
      BY <1>1, <1>3
    <3>2. Cardinality(U) = n - 1
      BY <1>4, <1>5, <3>1, FS_RemoveElement
    <3> HIDE DEF U
    <3>3. Cardinality(U) \in Nat
      BY <1>1, <3>1
    <3> QED  BY <3>1, <3>2, <3>3 DEF U
  <2>2. T \ {x} \notin Good => n - 1 \in Sizes
    <3> DEFINE U == T \ {x}
    <3>1. U \in SUBSET S /\ Cardinality(U) = n - 1 /\ n - 1 \in Nat
      BY <2>1
    <3> HIDE DEF U
    <3>2. U \notin Good => n - 1 \in Sizes
      BY <3>1
    <3> QED  BY <3>2 DEF U
  <2>3. n - 1 \notin Sizes
    <3>1. n \in Nat
      OBVIOUS
    <3> HIDE DEF Sizes
    <3>2. ~ (n <= n - 1)
      BY <3>1
    <3> QED  BY <1>3, <3>2
  <2> QED  BY <2>2, <2>3
<1> QED  BY <1>4, <1>5

-----------------------------------------------------------------------------
(* The recursive function by which a fold is defined is there.               *)

\* Some member of s, the one that a fold takes first.
Chosen(s) == CHOOSE x \in s : TRUE

Accumulates(F, S, g) ==
  g = [s \in SUBSET S |-> IF s = {} THEN 0 ELSE F[Chosen(s)] + g[s \ {Chosen(s)}]]

LEMMA SumUnfolds ==
  ASSUME NEW F, NEW S
  PROVE  SumFunctionOnSet(F, S) = (CHOOSE g : Accumulates(F, S, g))[S]
BY DEF SumFunctionOnSet, FoldFunctionOnSet, MapThenFoldSet, Accumulates, Chosen

LEMMA ChosenIs == ASSUME NEW s, s # {} PROVE Chosen(s) \in s
BY DEF Chosen

LEMMA AccumulatesAt ==
  ASSUME NEW F, NEW S, NEW g, Accumulates(F, S, g)
  PROVE  /\ S \in SUBSET S /\ {} \in SUBSET S
         /\ g[{}] = 0
         /\ \A s \in SUBSET S : s # {} => g[s] = F[Chosen(s)] + g[s \ {Chosen(s)}]
<1>1. \A s \in SUBSET S : g[s] = IF s = {} THEN 0 ELSE F[Chosen(s)] + g[s \ {Chosen(s)}]
  BY DEF Accumulates
<1> QED  BY <1>1

LEMMA OneAccumulation ==
  ASSUME NEW F, NEW S, IsFiniteSet(S), NEW T \in SUBSET S, NEW g, NEW h,
         Accumulates(F, S, g), Accumulates(F, T, h)
  PROVE  \A s \in SUBSET T : g[s] = h[s]
<1> DEFINE Good == {s \in SUBSET T : g[s] = h[s]}
<1>1. IsFiniteSet(T)
  BY FS_Subset
<1>2. {} \in Good
  BY AccumulatesAt
<1>3. ASSUME NEW s \in SUBSET T, s # {}, \A x \in s : s \ {x} \in Good
      PROVE  s \in Good
  <2>1. g[s \ {Chosen(s)}] = h[s \ {Chosen(s)}]
    BY <1>3, ChosenIs
  <2>2. g[s] = F[Chosen(s)] + g[s \ {Chosen(s)}]
    <3>1. Accumulates(F, S, g) /\ s \in SUBSET S
      OBVIOUS
    <3> QED  BY ONLY <1>3, <3>1, AccumulatesAt
  <2>3. h[s] = F[Chosen(s)] + h[s \ {Chosen(s)}]
    <3>1. Accumulates(F, T, h)
      OBVIOUS
    <3> QED  BY ONLY <1>3, <3>1, AccumulatesAt
  <2> QED  BY <2>1, <2>2, <2>3
<1>4. Good \in SUBSET SUBSET T
  OBVIOUS
<1> HIDE DEF Good
<1>5. \A s \in SUBSET T : s \in Good
  BY <1>1, <1>2, <1>3, <1>4, ByMembers
<1> QED  BY <1>5 DEF Good

LEMMA AccumulationExists ==
  ASSUME NEW F, NEW S, IsFiniteSet(S)
  PROVE  \E g : Accumulates(F, S, g)
<1> DEFINE Good == {T \in SUBSET S : \E g : Accumulates(F, T, g)}
<1>1. {} \in Good
  <2> DEFINE g == [s \in SUBSET {} |-> 0]
  <2>1. ASSUME NEW s \in SUBSET {}
        PROVE  g[s] = IF s = {} THEN 0 ELSE F[Chosen(s)] + g[s \ {Chosen(s)}]
    OBVIOUS
  <2>2. g = [s \in SUBSET {} |-> IF s = {} THEN 0 ELSE F[Chosen(s)] + g[s \ {Chosen(s)}]]
    BY <2>1
  <2> HIDE DEF g
  <2>3. Accumulates(F, {}, g)
    BY <2>2 DEF Accumulates
  <2>4. {} \in SUBSET S
    OBVIOUS
  <2> QED  BY <2>3, <2>4
<1>2. ASSUME NEW T \in SUBSET S, T # {}, \A x \in T : T \ {x} \in Good
      PROVE  T \in Good
  <2> DEFINE c == Chosen(T)
             before(s) == CHOOSE g : Accumulates(F, s, g)
             part(s) == before(s)[s]
             g == [s \in SUBSET T |-> IF s = T THEN F[c] + part(T \ {c}) ELSE part(s)]
  <2>1. c \in T
    BY <1>2, ChosenIs
  <2>2. ASSUME NEW s \in SUBSET T, s # T PROVE Accumulates(F, s, before(s))
    <3>1. PICK x \in T : x \notin s
      BY <2>2
    <3>2. PICK h : Accumulates(F, T \ {x}, h)
      BY <1>2
    <3>3. s \in SUBSET (T \ {x}) /\ IsFiniteSet(T \ {x})
      BY <2>2, <3>1, FS_Subset, FS_RemoveElement
    <3> DEFINE k == [u \in SUBSET s |-> h[u]]
    <3>4. Accumulates(F, s, k)
      <4>1. ASSUME NEW u \in SUBSET s
            PROVE  k[u] = IF u = {} THEN 0 ELSE F[Chosen(u)] + k[u \ {Chosen(u)}]
        <5>1. u \in SUBSET (T \ {x}) /\ u \ {Chosen(u)} \in SUBSET s
          BY <3>3
        <5> DEFINE w == T \ {x}
        <5>2. u # {} => h[u] = F[Chosen(u)] + h[u \ {Chosen(u)}]
          <6>1. Accumulates(F, w, h) /\ u \in SUBSET w
            BY <3>2, <5>1
          <6> HIDE DEF w
          <6> QED  BY ONLY <6>1, AccumulatesAt
        <5>3. h[{}] = 0
          BY <3>2, AccumulatesAt
        <5> QED  BY <5>1, <5>2, <5>3
      <4>2. k = [u \in SUBSET s |-> IF u = {} THEN 0 ELSE F[Chosen(u)] + k[u \ {Chosen(u)}]]
        BY <4>1
      <4> QED  BY <4>2 DEF Accumulates
    <3> HIDE DEF k
    <3> QED  BY <3>4
  <2>3. ASSUME NEW s \in SUBSET T, s # T, s # {}
        PROVE  part(s) = F[Chosen(s)] + part(s \ {Chosen(s)})
    <3> DEFINE u == s \ {Chosen(s)}
    <3>1. u \in SUBSET s /\ u # T /\ u \in SUBSET T /\ Chosen(s) \in s
      BY <2>3, ChosenIs
    <3>2. Accumulates(F, s, before(s)) /\ Accumulates(F, u, before(u))
      BY <2>2, <2>3, <3>1
    <3>3. IsFiniteSet(s)
      BY <2>3, FS_Subset
    <3> HIDE DEF before
    <3>4. before(s)[s] = F[Chosen(s)] + before(s)[u]
      BY <2>3, <3>2, AccumulatesAt
    <3>5. before(s)[u] = before(u)[u]
      <4> HIDE DEF u
      <4> QED  BY <3>1, <3>2, <3>3, OneAccumulation
    <3> QED  BY <3>4, <3>5
  <2>4. T # {} => part({}) = 0
    <3>1. Accumulates(F, {}, before({}))
      BY <1>2, <2>2
    <3> HIDE DEF before
    <3> QED  BY <3>1, AccumulatesAt
  <2> HIDE DEF part
  <2>5. ASSUME NEW s \in SUBSET T
        PROVE  g[s] = IF s = {} THEN 0 ELSE F[Chosen(s)] + g[s \ {Chosen(s)}]
    <3>1. s # {} => Chosen(s) \in s
      BY ChosenIs
    <3>2. CASE s = {}
      BY <1>2, <2>4, <3>2
    <3>3. CASE s = T
      BY <1>2, <2>1, <3>3
    <3>4. CASE s # {} /\ s # T
      <4>1. s \ {Chosen(s)} \in SUBSET T /\ s \ {Chosen(s)} # T
        BY <3>1, <3>4
      <4> QED  BY <2>3, <3>4, <4>1
    <3> QED  BY <3>2, <3>3, <3>4
  <2>6. g = [s \in SUBSET T |-> IF s = {} THEN 0 ELSE F[Chosen(s)] + g[s \ {Chosen(s)}]]
    BY <2>5
  <2> HIDE DEF g
  <2> QED  BY <2>6 DEF Accumulates
<1>3. Good \in SUBSET SUBSET S
  OBVIOUS
<1> HIDE DEF Good
<1>4. S \in SUBSET S => S \in Good
  BY <1>1, <1>2, <1>3, ByMembers
<1> QED  BY <1>4 DEF Good

-----------------------------------------------------------------------------
(* The laws of sums.                                                         *)

LEMMA SumOfNone ==
  ASSUME NEW F
  PROVE  SumFunctionOnSet(F, {}) = 0
<1>1. PICK g : Accumulates(F, {}, g)
  BY AccumulationExists, FS_EmptySet
<1> DEFINE h == CHOOSE g1 : Accumulates(F, {}, g1)
<1>2. Accumulates(F, {}, h)
  BY <1>1
<1>3. SumFunctionOnSet(F, {}) = h[{}]
  BY SumUnfolds
<1> HIDE DEF h
<1> QED  BY <1>2, <1>3, AccumulatesAt

\* The sum over a subset is a value of the function that adds up the whole.
LEMMA SumAccumulates ==
  ASSUME NEW F, NEW S, IsFiniteSet(S), NEW T \in SUBSET S, NEW g, Accumulates(F, S, g)
  PROVE  SumFunctionOnSet(F, T) = g[T]
<1> DEFINE h == CHOOSE k : Accumulates(F, T, k)
<1>1. IsFiniteSet(T)
  BY FS_Subset
<1>2. \E k : Accumulates(F, T, k)
  BY <1>1, AccumulationExists
<1>3. Accumulates(F, T, h)
  BY <1>2
<1>4. SumFunctionOnSet(F, T) = h[T]
  BY SumUnfolds
<1> HIDE DEF h
<1>5. T \in SUBSET T
  OBVIOUS
<1>6. g[T] = h[T]
  BY <1>3, <1>5, OneAccumulation
<1> QED  BY <1>4, <1>6

LEMMA SumOfChosen ==
  ASSUME NEW F, NEW S, IsFiniteSet(S), S # {}
  PROVE  SumFunctionOnSet(F, S) = F[Chosen(S)] + SumFunctionOnSet(F, S \ {Chosen(S)})
<1>1. PICK g : Accumulates(F, S, g)
  BY AccumulationExists
<1> DEFINE T == S \ {Chosen(S)}
<1>2. S \in SUBSET S /\ T \in SUBSET S
  OBVIOUS
<1>3. g[S] = F[Chosen(S)] + g[T]
  BY <1>1, <1>2, AccumulatesAt
<1> HIDE DEF T
<1>4. SumFunctionOnSet(F, S) = g[S] /\ SumFunctionOnSet(F, T) = g[T]
  BY <1>1, <1>2, SumAccumulates
<1> QED  BY <1>3, <1>4 DEF T

LEMMA SumInteger ==
  ASSUME NEW F, NEW S, IsFiniteSet(S), \A x \in S : F[x] \in Int
  PROVE  \A T \in SUBSET S : SumFunctionOnSet(F, T) \in Int
<1> DEFINE Good == {T \in SUBSET S : SumFunctionOnSet(F, T) \in Int}
<1>1. {} \in Good
  BY SumOfNone
<1>2. ASSUME NEW T \in SUBSET S, T # {}, \A x \in T : T \ {x} \in Good
      PROVE  T \in Good
  <2>1. Chosen(T) \in T /\ IsFiniteSet(T)
    BY <1>2, ChosenIs, FS_Subset
  <2>2. SumFunctionOnSet(F, T \ {Chosen(T)}) \in Int /\ F[Chosen(T)] \in Int
    BY <1>2, <2>1
  <2>3. SumFunctionOnSet(F, T) = F[Chosen(T)] + SumFunctionOnSet(F, T \ {Chosen(T)})
    BY <1>2, <2>1, SumOfChosen
  <2> QED  BY <2>2, <2>3
<1>3. Good \in SUBSET SUBSET S
  OBVIOUS
<1> HIDE DEF Good
<1>4. \A T \in SUBSET S : T \in Good
  BY <1>1, <1>2, <1>3, ByMembers
<1> QED  BY <1>4 DEF Good

LEMMA SumWithout ==
  ASSUME NEW F, NEW S, IsFiniteSet(S), \A x \in S : F[x] \in Int
  PROVE  \A T \in SUBSET S : \A x \in T :
           SumFunctionOnSet(F, T) = F[x] + SumFunctionOnSet(F, T \ {x})
<1> DEFINE Good == {T \in SUBSET S : \A x \in T :
                      SumFunctionOnSet(F, T) = F[x] + SumFunctionOnSet(F, T \ {x})}
<1>1. {} \in Good
  OBVIOUS
<1>2. ASSUME NEW T \in SUBSET S, T # {}, \A x \in T : T \ {x} \in Good
      PROVE  T \in Good
  <2> SUFFICES ASSUME NEW x \in T
               PROVE  SumFunctionOnSet(F, T) = F[x] + SumFunctionOnSet(F, T \ {x})
    OBVIOUS
  <2>1. PICK c : c = Chosen(T)
    OBVIOUS
  <2>2. c \in T /\ IsFiniteSet(T)
    BY <1>2, <2>1, ChosenIs, FS_Subset
  <2>3. SumFunctionOnSet(F, T) = F[c] + SumFunctionOnSet(F, T \ {c})
    BY <1>2, <2>1, <2>2, SumOfChosen
  <2>4. CASE x = c
    BY <2>3, <2>4
  <2>5. CASE x # c
    <3> DEFINE A == T \ {c}
               B == T \ {x}
               U == (T \ {c}) \ {x}
    <3>1. /\ A \ {x} = U /\ B \ {c} = U /\ U \in SUBSET S
          /\ A \in Good /\ B \in Good /\ x \in A /\ c \in B
      BY <1>2, <2>2, <2>5
    <3>2. SumFunctionOnSet(F, A) = F[x] + SumFunctionOnSet(F, A \ {x})
      BY <3>1
    <3>3. SumFunctionOnSet(F, B) = F[c] + SumFunctionOnSet(F, B \ {c})
      BY <3>1
    <3> HIDE DEF U
    <3>4. F[x] \in Int /\ F[c] \in Int /\ SumFunctionOnSet(F, U) \in Int
      BY <2>2, <3>1, SumInteger
    <3>5. SumFunctionOnSet(F, A) = F[x] + SumFunctionOnSet(F, U)
      BY <3>1, <3>2
    <3>6. SumFunctionOnSet(F, B) = F[c] + SumFunctionOnSet(F, U)
      BY <3>1, <3>3
    <3> HIDE DEF A, B
    <3>7. SumFunctionOnSet(F, T) = F[x] + SumFunctionOnSet(F, B)
      BY <2>3, <3>4, <3>5, <3>6 DEF A
    <3> QED  BY <3>7 DEF B
  <2> QED  BY <2>4, <2>5
<1>3. Good \in SUBSET SUBSET S
  OBVIOUS
<1> HIDE DEF Good
<1>4. \A T \in SUBSET S : T \in Good
  BY <1>1, <1>2, <1>3, ByMembers
<1> QED  BY <1>4 DEF Good

LEMMA SumAgrees ==
  ASSUME NEW F, NEW G, NEW S, IsFiniteSet(S), \A x \in S : F[x] = G[x]
  PROVE  SumFunctionOnSet(F, S) = SumFunctionOnSet(G, S)
<1> DEFINE Good == {T \in SUBSET S : SumFunctionOnSet(F, T) = SumFunctionOnSet(G, T)}
<1>1. {} \in Good
  BY SumOfNone
<1>2. ASSUME NEW T \in SUBSET S, T # {}, \A x \in T : T \ {x} \in Good
      PROVE  T \in Good
  <2>1. Chosen(T) \in T /\ IsFiniteSet(T)
    BY <1>2, ChosenIs, FS_Subset
  <2>2. SumFunctionOnSet(F, T \ {Chosen(T)}) = SumFunctionOnSet(G, T \ {Chosen(T)})
    BY <1>2, <2>1
  <2>3. SumFunctionOnSet(F, T) = F[Chosen(T)] + SumFunctionOnSet(F, T \ {Chosen(T)})
    BY <1>2, <2>1, SumOfChosen
  <2>4. SumFunctionOnSet(G, T) = G[Chosen(T)] + SumFunctionOnSet(G, T \ {Chosen(T)})
    BY <1>2, <2>1, SumOfChosen
  <2> QED  BY <2>1, <2>2, <2>3, <2>4
<1>3. Good \in SUBSET SUBSET S
  OBVIOUS
<1> HIDE DEF Good
<1>4. S \in SUBSET S => S \in Good
  BY <1>1, <1>2, <1>3, ByMembers
<1> QED  BY <1>4 DEF Good

LEMMA SumOfOne ==
  ASSUME NEW F, NEW x, F[x] \in Int
  PROVE  SumFunctionOnSet(F, {x}) = F[x]
<1>1. IsFiniteSet({x}) /\ {x} \in SUBSET {x} /\ {x} \ {x} = {}
  BY FS_Singleton
<1>2. SumFunctionOnSet(F, {x}) = F[x] + SumFunctionOnSet(F, {x} \ {x})
  BY <1>1, SumWithout
<1> QED  BY <1>1, <1>2, SumOfNone

\* Two parts that share nothing add up to the sum of both.
LEMMA SumOfBoth ==
  ASSUME NEW F, NEW S, IsFiniteSet(S), \A x \in S : F[x] \in Int, NEW A \in SUBSET S
  PROVE  SumFunctionOnSet(F, S) = SumFunctionOnSet(F, A) + SumFunctionOnSet(F, S \ A)
<1> DEFINE B == S \ A
           Good == {T \in SUBSET B :
                      SumFunctionOnSet(F, A \cup T) = SumFunctionOnSet(F, A) + SumFunctionOnSet(F, T)}
<1>1. {} \in Good
  <2>1. A \cup {} = A /\ SumFunctionOnSet(F, A) \in Int
    BY SumInteger
  <2> QED  BY <2>1, SumOfNone
<1>2. ASSUME NEW T \in SUBSET B, T # {}, \A x \in T : T \ {x} \in Good
      PROVE  T \in Good
  <2>1. PICK x : x \in T
    BY <1>2
  <2> DEFINE U == T \ {x}
  <2>2. SumFunctionOnSet(F, A \cup U) = SumFunctionOnSet(F, A) + SumFunctionOnSet(F, U)
    BY <1>2, <2>1
  <2>3. /\ A \cup T \in SUBSET S /\ T \in SUBSET S /\ U \in SUBSET S /\ x \in A \cup T
        /\ (A \cup T) \ {x} = A \cup U /\ F[x] \in Int
    BY <2>1
  <2>4. SumFunctionOnSet(F, A \cup T) = F[x] + SumFunctionOnSet(F, A \cup U)
    <3>1. SumFunctionOnSet(F, A \cup T) = F[x] + SumFunctionOnSet(F, (A \cup T) \ {x})
      BY <2>3, SumWithout
    <3> QED  BY <2>3, <3>1
  <2>5. SumFunctionOnSet(F, T) = F[x] + SumFunctionOnSet(F, U)
    <3>1. T \in SUBSET S
      OBVIOUS
    <3> QED  BY <2>1, <3>1, SumWithout
  <2> HIDE DEF U
  <2>6. SumFunctionOnSet(F, A) \in Int /\ SumFunctionOnSet(F, U) \in Int
    BY <2>3, SumInteger
  <2>7. SumFunctionOnSet(F, A \cup T) = SumFunctionOnSet(F, A) + SumFunctionOnSet(F, T)
    <3>1. PICK t, u, a, v : /\ t = SumFunctionOnSet(F, T) /\ u = SumFunctionOnSet(F, U)
                            /\ a = SumFunctionOnSet(F, A) /\ v = F[x]
      OBVIOUS
    <3> QED  BY <2>2, <2>3, <2>4, <2>5, <2>6, <3>1
  <2> QED  BY <2>7
<1>3. Good \in SUBSET SUBSET B /\ IsFiniteSet(B)
  BY FS_Subset
<1> HIDE DEF Good, B
<1>4. B \in SUBSET B => B \in Good
  BY <1>1, <1>2, <1>3, ByMembers
<1>5. A \cup B = S
  BY DEF B
<1> QED  BY <1>4, <1>5 DEF Good, B

\* m puts the members of S into groups, and G says what each adds up to.
SharedOut(F, S, m, G, T) ==
  /\ IsFiniteSet(S) /\ IsFiniteSet(T)
  /\ \A x \in S : F[x] \in Int
  /\ \A x \in S : m[x] \in T
  /\ \A t \in T : G[t] = SumFunctionOnSet(F, {x \in S : m[x] = t})

\* The sum over S is the sum of the sums over its groups, whatever m puts them
\* into groups by.
LEMMA SumOfGroups ==
  ASSUME NEW F, NEW S, NEW m, NEW G, NEW T, SharedOut(F, S, m, G, T)
  PROVE  SumFunctionOnSet(F, S) = SumFunctionOnSet(G, T)
<1>0. /\ IsFiniteSet(S) /\ IsFiniteSet(T)
      /\ \A x \in S : F[x] \in Int /\ m[x] \in T
      /\ \A t \in T : G[t] = SumFunctionOnSet(F, {x \in S : m[x] = t})
  BY DEF SharedOut
<1> DEFINE Group(t) == {x \in S : m[x] = t}
           Groups(U) == {x \in S : m[x] \in U}
           Good == {U \in SUBSET T : SumFunctionOnSet(G, U) = SumFunctionOnSet(F, Groups(U))}
<1>1. {} \in Good
  <2>1. Groups({}) = {}
    OBVIOUS
  <2> QED  BY <2>1, SumOfNone
<1>2. \A t \in T : G[t] \in Int
  <2>1. \A t \in T : Group(t) \in SUBSET S /\ G[t] = SumFunctionOnSet(F, Group(t))
    BY <1>0
  <2> HIDE DEF Group
  <2> QED  BY <1>0, <2>1, SumInteger
<1>3. ASSUME NEW U \in SUBSET T, U # {}, \A t \in U : U \ {t} \in Good
      PROVE  U \in Good
  <2>1. PICK t : t \in U
    BY <1>3
  <2>2. /\ SumFunctionOnSet(G, U \ {t}) = SumFunctionOnSet(F, Groups(U \ {t}))
        /\ G[t] = SumFunctionOnSet(F, Group(t))
    BY <1>0, <1>3, <2>1
  <2>3. SumFunctionOnSet(G, U) = G[t] + SumFunctionOnSet(G, U \ {t})
    BY <1>0, <1>2, <2>1, SumWithout
  <2>4. SumFunctionOnSet(F, Groups(U))
          = SumFunctionOnSet(F, Group(t)) + SumFunctionOnSet(F, Groups(U \ {t}))
    <3>1. /\ Group(t) \in SUBSET Groups(U) /\ Groups(U) \in SUBSET S
          /\ Groups(U) \ Group(t) = Groups(U \ {t}) /\ \A x \in Groups(U) : F[x] \in Int
      BY <1>0, <2>1
    <3> HIDE DEF Group, Groups
    <3>2. IsFiniteSet(Groups(U))
      BY <1>0, <3>1, FS_Subset
    <3>3. SumFunctionOnSet(F, Groups(U))
            = SumFunctionOnSet(F, Group(t)) + SumFunctionOnSet(F, Groups(U) \ Group(t))
      BY <3>1, <3>2, SumOfBoth
    <3> QED  BY <3>1, <3>3
  <2> HIDE DEF Group, Groups
  <2>5. SumFunctionOnSet(G, U) = SumFunctionOnSet(F, Groups(U))
    BY <2>2, <2>3, <2>4
  <2> QED  BY <2>5
<1>4. Good \in SUBSET SUBSET T
  OBVIOUS
<1>5. Groups(T) = S
  BY <1>0
<1> HIDE DEF Good, Groups
<1>6. T \in SUBSET T => T \in Good
  BY <1>0, <1>1, <1>3, <1>4, ByMembers
<1> QED  BY <1>5, <1>6 DEF Good

LEMMA SumByGroups ==
  ASSUME NEW F, NEW S, IsFiniteSet(S), \A x \in S : F[x] \in Int,
         NEW T, IsFiniteSet(T), NEW m, \A x \in S : m[x] \in T,
         NEW G, \A t \in T : G[t] = SumFunctionOnSet(F, {x \in S : m[x] = t})
  PROVE  SumFunctionOnSet(F, S) = SumFunctionOnSet(G, T)
<1>1. SharedOut(F, S, m, G, T)
  BY DEF SharedOut
<1> QED  BY <1>1, SumOfGroups

\* Summing in another order, or over other names of the same things.
LEMMA SumRenamed ==
  ASSUME NEW F, NEW S, IsFiniteSet(S), \A x \in S : F[x] \in Int,
         NEW T, IsFiniteSet(T), NEW m, \A x \in S : m[x] \in T,
         NEW G, \A t \in T : \E x \in S : m[x] = t /\ G[t] = F[x],
         \A x, y \in S : m[x] = m[y] => x = y
  PROVE  SumFunctionOnSet(F, S) = SumFunctionOnSet(G, T)
<1>1. ASSUME NEW t \in T PROVE G[t] = SumFunctionOnSet(F, {x \in S : m[x] = t})
  <2>1. PICK x \in S : m[x] = t /\ G[t] = F[x]
    OBVIOUS
  <2>2. {y \in S : m[y] = t} = {x}
    BY <2>1
  <2>3. F[x] \in Int
    OBVIOUS
  <2> QED  BY <2>1, <2>2, <2>3, SumOfOne
<1> QED  BY <1>1, SumByGroups

\* What is added up twice, added up once for all.
LEMMA SumOfSums ==
  ASSUME NEW F, NEW G, NEW H, NEW S, IsFiniteSet(S),
         \A x \in S : F[x] \in Int /\ G[x] \in Int /\ H[x] = F[x] + G[x]
  PROVE  SumFunctionOnSet(H, S) = SumFunctionOnSet(F, S) + SumFunctionOnSet(G, S)
<1> DEFINE Good == {T \in SUBSET S :
                      SumFunctionOnSet(H, T) = SumFunctionOnSet(F, T) + SumFunctionOnSet(G, T)}
<1>1. {} \in Good
  BY SumOfNone
<1>2. ASSUME NEW T \in SUBSET S, T # {}, \A x \in T : T \ {x} \in Good
      PROVE  T \in Good
  <2>1. PICK x \in S : x \in T
    BY <1>2
  <2> DEFINE U == T \ {x}
  <2>2. SumFunctionOnSet(H, U) = SumFunctionOnSet(F, U) + SumFunctionOnSet(G, U)
    BY <1>2, <2>1
  <2>3. U \in SUBSET S /\ \A y \in S : H[y] \in Int
    OBVIOUS
  <2>4. /\ SumFunctionOnSet(F, T) = F[x] + SumFunctionOnSet(F, U)
        /\ SumFunctionOnSet(G, T) = G[x] + SumFunctionOnSet(G, U)
        /\ SumFunctionOnSet(H, T) = H[x] + SumFunctionOnSet(H, U)
    BY <2>1, <2>3, SumWithout
  <2> HIDE DEF U
  <2>5. SumFunctionOnSet(F, U) \in Int /\ SumFunctionOnSet(G, U) \in Int
    BY <2>3, SumInteger
  <2>6. F[x] \in Int /\ G[x] \in Int /\ H[x] = F[x] + G[x]
    BY <2>1
  <2>7. PICK f, g, h : /\ f = SumFunctionOnSet(F, U) /\ g = SumFunctionOnSet(G, U)
                       /\ h = SumFunctionOnSet(H, U)
    OBVIOUS
  <2>8. SumFunctionOnSet(H, T) = SumFunctionOnSet(F, T) + SumFunctionOnSet(G, T)
    BY <2>2, <2>4, <2>5, <2>6, <2>7
  <2> QED  BY <2>8
<1>3. Good \in SUBSET SUBSET S
  OBVIOUS
<1> HIDE DEF Good
<1>4. S \in SUBSET S => S \in Good
  BY <1>1, <1>2, <1>3, ByMembers
<1> QED  BY <1>4 DEF Good

\* What is never negative adds up to no less than any of its parts.
LEMMA SumNatural ==
  ASSUME NEW F, NEW S, IsFiniteSet(S), \A x \in S : F[x] \in Nat
  PROVE  SumFunctionOnSet(F, S) \in Nat
<1> DEFINE Good == {T \in SUBSET S : SumFunctionOnSet(F, T) \in Nat}
<1>1. {} \in Good
  BY SumOfNone
<1>2. ASSUME NEW T \in SUBSET S, T # {}, \A x \in T : T \ {x} \in Good
      PROVE  T \in Good
  <2>1. Chosen(T) \in T /\ IsFiniteSet(T)
    BY <1>2, ChosenIs, FS_Subset
  <2>2. SumFunctionOnSet(F, T \ {Chosen(T)}) \in Nat /\ F[Chosen(T)] \in Nat
    BY <1>2, <2>1
  <2>3. SumFunctionOnSet(F, T) = F[Chosen(T)] + SumFunctionOnSet(F, T \ {Chosen(T)})
    BY <1>2, <2>1, SumOfChosen
  <2> QED  BY <2>2, <2>3
<1>3. Good \in SUBSET SUBSET S
  OBVIOUS
<1> HIDE DEF Good
<1>4. S \in SUBSET S => S \in Good
  BY <1>1, <1>2, <1>3, ByMembers
<1> QED  BY <1>4 DEF Good

\* A sum grows with what is added up ...
LEMMA SumMonotone ==
  ASSUME NEW F, NEW G, NEW S, IsFiniteSet(S),
         \A x \in S : F[x] \in Int /\ G[x] \in Int /\ F[x] <= G[x]
  PROVE  SumFunctionOnSet(F, S) <= SumFunctionOnSet(G, S)
<1> DEFINE H == [x \in S |-> G[x] - F[x]]
<1>1. \A x \in S : F[x] \in Int /\ H[x] \in Int /\ G[x] = F[x] + H[x] /\ H[x] \in Nat
  OBVIOUS
<1> HIDE DEF H
<1>2. SumFunctionOnSet(G, S) = SumFunctionOnSet(F, S) + SumFunctionOnSet(H, S)
  BY <1>1, SumOfSums
<1>3. SumFunctionOnSet(H, S) \in Nat
  BY <1>1, SumNatural
<1>4. SumFunctionOnSet(F, S) \in Int
  BY <1>1, SumInteger
<1> QED  BY <1>2, <1>3, <1>4

\* ... and a part of what is not negative adds up to no more than all of it.
LEMMA SumOfPart ==
  ASSUME NEW F, NEW S, IsFiniteSet(S), \A x \in S : F[x] \in Nat, NEW A \in SUBSET S
  PROVE  SumFunctionOnSet(F, A) <= SumFunctionOnSet(F, S)
<1>1. \A x \in S : F[x] \in Int
  OBVIOUS
<1>2. SumFunctionOnSet(F, S) = SumFunctionOnSet(F, A) + SumFunctionOnSet(F, S \ A)
  BY <1>1, SumOfBoth
<1>3. IsFiniteSet(A) /\ IsFiniteSet(S \ A)
  BY FS_Subset
<1>4. SumFunctionOnSet(F, A) \in Nat /\ SumFunctionOnSet(F, S \ A) \in Nat
  <2>1. \A x \in A : F[x] \in Nat
    OBVIOUS
  <2>2. \A x \in S \ A : F[x] \in Nat
    OBVIOUS
  <2> QED  BY <1>3, <2>1, <2>2, SumNatural
<1> QED  BY <1>2, <1>4

\* Nothing adds up to nothing.
LEMMA SumOfZeros ==
  ASSUME NEW F, NEW S, IsFiniteSet(S), \A x \in S : F[x] = 0
  PROVE  SumFunctionOnSet(F, S) = 0
<1>1. \A x \in S : F[x] \in Int /\ F[x] = F[x] + F[x]
  OBVIOUS
<1> DEFINE sum == SumFunctionOnSet(F, S)
<1>2. sum = sum + sum
  BY <1>1, SumOfSums
<1>3. sum \in Int
  BY <1>1, SumInteger
<1> HIDE DEF sum
<1>4. sum = 0
  BY <1>2, <1>3
<1> QED  BY <1>4 DEF sum
-----------------------------------------------------------------------------
(* The ranks of the members of a finite set, by how many come before.        *)

RanksBy(before, S) ==
  /\ \A r \in S : before[r] \in SUBSET S /\ r \notin before[r]
  /\ \A r, s \in S : r \in before[s] => before[r] \subseteq before[s]
  /\ \A r, s \in S : r # s => r \in before[s] \/ s \in before[r]

LEMMA RanksAreTaken ==
  ASSUME NEW S, IsFiniteSet(S), NEW n, n = Cardinality(S), NEW before, RanksBy(before, S)
  PROVE  /\ n \in Nat
         /\ \A r \in S : Cardinality(before[r]) \in 0..(n - 1)
         /\ \A r, s \in S : Cardinality(before[r]) = Cardinality(before[s]) => r = s
         /\ \A t \in 0..(n - 1) : \E r \in S : Cardinality(before[r]) = t
<1> DEFINE rank == [r \in S |-> Cardinality(before[r])]
           T == 0..(n - 1)
<1>1. n \in Nat
  BY FS_CardinalityType
<1>2. \A r \in S : IsFiniteSet(before[r]) /\ rank[r] \in Nat
  BY FS_Subset, FS_CardinalityType DEF RanksBy
<1>3. ASSUME NEW r \in S, NEW s \in S, r \in before[s] PROVE rank[r] < rank[s]
  <2>1. before[r] \subseteq before[s] /\ before[r] # before[s]
    BY <1>3 DEF RanksBy
  <2>2. Cardinality(before[r]) <= Cardinality(before[s])
    BY <1>2, <2>1, FS_Subset
  <2>3. Cardinality(before[r]) # Cardinality(before[s])
    BY <1>2, <2>1, FS_Subset
  <2> QED  BY <1>2, <2>2, <2>3
<1>4. \A r, s \in S : rank[r] = rank[s] => r = s
  <2> SUFFICES ASSUME NEW r \in S, NEW s \in S, r # s PROVE rank[r] # rank[s]
    OBVIOUS
  <2>1. r \in before[s] \/ s \in before[r]
    BY DEF RanksBy
  <2>2. rank[r] < rank[s] \/ rank[s] < rank[r]
    BY <1>3, <2>1
  <2>3. rank[r] \in Nat /\ rank[s] \in Nat
    BY <1>2
  <2> HIDE DEF rank
  <2> QED  BY <2>2, <2>3
<1>5. \A r \in S : rank[r] \in 0..(n - 1)
  <2> SUFFICES ASSUME NEW r \in S PROVE rank[r] \in 0..(n - 1)
    OBVIOUS
  <2>1. before[r] \subseteq S /\ before[r] # S
    BY DEF RanksBy
  <2>2. Cardinality(before[r]) <= n /\ Cardinality(before[r]) # n
    BY <2>1, FS_Subset
  <2> QED  BY <1>1, <1>2, <2>2
<1>6. IsFiniteSet(T) /\ Cardinality(T) = n
  <2>1. 0 \in Int /\ n - 1 \in Int
    BY <1>1
  <2>2. IsFiniteSet(T) /\ Cardinality(T) = IF 0 > n - 1 THEN 0 ELSE (n - 1) - 0 + 1
    BY ONLY <2>1, FS_Interval
  <2> HIDE DEF T
  <2> QED  BY <1>1, <2>2
<1>7. \A t \in T : \E r \in S : rank[r] = t
  <2>1. rank \in Injection(S, T)
    <3>1. rank \in [S -> T]
      BY <1>5
    <3> HIDE DEF rank, T
    <3> QED  BY <1>4, <3>1 DEF Injection, IsInjective
  <2> HIDE DEF rank, T
  <2>2. rank \in Surjection(S, T)
    BY <1>6, <2>1, FS_Injection
  <2> QED  BY <2>2 DEF Surjection
<1> QED  BY <1>1, <1>4, <1>5, <1>7

-----------------------------------------------------------------------------
(* Sequences.                                                                *)

Sequence(s) == \E T : s \in Seq(T)

LEMMA SequenceHas ==
  ASSUME NEW s, Sequence(s)
  PROVE  Len(s) \in Nat /\ DOMAIN s = 1..Len(s) /\ IsFiniteSet(DOMAIN s)
<1>1. PICK T : s \in Seq(T)
  BY DEF Sequence
<1>2. Len(s) \in Nat /\ DOMAIN s = 1..Len(s)
  BY <1>1, LenProperties
<1> QED  BY <1>2, FS_Interval

LEMMA AppendDoes ==
  ASSUME NEW s, NEW x, NEW t, Sequence(s), t = Append(s, x)
  PROVE  /\ Sequence(t)
         /\ Len(t) = Len(s) + 1
         /\ t[Len(s) + 1] = x
         /\ \A k \in DOMAIN s : t[k] = s[k]
<1>1. PICK T : s \in Seq(T)
  BY DEF Sequence
<1>2. s \in Seq(T \cup {x}) /\ x \in T \cup {x}
  BY <1>1
<1>3. t \in Seq(T \cup {x})
  BY <1>2, AppendProperties
<1>4. Len(t) = Len(s) + 1 /\ t[Len(s) + 1] = x /\ \A k \in 1..Len(s) : t[k] = s[k]
  BY <1>2, AppendProperties
<1> QED  BY <1>3, <1>4, SequenceHas DEF Sequence

\* f[i] puts the first i lists of seqs together.
Flattens(seqs, f) ==
  f = [i \in 1..Len(seqs) |-> IF i = 1 THEN seqs[i] ELSE f[i - 1] \o seqs[i]]

LEMMA FlatteningExists ==
  ASSUME NEW seqs, Len(seqs) \in Nat
  PROVE  \E f : Flattens(seqs, f)
<1> DEFINE n == Len(seqs)
           Step(f, i) == IF i = 1 THEN seqs[i] ELSE f[i - 1] \o seqs[i]
           Good == {k \in 1..n : \E f : f = [i \in 1..k |-> Step(f, i)]}
<1>1. n > 0 => 1 \in Good
  <2> DEFINE f == [i \in 1..1 |-> seqs[1]]
  <2>1. f = [i \in 1..1 |-> Step(f, i)]
    OBVIOUS
  <2> HIDE DEF f
  <2>2. \E g : g = [i \in 1..1 |-> Step(g, i)]
    BY <2>1
  <2>3. n > 0 => 1 \in 1..n
    OBVIOUS
  <2> HIDE DEF Step, n
  <2> QED  BY <2>2, <2>3
<1>2. ASSUME NEW k \in 1..n, k \in Good, k < n PROVE (k + 1) \in Good
  <2>1. PICK f : f = [i \in 1..k |-> Step(f, i)]
    BY <1>2
  <2> DEFINE g == [i \in 1..(k + 1) |-> IF i = k + 1 THEN f[k] \o seqs[i] ELSE f[i]]
  <2>2. ASSUME NEW i \in 1..(k + 1) PROVE g[i] = Step(g, i)
    <3>1. CASE i = k + 1
      <4>1. i # 1 /\ i - 1 = k /\ k \in 1..(k + 1) /\ k # k + 1
        BY <3>1
      <4>2. g[k] = f[k] /\ g[i] = f[k] \o seqs[i]
        BY <3>1, <4>1
      <4> HIDE DEF g
      <4> QED  BY <4>1, <4>2
    <3>2. CASE i # k + 1
      <4>1. i \in 1..k /\ g[i] = f[i]
        BY <3>2
      <4>2. f[i] = Step(f, i)
        BY <2>1, <4>1
      <4>3. i # 1 => i - 1 \in 1..(k + 1) /\ i - 1 # k + 1
        BY <4>1
      <4>4. i # 1 => g[i - 1] = f[i - 1]
        BY <4>3
      <4> HIDE DEF g
      <4> QED  BY <4>1, <4>2, <4>4
    <3> QED  BY <3>1, <3>2
  <2>3. g = [i \in 1..(k + 1) |-> Step(g, i)]
    BY <2>2
  <2> HIDE DEF g
  <2>4. k + 1 \in 1..n
    BY <1>2
  <2> QED  BY <2>3, <2>4
<1>3. n > 0 => n \in 1..n
  OBVIOUS
<1>4. n > 0 => n \in Good
  <2> HIDE DEF Good
  <2>1. \A i \in 1..n : i \in Good
    BY <1>1, <1>2, ByNumbers
  <2> QED  BY <1>3, <2>1
<1>5. CASE n > 0
  <2>1. PICK f : f = [i \in 1..n |-> Step(f, i)]
    BY <1>4, <1>5
  <2> QED  BY <2>1 DEF Flattens
<1>6. CASE n = 0
  <2> DEFINE f == [i \in 1..n |-> seqs[1]]
  <2>1. \A i \in 1..n : f[i] = Step(f, i)
    BY <1>6
  <2>2. f = [i \in 1..n |-> Step(f, i)]
    BY <2>1
  <2> HIDE DEF f
  <2> QED  BY <2>2 DEF Flattens
<1> QED  BY <1>5, <1>6
=============================================================================
