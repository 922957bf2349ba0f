----------------------------- MODULE SumLemmas -----------------------------
(***************************************************************************)
(* Sums over finite sets, as SumFunctionOnSet of module Functions computes *)
(* them: by a recursive function that takes elements out of the set in an  *)
(* unspecified order.  The library's induction theorems have an operator   *)
(* as their parameter; here induction is stated about sets of numbers, and *)
(* of sets, for which a good predicate is the set of what satisfies it.    *)
(***************************************************************************)
EXTENDS Integers, FiniteSets, Functions, FiniteSetTheorems, TLAPS

-----------------------------------------------------------------------------
(* Induction                                                               *)

\* A set that has 0 and, with every number, the next one, has them all: a smallest number that
\* is not in it would have a predecessor in it.
LEMMA SetOfNumbers ==
    ASSUME NEW Q, 0 \in Q, \A n \in Nat : n \in Q => n + 1 \in Q
    PROVE  \A n \in Nat : n \in Q
<1> DEFINE R   == OpToRel(<, Nat)
           Bad == {n \in Nat : n \notin Q}
<1>1. SUFFICES ASSUME Bad # {} PROVE FALSE
  OBVIOUS
<1>2. \A a, b \in Nat : a < b => <<a, b>> \in R
  BY DEF OpToRel
<1>3. IsWellFoundedOn(R, Nat)
  BY NatLessThanWellFounded
<1> HIDE DEF R
<1>4. PICK n \in Bad : \A m \in Bad : ~(<<m, n>> \in R)
  BY <1>1, <1>3, WFMin
<1>5. n \in Nat /\ n # 0
  OBVIOUS
<1>6. n - 1 \in Bad
  BY <1>5
<1>7. <<n - 1, n>> \in R
  BY <1>2, <1>5
<1> QED
  BY <1>4, <1>6, <1>7

-----------------------------------------------------------------------------
(* The recursion                                                           *)

\* The element the library takes out of s first.
Some(s) == CHOOSE x \in s : TRUE

\* One step of the sum.
Step(f, g, s) == IF s = {} THEN 0 ELSE f[Some(s)] + g[s \ {Some(s)}]

\* g is the table of the sums of f over all subsets of S.
Sums(f, S, g) == g = [s \in SUBSET S |-> Step(f, g, s)]

\* The sum is looked up in such a table.
LEMMA SumUnfolds ==
    ASSUME NEW f, NEW S
    PROVE  SumFunctionOnSet(f, S) = (CHOOSE g : Sums(f, S, g))[S]
BY DEF SumFunctionOnSet, FoldFunctionOnSet, MapThenFoldSet, Sums, Step, Some

\* Without the element taken out, a set is smaller.
LEMMA Smaller ==
    ASSUME NEW s, IsFiniteSet(s), s # {}
    PROVE  /\ Some(s) \in s /\ IsFiniteSet(s \ {Some(s)})
           /\ Cardinality(s) \in Nat /\ Cardinality(s \ {Some(s)}) = Cardinality(s) - 1
BY FS_RemoveElement, FS_CardinalityType DEF Some

\* The table exists: one that is right for sets of n elements is extended to sets of n + 1.
LEMMA SumsExist ==
    ASSUME NEW S, IsFiniteSet(S), NEW f, \A x \in S : f[x] \in Int
    PROVE  \E g \in [SUBSET S -> Int] : Sums(f, S, g)
<1> DEFINE Upto(n, g) == \A s \in SUBSET S : Cardinality(s) <= n => g[s] = Step(f, g, s)
           Q == {n \in Nat : \E g \in [SUBSET S -> Int] : Upto(n, g)}
<1>0. \A s \in SUBSET S : IsFiniteSet(s) /\ Cardinality(s) \in Nat /\ Cardinality(s) <= Cardinality(S)
  BY FS_Subset, FS_CardinalityType
<1>1. 0 \in Q
  <2> DEFINE g == [s \in SUBSET S |-> 0]
  <2>1. \A s \in SUBSET S : Cardinality(s) <= 0 => s = {}
    BY <1>0, FS_EmptySet
  <2>2. Upto(0, g)
    BY <2>1 DEF Step
  <2>3. g \in [SUBSET S -> Int]
    OBVIOUS
  <2> QED
    BY <2>2, <2>3
<1>2. ASSUME NEW n \in Nat, n \in Q PROVE n + 1 \in Q
  <2>1. PICK g \in [SUBSET S -> Int] : Upto(n, g)
    BY <1>2
  <2> DEFINE h == [s \in SUBSET S |-> Step(f, g, s)]
  <2>2. ASSUME NEW s \in SUBSET S, s # {}
        PROVE  /\ Some(s) \in S /\ s \ {Some(s)} \in SUBSET S
               /\ Cardinality(s \ {Some(s)}) = Cardinality(s) - 1
    BY <1>0, <2>2, Smaller
  <2>3. h \in [SUBSET S -> Int]
    <3> SUFFICES ASSUME NEW s \in SUBSET S PROVE Step(f, g, s) \in Int
      OBVIOUS
    <3> QED
      BY <2>2 DEF Step
  <2>4. ASSUME NEW s \in SUBSET S, Cardinality(s) <= n + 1 PROVE h[s] = Step(f, h, s)
    <3>1. CASE s = {}
      BY <3>1 DEF Step
    <3>2. CASE s # {}
      <4>1. Cardinality(s \ {Some(s)}) <= n
        BY <1>0, <2>2, <2>4, <3>2
      <4>2. h[s \ {Some(s)}] = g[s \ {Some(s)}]
        BY <2>1, <2>2, <3>2, <4>1
      <4> QED
        BY <3>2, <4>2 DEF Step
    <3> QED
      BY <3>1, <3>2
  <2> HIDE DEF h
  <2> QED
    BY <2>3, <2>4
<1>3. Cardinality(S) \in Nat
  BY FS_CardinalityType
<1> HIDE DEF Q
<1>4. Cardinality(S) \in Q
  BY <1>1, <1>2, <1>3, SetOfNumbers
<1> USE DEF Q
<1>5. PICK g \in [SUBSET S -> Int] : Upto(Cardinality(S), g)
  BY <1>4
<1>6. \A s \in SUBSET S : g[s] = Step(f, g, s)
  BY <1>0, <1>5
<1> QED
  BY <1>6 DEF Sums

\* Two tables agree on the sets they have in common.
LEMMA SumsAgree ==
    ASSUME NEW S, IsFiniteSet(S), NEW T \in SUBSET S, NEW f, NEW g, Sums(f, S, g), NEW h, Sums(f, T, h)
    PROVE  g[T] = h[T]
<1> DEFINE Q == {n \in Nat : \A s \in SUBSET T : Cardinality(s) <= n => g[s] = h[s]}
<1>0. \A s \in SUBSET T : /\ IsFiniteSet(s) /\ Cardinality(s) \in Nat
                          /\ g[s] = Step(f, g, s) /\ h[s] = Step(f, h, s)
  BY FS_Subset, FS_CardinalityType DEF Sums
<1>1. 0 \in Q
  <2>1. \A s \in SUBSET T : Cardinality(s) <= 0 => s = {}
    BY <1>0, FS_EmptySet
  <2> QED
    BY <1>0, <2>1 DEF Step
<1>2. ASSUME NEW n \in Nat, n \in Q PROVE n + 1 \in Q
  <2> SUFFICES ASSUME NEW s \in SUBSET T, Cardinality(s) <= n + 1 PROVE g[s] = h[s]
    OBVIOUS
  <2>1. CASE s = {}
    BY <1>0, <2>1 DEF Step
  <2>2. CASE s # {}
    <3>1. s \ {Some(s)} \in SUBSET T /\ Cardinality(s \ {Some(s)}) <= n
      BY <1>0, <2>2, Smaller
    <3>2. g[s \ {Some(s)}] = h[s \ {Some(s)}]
      BY <1>2, <3>1
    <3> QED
      BY <1>0, <2>2, <3>2 DEF Step
  <2> QED
    BY <2>1, <2>2
<1> HIDE DEF Q
<1>3. Cardinality(T) \in Q
  BY <1>0, <1>1, <1>2, SetOfNumbers
<1> QED
  BY <1>0, <1>3 DEF Q

\* The sum is an integer, and is what one step of the recursion says.
LEMMA SumStep ==
    ASSUME NEW S, IsFiniteSet(S), NEW f, \A x \in S : f[x] \in Int
    PROVE  /\ SumFunctionOnSet(f, S) \in Int
           /\ S # {} => SumFunctionOnSet(f, S) = f[Some(S)] + SumFunctionOnSet(f, S \ {Some(S)})
<1> DEFINE Table(U) == CHOOSE g : Sums(f, U, g)
<1>1. ASSUME NEW U \in SUBSET S PROVE Sums(f, U, Table(U)) /\ Table(U)[U] \in Int
  <2>1. PICK g \in [SUBSET U -> Int] : Sums(f, U, g)
    BY SumsExist, FS_Subset
  <2>2. Sums(f, U, Table(U))
    BY <2>1
  <2>3. Table(U)[U] = g[U]
    BY <2>1, <2>2, SumsAgree, FS_Subset
  <2> QED
    BY <2>1, <2>2, <2>3
<1>2. SumFunctionOnSet(f, S) = Table(S)[S]
  BY SumUnfolds
<1>3. ASSUME S # {} PROVE SumFunctionOnSet(f, S) = f[Some(S)] + SumFunctionOnSet(f, S \ {Some(S)})
  <2> DEFINE U == S \ {Some(S)}
  <2>1. SumFunctionOnSet(f, U) = Table(U)[U]
    BY SumUnfolds
  <2>2. U \in SUBSET S /\ S \in SUBSET S
    OBVIOUS
  <2>3. Sums(f, S, Table(S)) /\ Sums(f, U, Table(U))
    BY <1>1, <2>2
  <2> HIDE DEF Table
  <2>4. Table(S)[U] = Table(U)[U]
    BY <2>2, <2>3, SumsAgree
  <2>5. Table(S)[S] = Step(f, Table(S), S)
    BY <2>2, <2>3 DEF Sums
  <2> QED
    BY <1>2, <1>3, <2>1, <2>4, <2>5 DEF Step
<1> QED
  BY <1>1, <1>2, <1>3

\* Nothing adds up to nothing.
LEMMA SumEmpty == ASSUME NEW f PROVE SumFunctionOnSet(f, {}) = 0
<1>1. PICK g \in [SUBSET {} -> Int] : Sums(f, {}, g)
  BY SumsExist, FS_EmptySet
<1>2. Sums(f, {}, CHOOSE h : Sums(f, {}, h))
  BY <1>1
<1>3. SumFunctionOnSet(f, {}) = (CHOOSE h : Sums(f, {}, h))[{}]
  BY SumUnfolds
<1> HIDE <1>1
<1> QED
  BY <1>2, <1>3 DEF Sums, Step

-----------------------------------------------------------------------------
(* What the order of summation does not matter for                         *)

\* Any element can be taken out first.
LEMMA SumRemove ==
    ASSUME NEW S, IsFiniteSet(S), NEW f, \A y \in S : f[y] \in Int, NEW x \in S
    PROVE  SumFunctionOnSet(f, S) = f[x] + SumFunctionOnSet(f, S \ {x})
<1> DEFINE Sum(s) == SumFunctionOnSet(f, s)
           Q == {n \in Nat : \A s \in SUBSET S : \A z \in s :
                                Cardinality(s) <= n => Sum(s) = f[z] + Sum(s \ {z})}
<1>0. \A s \in SUBSET S : IsFiniteSet(s) /\ Cardinality(s) \in Nat /\ Sum(s) \in Int
  BY SumStep, FS_Subset, FS_CardinalityType
<1>1. \A s \in SUBSET S : s # {} => Sum(s) = f[Some(s)] + Sum(s \ {Some(s)})
  BY <1>0, SumStep
<1> HIDE DEF Sum
<1>2. 0 \in Q
  BY <1>0, FS_EmptySet
<1>3. ASSUME NEW n \in Nat, n \in Q PROVE n + 1 \in Q
  <2> SUFFICES ASSUME NEW s \in SUBSET S, NEW z \in s, Cardinality(s) <= n + 1
               PROVE  Sum(s) = f[z] + Sum(s \ {z})
    OBVIOUS
  <2> DEFINE y == Some(s)
  <2>1. /\ y \in s /\ Cardinality(s \ {y}) = Cardinality(s) - 1 /\ Cardinality(s \ {z}) = Cardinality(s) - 1
        /\ s \ {y} \in SUBSET S /\ s \ {z} \in SUBSET S /\ (s \ {y}) \ {z} = (s \ {z}) \ {y}
    BY <1>0, Smaller, FS_RemoveElement
  <2>2. Sum(s) = f[y] + Sum(s \ {y})
    BY <1>1
  <2>3. CASE y = z
    BY <2>2, <2>3
  <2>4. CASE y # z
    <3>1. Cardinality(s \ {y}) <= n /\ Cardinality(s \ {z}) <= n
      BY <1>0, <2>1
    <3>2. Sum(s \ {y}) = f[z] + Sum((s \ {y}) \ {z})
      BY <1>3, <2>1, <2>4, <3>1
    <3>3. Sum(s \ {z}) = f[y] + Sum((s \ {z}) \ {y})
      BY <1>3, <2>1, <2>4, <3>1
    <3>4. f[y] \in Int /\ f[z] \in Int
      BY <2>1
    <3>5. (s \ {y}) \ {z} \in SUBSET S
      OBVIOUS
    <3>6. Sum((s \ {y}) \ {z}) \in Int /\ Sum((s \ {y}) \ {z}) = Sum((s \ {z}) \ {y})
      BY <1>0, <2>1, <3>5
    <3> HIDE DEF y
    <3> QED
      BY <2>2, <3>2, <3>3, <3>4, <3>6
  <2> QED
    BY <2>3, <2>4
<1> HIDE DEF Q
<1>4. Cardinality(S) \in Q
  BY <1>0, <1>2, <1>3, SetOfNumbers
<1> USE DEF Q
<1>5. Sum(S) = f[x] + Sum(S \ {x})
  BY <1>0, <1>4
<1> QED
  BY <1>5 DEF Sum

\* Disjoint sets add up.
LEMMA SumUnion ==
    ASSUME NEW A, IsFiniteSet(A), NEW B, IsFiniteSet(B), A \cap B = {},
           NEW f, \A x \in A \cup B : f[x] \in Int
    PROVE  SumFunctionOnSet(f, A \cup B) = SumFunctionOnSet(f, A) + SumFunctionOnSet(f, B)
<1> DEFINE Sum(s) == SumFunctionOnSet(f, s)
           Q == {n \in Nat : \A s \in SUBSET A : Cardinality(s) <= n => Sum(s \cup B) = Sum(s) + Sum(B)}
<1>0. \A s \in SUBSET A : /\ IsFiniteSet(s) /\ Cardinality(s) \in Nat /\ Sum(s) \in Int
                          /\ IsFiniteSet(s \cup B) /\ Sum(s \cup B) \in Int
  <2> SUFFICES ASSUME NEW s \in SUBSET A
               PROVE  /\ IsFiniteSet(s) /\ Cardinality(s) \in Nat /\ Sum(s) \in Int
                      /\ IsFiniteSet(s \cup B) /\ Sum(s \cup B) \in Int
    OBVIOUS
  <2>1. IsFiniteSet(s) /\ Cardinality(s) \in Nat /\ IsFiniteSet(s \cup B)
    BY FS_Subset, FS_CardinalityType, FS_Union
  <2>2. \A x \in s \cup B : f[x] \in Int
    OBVIOUS
  <2> QED
    BY <2>1, <2>2, SumStep
<1>1. Sum({}) = 0 /\ Sum(B) \in Int
  BY SumEmpty, SumStep
<1>2. ASSUME NEW s \in SUBSET A, NEW z \in s
      PROVE  /\ Sum(s) = f[z] + Sum(s \ {z})
             /\ Sum(s \cup B) = f[z] + Sum((s \ {z}) \cup B)
  <2>1. (s \cup B) \ {z} = (s \ {z}) \cup B /\ z \in s \cup B
    OBVIOUS
  <2>2. IsFiniteSet(s) /\ IsFiniteSet(s \cup B) /\ \A x \in s \cup B : f[x] \in Int
    BY <1>0
  <2>3. Sum(s) = f[z] + Sum(s \ {z})
    BY <2>2, SumRemove
  <2>4. Sum(s \cup B) = f[z] + Sum((s \cup B) \ {z})
    BY <2>1, <2>2, SumRemove
  <2> QED
    BY <2>1, <2>3, <2>4
<1> HIDE DEF Sum
<1>3. 0 \in Q
  <2> SUFFICES ASSUME NEW s \in SUBSET A, Cardinality(s) <= 0 PROVE Sum(s \cup B) = Sum(s) + Sum(B)
    OBVIOUS
  <2>1. \A t \in SUBSET A : IsFiniteSet(t) /\ Cardinality(t) \in Nat
    BY <1>0
  <2>2. \A t \in SUBSET A : Cardinality(t) <= 0 => t = {}
    BY <2>1, FS_EmptySet
  <2>3. s = {} /\ s \cup B = B
    BY <2>2
  <2> QED
    BY <1>1, <2>3
<1>4. ASSUME NEW n \in Nat, n \in Q PROVE n + 1 \in Q
  <2> SUFFICES ASSUME NEW s \in SUBSET A, Cardinality(s) <= n + 1 PROVE Sum(s \cup B) = Sum(s) + Sum(B)
    OBVIOUS
  <2>1. CASE s = {}
    <3>1. Cardinality(s) <= 0
      BY <2>1, FS_EmptySet
    <3> QED
      BY <1>3, <3>1
  <2>2. CASE s # {}
    <3>1. PICK z : z \in s
      BY <2>2
    <3>2. IsFiniteSet(s) /\ Cardinality(s) \in Nat
      BY <1>0
    <3>3. Cardinality(s \ {z}) = Cardinality(s) - 1
      BY <3>1, <3>2, FS_RemoveElement
    <3>4. s \ {z} \in SUBSET A /\ Cardinality(s \ {z}) <= n
      BY <3>2, <3>3
    <3>5. Sum((s \ {z}) \cup B) = Sum(s \ {z}) + Sum(B)
      BY <1>4, <3>4
    <3>6. f[z] \in Int /\ Sum(s \ {z}) \in Int
      BY <1>0, <3>1, <3>4
    <3>7. Sum(s) = f[z] + Sum(s \ {z}) /\ Sum(s \cup B) = f[z] + Sum((s \ {z}) \cup B)
      BY <1>2, <3>1
    <3> QED
      BY <1>1, <3>5, <3>6, <3>7
  <2> QED
    BY <2>1, <2>2
<1> HIDE DEF Q
<1>5. Cardinality(A) \in Q
  BY <1>0, <1>3, <1>4, SetOfNumbers
<1> USE DEF Q
<1>6. Sum(A \cup B) = Sum(A) + Sum(B)
  BY <1>0, <1>5
<1> QED
  BY <1>6 DEF Sum

\* What is never more, image by image, adds up to no more.
LEMMA SumPointwise ==
    ASSUME NEW S, IsFiniteSet(S), NEW f, NEW g,
           \A x \in S : f[x] \in Int /\ g[x] \in Int /\ f[x] <= g[x]
    PROVE  SumFunctionOnSet(f, S) <= SumFunctionOnSet(g, S)
<1> DEFINE F(s) == SumFunctionOnSet(f, s)
           G(s) == SumFunctionOnSet(g, s)
           Q == {n \in Nat : \A s \in SUBSET S : Cardinality(s) <= n => F(s) <= G(s)}
<1>0. \A s \in SUBSET S : IsFiniteSet(s) /\ Cardinality(s) \in Nat /\ F(s) \in Int /\ G(s) \in Int
  BY SumStep, FS_Subset, FS_CardinalityType
<1>1. F({}) = 0 /\ G({}) = 0
  BY SumEmpty
<1>2. ASSUME NEW s \in SUBSET S, NEW z \in s
      PROVE  F(s) = f[z] + F(s \ {z}) /\ G(s) = g[z] + G(s \ {z})
  <2>1. IsFiniteSet(s) /\ (\A x \in s : f[x] \in Int) /\ (\A x \in s : g[x] \in Int)
    BY <1>0
  <2> QED
    BY <2>1, SumRemove
<1> HIDE DEF F, G
<1>3. 0 \in Q
  <2>1. \A s \in SUBSET S : Cardinality(s) <= 0 => s = {}
    BY <1>0, FS_EmptySet
  <2> QED
    BY <1>1, <2>1
<1>4. ASSUME NEW n \in Nat, n \in Q PROVE n + 1 \in Q
  <2> SUFFICES ASSUME NEW s \in SUBSET S, Cardinality(s) <= n + 1 PROVE F(s) <= G(s)
    OBVIOUS
  <2>1. CASE s = {}
    BY <1>1, <2>1
  <2>2. CASE s # {}
    <3>1. PICK z : z \in s
      BY <2>2
    <3>2. s \ {z} \in SUBSET S /\ Cardinality(s \ {z}) <= n
      BY <1>0, <3>1, FS_RemoveElement
    <3>3. F(s \ {z}) <= G(s \ {z}) /\ F(s \ {z}) \in Int /\ G(s \ {z}) \in Int
      BY <1>0, <1>4, <3>2
    <3>4. f[z] \in Int /\ g[z] \in Int /\ f[z] <= g[z]
      BY <3>1
    <3>5. F(s) = f[z] + F(s \ {z}) /\ G(s) = g[z] + G(s \ {z})
      BY <1>2, <3>1
    <3> QED
      BY <3>3, <3>4, <3>5
  <2> QED
    BY <2>1, <2>2
<1> HIDE DEF Q
<1>5. Cardinality(S) \in Q
  BY <1>0, <1>3, <1>4, SetOfNumbers
<1> USE DEF Q
<1>6. F(S) <= G(S)
  BY <1>0, <1>5
<1> QED
  BY <1>6 DEF F, G

\* Only the values on the set count.
LEMMA SumSame ==
    ASSUME NEW S, IsFiniteSet(S), NEW f, NEW g, \A x \in S : f[x] \in Int /\ f[x] = g[x]
    PROVE  SumFunctionOnSet(f, S) = SumFunctionOnSet(g, S)
<1>1. SumFunctionOnSet(f, S) \in Int /\ SumFunctionOnSet(g, S) \in Int
  BY SumStep
<1>2. SumFunctionOnSet(f, S) <= SumFunctionOnSet(g, S)
  BY SumPointwise
<1>3. SumFunctionOnSet(g, S) <= SumFunctionOnSet(f, S)
  BY SumPointwise
<1> QED
  BY <1>1, <1>2, <1>3

\* A sum of natural numbers is one.
LEMMA SumNat ==
    ASSUME NEW S, IsFiniteSet(S), NEW f, \A x \in S : f[x] \in Nat
    PROVE  SumFunctionOnSet(f, S) \in Nat
<1> DEFINE Sum(s) == SumFunctionOnSet(f, s)
           Q == {n \in Nat : \A s \in SUBSET S : Cardinality(s) <= n => Sum(s) >= 0}
<1>0. \A s \in SUBSET S : IsFiniteSet(s) /\ Cardinality(s) \in Nat /\ Sum(s) \in Int
  <2>1. \A x \in S : f[x] \in Int
    OBVIOUS
  <2> QED
    BY <2>1, SumStep, FS_Subset, FS_CardinalityType
<1>1. Sum({}) = 0
  BY SumEmpty
<1>2. ASSUME NEW s \in SUBSET S, NEW z \in s PROVE Sum(s) = f[z] + Sum(s \ {z})
  <2>1. IsFiniteSet(s) /\ \A x \in s : f[x] \in Int
    BY <1>0
  <2> QED
    BY <2>1, SumRemove
<1> HIDE DEF Sum
<1>3. 0 \in Q
  <2>1. \A s \in SUBSET S : Cardinality(s) <= 0 => s = {}
    BY <1>0, FS_EmptySet
  <2> QED
    BY <1>1, <2>1
<1>4. ASSUME NEW n \in Nat, n \in Q PROVE n + 1 \in Q
  <2> SUFFICES ASSUME NEW s \in SUBSET S, Cardinality(s) <= n + 1 PROVE Sum(s) >= 0
    OBVIOUS
  <2>1. CASE s = {}
    BY <1>1, <2>1
  <2>2. CASE s # {}
    <3>1. PICK z : z \in s
      BY <2>2
    <3>2. s \ {z} \in SUBSET S /\ Cardinality(s \ {z}) <= n
      BY <1>0, <3>1, FS_RemoveElement
    <3>3. Sum(s \ {z}) >= 0 /\ Sum(s \ {z}) \in Int /\ f[z] \in Nat
      BY <1>0, <1>4, <3>1, <3>2
    <3>4. Sum(s) = f[z] + Sum(s \ {z})
      BY <1>2, <3>1
    <3> QED
      BY <3>3, <3>4
  <2> QED
    BY <2>1, <2>2
<1> HIDE DEF Q
<1>5. Cardinality(S) \in Q
  BY <1>0, <1>3, <1>4, SetOfNumbers
<1> USE DEF Q
<1>6. Sum(S) \in Nat
  BY <1>0, <1>5
<1> QED
  BY <1>6 DEF Sum

\* More natural numbers add up to no less.
LEMMA SumSubset ==
    ASSUME NEW S, IsFiniteSet(S), NEW T \in SUBSET S, NEW f, \A x \in S : f[x] \in Nat
    PROVE  SumFunctionOnSet(f, T) <= SumFunctionOnSet(f, S)
<1>1. IsFiniteSet(T) /\ IsFiniteSet(S \ T) /\ T \cap (S \ T) = {} /\ T \cup (S \ T) = S
  BY FS_Subset
<1>2. SumFunctionOnSet(f, T) \in Nat /\ SumFunctionOnSet(f, S \ T) \in Nat
  BY <1>1, SumNat
<1>3. \A x \in T \cup (S \ T) : f[x] \in Int
  OBVIOUS
<1>4. SumFunctionOnSet(f, T \cup (S \ T)) = SumFunctionOnSet(f, T) + SumFunctionOnSet(f, S \ T)
  BY <1>1, <1>3, SumUnion
<1>5. SumFunctionOnSet(f, S) = SumFunctionOnSet(f, T) + SumFunctionOnSet(f, S \ T)
  BY <1>1, <1>4
<1> QED
  BY <1>2, <1>5

\* Changing one value changes the sum by the difference.
LEMMA SumChange ==
    ASSUME NEW S, IsFiniteSet(S), NEW x \in S, NEW f, NEW g,
           \A y \in S : f[y] \in Int /\ g[y] \in Int, \A y \in S \ {x} : f[y] = g[y]
    PROVE  SumFunctionOnSet(g, S) = SumFunctionOnSet(f, S) + (g[x] - f[x])
<1>1. SumFunctionOnSet(f, S) = f[x] + SumFunctionOnSet(f, S \ {x})
  BY SumRemove
<1>2. SumFunctionOnSet(g, S) = g[x] + SumFunctionOnSet(g, S \ {x})
  BY SumRemove
<1>3. IsFiniteSet(S \ {x})
  BY FS_RemoveElement
<1>4. SumFunctionOnSet(f, S \ {x}) = SumFunctionOnSet(g, S \ {x})
  BY <1>3, SumSame
<1>5. SumFunctionOnSet(f, S \ {x}) \in Int
  BY <1>3, SumStep
<1> QED
  BY <1>1, <1>2, <1>4, <1>5
=============================================================================
