----------------------------- MODULE SumProofs -----------------------------
(* Sums over finite sets (SumFunctionOnSet of the community modules): what  *)
(* the other proofs need of them.                                           *)
(*                                                                          *)
(* SumFunctionOnSet takes the elements in an order that CHOOSE picks, by a  *)
(* function that is defined in terms of itself.  Three things are shown by  *)
(* induction: such a function exists (SumExists), it is the only one        *)
(* (SumUnique), and the order makes no difference (SumAdds).  Induction is  *)
(* used in the form that every set of naturals has a least element.         *)
EXTENDS Integers, FiniteSets, Functions, FiniteSetTheorems, TLAPS

\* Every set of naturals that is not empty has a least element.
LEMMA LeastNat ==
  ASSUME NEW T \in SUBSET Nat, T # {}
  PROVE  \E n \in T : \A m \in T : n <= m
<1>1. IsWellFoundedOn(OpToRel(<, Nat), Nat)
  BY NatLessThanWellFounded
<1>2. PICK n \in T : \A m \in T : ~ (<<m, n>> \in OpToRel(<, Nat))
  BY <1>1, WFMin, Zenon
<1>3. \A m \in T : ~ (m < n)
  BY <1>2 DEF OpToRel
<1> QED
  BY <1>3

\* Induction, for a property given by the set of naturals that have it.
LEMMA NatInduct ==
  ASSUME NEW T \in SUBSET Nat, 0 \in T, \A n \in T : n + 1 \in T
  PROVE  \A n \in Nat : n \in T
<1> SUFFICES ASSUME Nat \ T # {} PROVE FALSE
  OBVIOUS
<1>1. PICK n \in Nat \ T : \A m \in Nat \ T : n <= m
  <2>1. Nat \ T \in SUBSET Nat
    OBVIOUS
  <2> QED
    BY <2>1, LeastNat
<1>2. n # 0 /\ n - 1 \in T
  BY <1>1
<1> QED
  BY <1>1, <1>2

----------------------------------------------------------------------------
(* The function that SumFunctionOnSet uses                                  *)

\* The element of s that is taken first.
First(s) == CHOOSE x \in s : TRUE

\* g[s] is the sum of f over s, for every subset s of A.
IsSum(f, A, g) ==
  g = [s \in SUBSET A |-> IF s = {} THEN 0 ELSE f[First(s)] + g[s \ {First(s)}]]

\* Taking the first element of a finite set leaves a smaller one.
LEMMA TakeFirstElement ==
  ASSUME NEW A, IsFiniteSet(A), NEW s \in SUBSET A, s # {}
  PROVE  /\ First(s) \in s /\ First(s) \in A /\ s \ {First(s)} \in SUBSET A
         /\ Cardinality(s) \in Nat \ {0} /\ Cardinality(s \ {First(s)}) = Cardinality(s) - 1
<1>1. First(s) \in s
  BY DEF First
<1>2. IsFiniteSet(s) /\ Cardinality(s) \in Nat
  BY FS_Subset, FS_CardinalityType
<1>3. Cardinality(s) # 0
  BY <1>2, FS_EmptySet
<1> QED
  BY <1>1, <1>2, <1>3, FS_RemoveElement

\* There is such a function.
LEMMA SumExists ==
  ASSUME NEW A, IsFiniteSet(A), NEW f, \A x \in A : f[x] \in Int
  PROVE  \E g \in [SUBSET A -> Int] : IsSum(f, A, g)
<1> DEFINE Upto(n, g) ==
             \A s \in SUBSET A : Cardinality(s) <= n =>
               g[s] = IF s = {} THEN 0 ELSE f[First(s)] + g[s \ {First(s)}]
           T == {n \in Nat : \E g \in [SUBSET A -> Int] : Upto(n, g)}
<1>0. \A s \in SUBSET A : Cardinality(s) \in Nat /\ (Cardinality(s) = 0 => s = {})
  BY FS_Subset, FS_CardinalityType, FS_EmptySet
<1>1. 0 \in T
  <2> DEFINE g0 == [s \in SUBSET A |-> 0]
  <2>1. g0 \in [SUBSET A -> Int] /\ Upto(0, g0)
    BY <1>0
  <2> QED
    BY <2>1
<1>2. ASSUME NEW n \in T PROVE n + 1 \in T
  <2>1. PICK g \in [SUBSET A -> Int] : Upto(n, g)
    OBVIOUS
  <2> DEFINE h == [s \in SUBSET A |-> IF s = {} THEN 0 ELSE f[First(s)] + g[s \ {First(s)}]]
  <2>2. h \in [SUBSET A -> Int]
    <3> SUFFICES ASSUME NEW s \in SUBSET A, s # {}
                 PROVE  f[First(s)] + g[s \ {First(s)}] \in Int
      OBVIOUS
    <3> HIDE DEF T, Upto
    <3>1. First(s) \in A /\ s \ {First(s)} \in SUBSET A
      BY TakeFirstElement
    <3>2. f[First(s)] \in Int /\ g[s \ {First(s)}] \in Int
      BY <3>1
    <3> QED
      BY <3>2
  <2>3. ASSUME NEW s \in SUBSET A, Cardinality(s) <= n PROVE h[s] = g[s]
    BY <2>1, <2>3
  <2>4. Upto(n + 1, h)
    <3> SUFFICES ASSUME NEW s \in SUBSET A, Cardinality(s) <= n + 1, s # {}
                 PROVE  h[s] = f[First(s)] + h[s \ {First(s)}]
      OBVIOUS
    <3>1. s \ {First(s)} \in SUBSET A /\ Cardinality(s \ {First(s)}) <= n
      BY TakeFirstElement
    <3>2. h[s \ {First(s)}] = g[s \ {First(s)}]
      BY <3>1, <2>3
    <3>3. h[s] = f[First(s)] + g[s \ {First(s)}]
      OBVIOUS
    <3> QED
      BY <3>2, <3>3
  <2> HIDE DEF h, Upto
  <2>5. n + 1 \in Nat
    OBVIOUS
  <2> QED
    BY <2>2, <2>4, <2>5, Zenon
<1>3. Cardinality(A) \in T
  <2>1. T \in SUBSET Nat
    OBVIOUS
  <2> HIDE DEF T
  <2>2. \A n \in Nat : n \in T
    BY <1>1, <1>2, <2>1, NatInduct
  <2> QED
    BY <2>2, FS_CardinalityType
<1>4. PICK g \in [SUBSET A -> Int] : Upto(Cardinality(A), g)
  BY <1>3
<1>5. \A s \in SUBSET A : Cardinality(s) <= Cardinality(A)
  BY FS_Subset
<1>6. IsSum(f, A, g)
  BY <1>4, <1>5 DEF IsSum
<1> QED
  BY <1>6

\* And only one: functions for two sets agree on what the sets share.
LEMMA SumUnique ==
  ASSUME NEW A, IsFiniteSet(A), NEW f, \A x \in A : f[x] \in Int,
         NEW B \in SUBSET A, NEW g, NEW h, IsSum(f, A, g), IsSum(f, B, h)
  PROVE  \A s \in SUBSET B : g[s] = h[s] /\ g[s] \in Int
<1> DEFINE T == {n \in Nat : \A s \in SUBSET B :
                               Cardinality(s) = n => g[s] = h[s] /\ g[s] \in Int}
<1>0. IsFiniteSet(B) /\ \A s \in SUBSET B : s \in SUBSET A /\ Cardinality(s) \in Nat
  BY FS_Subset, FS_CardinalityType
<1>1. 0 \in T
  <2> SUFFICES ASSUME NEW s \in SUBSET B, Cardinality(s) = 0
               PROVE  g[s] = h[s] /\ g[s] \in Int
    OBVIOUS
  <2>1. s = {}
    BY <1>0, FS_Subset, FS_EmptySet
  <2> QED
    BY <2>1, <1>0 DEF IsSum
<1>2. ASSUME NEW n \in T PROVE n + 1 \in T
  <2> SUFFICES ASSUME NEW s \in SUBSET B, Cardinality(s) = n + 1
               PROVE  g[s] = h[s] /\ g[s] \in Int
    OBVIOUS
  <2> DEFINE r == s \ {First(s)}
  <2>0. n \in Nat
    OBVIOUS
  <2>1. s # {}
    <3>1. Cardinality({}) = 0
      BY FS_EmptySet
    <3> HIDE DEF T
    <3> QED
      BY <2>0, <3>1
  <2>2. r \in SUBSET B /\ Cardinality(r) = n /\ First(s) \in B
    <3> HIDE DEF T
    <3>1. /\ r \in SUBSET B /\ First(s) \in B
          /\ Cardinality(s) \in Nat /\ Cardinality(r) = Cardinality(s) - 1
      BY <2>1, <1>0, TakeFirstElement
    <3> QED
      BY <2>0, <3>1
  <2>3. g[r] = h[r] /\ g[r] \in Int
    BY <2>2
  <2>4. g[s] = f[First(s)] + g[r] /\ h[s] = f[First(s)] + h[r]
    BY <2>1, <1>0 DEF IsSum
  <2>5. f[First(s)] \in Int
    BY <2>2
  <2> HIDE DEF r
  <2> QED
    BY <2>3, <2>4, <2>5
<1>3. \A n \in Nat : n \in T
  <2>1. T \in SUBSET Nat
    OBVIOUS
  <2> HIDE DEF T
  <2> QED
    BY <1>1, <1>2, <2>1, NatInduct
<1> QED
  BY <1>0, <1>3

\* SumFunctionOnSet is what any such function says, for a subset too.
LEMMA SumValue ==
  ASSUME NEW A, IsFiniteSet(A), NEW f, \A x \in A : f[x] \in Int,
         NEW g, IsSum(f, A, g), NEW B \in SUBSET A
  PROVE  SumFunctionOnSet(f, B) = g[B] /\ g[B] \in Int
<1> DEFINE h == CHOOSE iter : IsSum(f, B, iter)
<1>1. SumFunctionOnSet(f, B) = h[B]
  BY DEF SumFunctionOnSet, FoldFunctionOnSet, MapThenFoldSet, IsSum, First
<1>2. IsFiniteSet(B) /\ \A x \in B : f[x] \in Int
  BY FS_Subset
<1>3. \E iter : IsSum(f, B, iter)
  BY <1>2, SumExists
<1>4. IsSum(f, B, h)
  BY <1>3
<1> HIDE DEF h
<1>5. g[B] = h[B] /\ g[B] \in Int
  BY <1>4, SumUnique
<1> QED
  BY <1>1, <1>5

----------------------------------------------------------------------------
(* Sums                                                                     *)

\* Nothing adds up to nothing.
LEMMA SumEmpty == ASSUME NEW f PROVE SumFunctionOnSet(f, {}) = 0
<1>1. IsFiniteSet({}) /\ \A x \in {} : f[x] \in Int
  BY FS_EmptySet
<1>2. PICK g : IsSum(f, {}, g)
  BY <1>1, SumExists
<1>3. g[{}] = 0
  BY <1>2 DEF IsSum
<1> QED
  BY <1>1, <1>2, <1>3, SumValue

\* An element more adds its value, whichever order CHOOSE takes them in.
LEMMA SumAdds ==
  ASSUME NEW A, IsFiniteSet(A), NEW a \in A, NEW f, \A x \in A : f[x] \in Int
  PROVE  SumFunctionOnSet(f, A) = SumFunctionOnSet(f, A \ {a}) + f[a]
<1>1. PICK g : IsSum(f, A, g)
  BY SumExists
<1> DEFINE T == {n \in Nat : \A s \in SUBSET A : Cardinality(s) = n =>
                               \A x \in s : g[s] = g[s \ {x}] + f[x]}
<1>0. \A s \in SUBSET A : /\ Cardinality(s) \in Nat /\ IsFiniteSet(s)
                          /\ g[s] \in Int /\ (Cardinality(s) = 0 => s = {})
  BY <1>1, FS_Subset, FS_CardinalityType, FS_EmptySet, SumValue
<1>2. 0 \in T
  BY <1>0
<1>3. ASSUME NEW n \in T PROVE n + 1 \in T
  <2> SUFFICES ASSUME NEW s \in SUBSET A, Cardinality(s) = n + 1, NEW x \in s
               PROVE  g[s] = g[s \ {x}] + f[x]
    OBVIOUS
  <2> DEFINE y == First(s)
             r == s \ {y}
  <2>0. n \in Nat
    OBVIOUS
  <2>1. /\ y \in s /\ r \in SUBSET A /\ Cardinality(r) = n /\ f[y] \in Int /\ f[x] \in Int
        /\ g[s] = f[y] + g[r] /\ g[r] \in Int
    <3> HIDE DEF T
    <3>1. /\ y \in s /\ y \in A /\ r \in SUBSET A
          /\ Cardinality(s) \in Nat /\ Cardinality(r) = Cardinality(s) - 1
      BY TakeFirstElement
    <3>2. g[s] = f[y] + g[r]
      BY <1>1 DEF IsSum
    <3> QED
      BY <1>0, <2>0, <3>1, <3>2
  <2>2. CASE x = y
    BY <2>1, <2>2
  <2>3. CASE x # y
    <3>1. g[r] = g[r \ {x}] + f[x]
      BY <2>1, <2>3
    <3>2. s \ {x} \in SUBSET A /\ y \in s \ {x} /\ Cardinality(s \ {x}) = n
      <4> HIDE DEF T, y, r
      <4>1. IsFiniteSet(s)
        BY <1>0
      <4>2. Cardinality(s \ {x}) = Cardinality(s) - 1
        BY <4>1, FS_RemoveElement
      <4> QED
        BY <2>0, <2>1, <2>3, <4>2
    <3>3. g[s \ {x}] = g[(s \ {x}) \ {y}] + f[y]
      BY <3>2
    <3>4. (s \ {x}) \ {y} = r \ {x} /\ r \ {x} \in SUBSET A
      BY <2>1
    <3>5. g[r \ {x}] \in Int
      BY <1>0, <3>4
    <3>6. g[s \ {x}] = g[r \ {x}] + f[y]
      BY <3>3, <3>4, Zenon
    <3> HIDE DEF y, r, T
    <3> QED
      BY <2>1, <3>1, <3>5, <3>6
  <2> QED
    BY <2>2, <2>3
<1>4. \A n \in Nat : n \in T
  <2>1. T \in SUBSET Nat
    OBVIOUS
  <2> HIDE DEF T
  <2> QED
    BY <1>2, <1>3, <2>1, NatInduct
<1>5. g[A] = g[A \ {a}] + f[a]
  BY <1>0, <1>4
<1> QED
  BY <1>1, <1>5, SumValue

\* A sum of integers is an integer.
LEMMA SumInt ==
  ASSUME NEW A, IsFiniteSet(A), NEW f, \A x \in A : f[x] \in Int
  PROVE  SumFunctionOnSet(f, A) \in Int
<1>1. PICK g : IsSum(f, A, g)
  BY SumExists
<1> QED
  BY <1>1, SumValue

\* Only the values on the set matter.
LEMMA SumSame ==
  ASSUME NEW A, IsFiniteSet(A), NEW f, NEW h,
         \A x \in A : f[x] \in Int /\ h[x] = f[x]
  PROVE  SumFunctionOnSet(h, A) = SumFunctionOnSet(f, A)
<1>1. PICK g : IsSum(f, A, g)
  BY SumExists
<1>2. \A s \in SUBSET A : s # {} => h[First(s)] = f[First(s)]
  BY TakeFirstElement
<1>3. IsSum(h, A, g)
  BY <1>1, <1>2 DEF IsSum
<1> QED
  BY <1>1, <1>3, SumValue

\* Induction over the subsets of a finite set, for a property given by the set
\* of subsets that have it.
LEMMA SubsetInduct ==
  ASSUME NEW A, IsFiniteSet(A), NEW P \in SUBSET (SUBSET A), {} \in P,
         \A s \in P, x \in A : x \notin s => s \cup {x} \in P
  PROVE  A \in P
<1> DEFINE T == {n \in Nat : \A s \in SUBSET A : Cardinality(s) = n => s \in P}
<1>0. \A s \in SUBSET A : Cardinality(s) \in Nat /\ (Cardinality(s) = 0 => s = {})
  BY FS_Subset, FS_CardinalityType, FS_EmptySet
<1>1. 0 \in T
  BY <1>0
<1>2. ASSUME NEW n \in T PROVE n + 1 \in T
  <2> SUFFICES ASSUME NEW s \in SUBSET A, Cardinality(s) = n + 1 PROVE s \in P
    OBVIOUS
  <2>0. n \in Nat /\ \A r \in SUBSET A : Cardinality(r) = n => r \in P
    OBVIOUS
  <2> HIDE DEF T
  <2>1. Cardinality({}) = 0
    BY FS_EmptySet
  <2>2. s # {}
    BY <2>0, <2>1
  <2>3. /\ First(s) \in s /\ First(s) \in A /\ s \ {First(s)} \in SUBSET A
        /\ Cardinality(s \ {First(s)}) = Cardinality(s) - 1
    BY <2>2, TakeFirstElement
  <2>4. s \ {First(s)} \in P
    BY <2>0, <2>3
  <2>5. s = (s \ {First(s)}) \cup {First(s)}
    BY <2>3
  <2> QED
    BY <2>3, <2>4, <2>5
<1>3. Cardinality(A) \in T
  <2>1. T \in SUBSET Nat
    OBVIOUS
  <2> HIDE DEF T
  <2>2. \A n \in Nat : n \in T
    BY <1>1, <1>2, <2>1, NatInduct
  <2> QED
    BY <2>2, FS_CardinalityType
<1> QED
  BY <1>3

\* A sum of naturals is a natural.
LEMMA SumNat ==
  ASSUME NEW A, IsFiniteSet(A), NEW f, \A x \in A : f[x] \in Nat
  PROVE  SumFunctionOnSet(f, A) \in Nat
<1> DEFINE P == {s \in SUBSET A : SumFunctionOnSet(f, s) \in Nat}
<1>1. {} \in P
  BY SumEmpty
<1>2. ASSUME NEW s \in P, NEW x \in A, x \notin s PROVE s \cup {x} \in P
  <2>1. IsFiniteSet(s \cup {x}) /\ (s \cup {x}) \ {x} = s
    BY <1>2, FS_Subset
  <2>2. \A y \in s \cup {x} : f[y] \in Int
    OBVIOUS
  <2>3. SumFunctionOnSet(f, s \cup {x}) = SumFunctionOnSet(f, s) + f[x]
    BY <2>1, <2>2, SumAdds
  <2>4. SumFunctionOnSet(f, s) \in Nat /\ f[x] \in Nat
    OBVIOUS
  <2> QED
    BY <2>3, <2>4
<1>3. P \in SUBSET (SUBSET A)
  OBVIOUS
<1> HIDE DEF P
<1>4. A \in P
  BY <1>1, <1>2, <1>3, SubsetInduct
<1> QED
  BY <1>4 DEF P

\* The sum over a set is the sum over a part of it and over the rest.
LEMMA SumSplit ==
  ASSUME NEW A, IsFiniteSet(A), NEW f, \A x \in A : f[x] \in Int, NEW B \in SUBSET A
  PROVE  SumFunctionOnSet(f, A) = SumFunctionOnSet(f, B) + SumFunctionOnSet(f, A \ B)
<1> DEFINE R == A \ B
           P == {s \in SUBSET R : SumFunctionOnSet(f, B \cup s)
                                    = SumFunctionOnSet(f, B) + SumFunctionOnSet(f, s)}
<1>0. IsFiniteSet(B) /\ IsFiniteSet(R)
  BY FS_Subset
<1>1. {} \in P
  <2>1. B \cup {} = B /\ SumFunctionOnSet(f, {}) = 0
    BY SumEmpty
  <2>2. SumFunctionOnSet(f, B) \in Int
    BY <1>0, SumInt
  <2> QED
    BY <2>1, <2>2
<1>2. ASSUME NEW s \in P, NEW x \in R, x \notin s PROVE s \cup {x} \in P
  <2>1. /\ IsFiniteSet(s) /\ IsFiniteSet(s \cup {x}) /\ IsFiniteSet(B \cup (s \cup {x}))
    BY FS_Subset
  <2>2. (s \cup {x}) \ {x} = s /\ (B \cup (s \cup {x})) \ {x} = B \cup s
    BY <1>2
  <2>3. SumFunctionOnSet(f, s \cup {x}) = SumFunctionOnSet(f, s) + f[x]
    BY <2>1, <2>2, SumAdds
  <2>4. SumFunctionOnSet(f, B \cup (s \cup {x})) = SumFunctionOnSet(f, B \cup s) + f[x]
    BY <2>1, <2>2, SumAdds
  <2>5. SumFunctionOnSet(f, s) \in Int /\ SumFunctionOnSet(f, B) \in Int /\ f[x] \in Int
    BY <2>1, <1>0, SumInt
  <2>6. SumFunctionOnSet(f, B \cup s) = SumFunctionOnSet(f, B) + SumFunctionOnSet(f, s)
    OBVIOUS
  <2>7. SumFunctionOnSet(f, B \cup (s \cup {x}))
          = SumFunctionOnSet(f, B) + SumFunctionOnSet(f, s \cup {x})
    BY <2>3, <2>4, <2>5, <2>6
  <2> QED
    BY <2>7
<1>3. P \in SUBSET (SUBSET R)
  OBVIOUS
<1>4. R \in P
  <2> HIDE DEF P, R
  <2> QED
    BY <1>0, <1>1, <1>2, <1>3, SubsetInduct
<1>5. B \cup R = A
  OBVIOUS
<1> QED
  BY <1>4, <1>5

\* A change of one value changes the sum by as much.
LEMMA SumChange ==
  ASSUME NEW A, IsFiniteSet(A), NEW a \in A, NEW f, NEW h, h[a] \in Int,
         \A x \in A : f[x] \in Int, \A x \in A \ {a} : h[x] = f[x]
  PROVE  SumFunctionOnSet(h, A) = SumFunctionOnSet(f, A) + (h[a] - f[a])
<1>1. IsFiniteSet(A \ {a}) /\ \A x \in A : h[x] \in Int
  BY FS_RemoveElement
<1>2. SumFunctionOnSet(h, A \ {a}) = SumFunctionOnSet(f, A \ {a})
  BY <1>1, SumSame
<1>3. SumFunctionOnSet(f, A \ {a}) \in Int
  BY <1>1, SumInt
<1>4. /\ SumFunctionOnSet(f, A) = SumFunctionOnSet(f, A \ {a}) + f[a]
      /\ SumFunctionOnSet(h, A) = SumFunctionOnSet(h, A \ {a}) + h[a]
  BY <1>1, SumAdds
<1> QED
  BY <1>1, <1>2, <1>3, <1>4

\* One more element is one more c.
LEMMA OneMore ==
  ASSUME NEW c \in Int, NEW n \in Nat
  PROVE  c * (n + 1) = c * n + c /\ c * n \in Int
OBVIOUS

\* Adding c to every value adds c for each element.
LEMMA SumShift ==
  ASSUME NEW A, IsFiniteSet(A), NEW f, NEW h, NEW c \in Int,
         \A x \in A : f[x] \in Int /\ h[x] = f[x] + c
  PROVE  SumFunctionOnSet(h, A) = SumFunctionOnSet(f, A) + c * Cardinality(A)
<1> DEFINE P == {s \in SUBSET A : SumFunctionOnSet(h, s)
                                    = SumFunctionOnSet(f, s) + c * Cardinality(s)}
<1>1. {} \in P
  <2>1. SumFunctionOnSet(h, {}) = 0 /\ SumFunctionOnSet(f, {}) = 0 /\ Cardinality({}) = 0
    BY SumEmpty, FS_EmptySet
  <2>2. c * 0 = 0
    OBVIOUS
  <2> QED
    BY <2>1, <2>2
<1>2. ASSUME NEW s \in P, NEW x \in A, x \notin s PROVE s \cup {x} \in P
  <2>1. IsFiniteSet(s) /\ IsFiniteSet(s \cup {x}) /\ (s \cup {x}) \ {x} = s
    BY <1>2, FS_Subset
  <2>2. Cardinality(s \cup {x}) = Cardinality(s) + 1 /\ Cardinality(s) \in Nat
    BY <1>2, <2>1, FS_AddElement, FS_CardinalityType
  <2>3. /\ SumFunctionOnSet(f, s \cup {x}) = SumFunctionOnSet(f, s) + f[x]
        /\ SumFunctionOnSet(h, s \cup {x}) = SumFunctionOnSet(h, s) + h[x]
    BY <2>1, SumAdds
  <2>4. SumFunctionOnSet(f, s) \in Int /\ f[x] \in Int /\ h[x] = f[x] + c
    BY <2>1, SumInt
  <2>5. SumFunctionOnSet(h, s) = SumFunctionOnSet(f, s) + c * Cardinality(s)
    OBVIOUS
  <2>6. c * (Cardinality(s) + 1) = c * Cardinality(s) + c /\ c * Cardinality(s) \in Int
    BY <2>2, OneMore
  <2>7. SumFunctionOnSet(h, s \cup {x})
          = SumFunctionOnSet(f, s \cup {x}) + c * Cardinality(s \cup {x})
    BY <2>2, <2>3, <2>4, <2>5, <2>6
  <2> QED
    BY <2>7
<1>3. P \in SUBSET (SUBSET A)
  OBVIOUS
<1> HIDE DEF P
<1>4. A \in P
  BY <1>1, <1>2, <1>3, SubsetInduct
<1> QED
  BY <1>4 DEF P

\* The sum over one element.
LEMMA SumOne ==
  ASSUME NEW a, NEW f, f[a] \in Int
  PROVE  SumFunctionOnSet(f, {a}) = f[a]
<1>1. IsFiniteSet({a})
  BY FS_Singleton
<1>2. SumFunctionOnSet(f, {a}) = SumFunctionOnSet(f, {a} \ {a}) + f[a]
  BY <1>1, SumAdds
<1>3. {a} \ {a} = {}
  OBVIOUS
<1> QED
  BY <1>2, <1>3, SumEmpty

\* Nothing adds up to nothing.
LEMMA SumZero ==
  ASSUME NEW A, IsFiniteSet(A), NEW f, \A x \in A : f[x] = 0
  PROVE  SumFunctionOnSet(f, A) = 0
<1> DEFINE P == {s \in SUBSET A : SumFunctionOnSet(f, s) = 0}
<1>1. {} \in P
  BY SumEmpty
<1>2. ASSUME NEW s \in P, NEW x \in A, x \notin s PROVE s \cup {x} \in P
  <2>1. IsFiniteSet(s \cup {x}) /\ (s \cup {x}) \ {x} = s
    BY <1>2, FS_Subset
  <2>2. \A y \in s \cup {x} : f[y] \in Int
    OBVIOUS
  <2>3. SumFunctionOnSet(f, s \cup {x}) = SumFunctionOnSet(f, s) + f[x]
    BY <2>1, <2>2, SumAdds
  <2>4. SumFunctionOnSet(f, s) = 0 /\ f[x] = 0
    OBVIOUS
  <2> QED
    BY <2>3, <2>4
<1>3. P \in SUBSET (SUBSET A)
  OBVIOUS
<1> HIDE DEF P
<1>4. A \in P
  BY <1>1, <1>2, <1>3, SubsetInduct
<1> QED
  BY <1>4 DEF P
============================================================================
