---------------------------- MODULE SumTheorems ----------------------------
(***************************************************************************)
(* Sums of a function over a finite set (SumFunctionOnSet), and extremes:  *)
(* the facts that the proofs about reports, plans and credits cite.        *)
(*                                                                         *)
(* A sum is a recursive function.  That it exists, and what it computes,   *)
(* is shown by induction, stated here as closure properties of a set: of   *)
(* naturals (AllNaturals) or of subsets (FiniteInduction).  A proof by     *)
(* induction names the set of the good ones and shows that it is closed.   *)
(***************************************************************************)
EXTENDS FiniteSetsExt, FiniteSetTheorems, TLAPS

-----------------------------------------------------------------------------
(* Induction *)

\* A set of naturals that has 0 and is closed under successor has them all.
LEMMA AllNaturals ==
  ASSUME NEW T \in SUBSET Nat, 0 \in T, \A n \in T : n + 1 \in T
  PROVE  T = Nat
<1> SUFFICES ASSUME T # Nat PROVE FALSE
  OBVIOUS
<1>1. IsWellFoundedOn(OpToRel(<, Nat), Nat)
  BY NatLessThanWellFounded
<1>2. PICK n \in Nat \ T : \A k \in Nat \ T : <<k, n>> \notin OpToRel(<, Nat)
  <2>1. Nat \ T # {} /\ Nat \ T \subseteq Nat
    OBVIOUS
  <2> QED
    BY <1>1, <2>1, WFMin
<1>3. \A k \in Nat \ T : ~ (k < n)
  BY <1>2 DEF OpToRel
<1>4. n # 0 /\ n - 1 \in Nat /\ n - 1 \in T
  BY <1>3
<1> QED
  BY <1>4

\* Subsets of a finite set have a size, which falls by one with an element.
LEMMA SubsetSizes ==
  ASSUME NEW S, IsFiniteSet(S), NEW U \in SUBSET S
  PROVE  /\ IsFiniteSet(U) /\ Cardinality(U) \in Nat
         /\ Cardinality(U) = 0 <=> U = {}
         /\ \A x \in U : /\ U \ {x} \in SUBSET S
                         /\ Cardinality(U \ {x}) = Cardinality(U) - 1
BY FS_Subset, FS_CardinalityType, FS_EmptySet, FS_RemoveElement

\* Subsets of a finite set: good if the empty one is and each stays good with
\* one element more.
LEMMA FiniteInduction ==
  ASSUME NEW S, IsFiniteSet(S), NEW T, {} \in T,
         \A U \in SUBSET S : \A x \in S \ U : U \in T => U \cup {x} \in T
  PROVE  S \in T
<1> DEFINE N == { n \in Nat : \A U \in SUBSET S : Cardinality(U) = n => U \in T }
<1>1. 0 \in N
  BY SubsetSizes
<1>2. ASSUME NEW n \in N PROVE n + 1 \in N
  <2> SUFFICES ASSUME NEW U \in SUBSET S, Cardinality(U) = n + 1 PROVE U \in T
    OBVIOUS
  <2>1. PICK x \in U : TRUE
    BY SubsetSizes
  <2>2. U \ {x} \in SUBSET S /\ Cardinality(U \ {x}) = n
    BY <2>1, SubsetSizes
  <2>3. U \ {x} \in T /\ x \in S \ (U \ {x}) /\ U = (U \ {x}) \cup {x}
    BY <2>1, <2>2
  <2> QED
    BY <2>2, <2>3
<1>3. N = Nat
  BY <1>1, <1>2, AllNaturals
<1>4. Cardinality(S) \in N
  BY <1>3, FS_CardinalityType
<1> QED
  BY <1>4

-----------------------------------------------------------------------------
(* The recursive function behind a sum *)

Pick(s) == CHOOSE x \in s : TRUE
Body(f, g, s) == IF s = {} THEN 0 ELSE f[Pick(s)] + g[s \ {Pick(s)}]

\* A set that is not empty has the element it picks.
LEMMA Picked == \A s : s # {} => Pick(s) \in s
BY DEF Pick

\* g sums f over the subsets of S.
Sums(g, f, S) == g = [s \in SUBSET S |-> Body(f, g, s)]

\* There is such a function: it is built up size by size.
LEMMA SumsExist ==
  ASSUME NEW f, NEW S, IsFiniteSet(S)
  PROVE  \E g : Sums(g, f, S)
<1> DEFINE Upto(g, n) == \A s \in SUBSET S : Cardinality(s) <= n => g[s] = Body(f, g, s)
           Good(n) == \E g : g = [s \in SUBSET S |-> g[s]] /\ Upto(g, n)
           N == { n \in Nat : Good(n) }
<1>1. Good(0)
  <2> DEFINE g == [s \in SUBSET S |-> 0]
  <2>1. \A s \in SUBSET S : Cardinality(s) <= 0 => s = {}
    BY SubsetSizes
  <2>2. g = [s \in SUBSET S |-> g[s]]
    OBVIOUS
  <2>3. Upto(g, 0)
    BY <2>1 DEF Body
  <2> HIDE DEF g
  <2> QED
    BY <2>2, <2>3
<1>2. ASSUME NEW n \in Nat, Good(n) PROVE Good(n + 1)
  <2>1. PICK g : g = [s \in SUBSET S |-> g[s]] /\ Upto(g, n)
    BY <1>2
  <2> DEFINE h == [s \in SUBSET S |-> Body(f, g, s)]
  <2>2. ASSUME NEW s \in SUBSET S, Cardinality(s) <= n + 1
        PROVE  h[s] = Body(f, h, s)
    <3>1. CASE s = {}
      BY <3>1 DEF Body
    <3>2. CASE s # {}
      <4> DEFINE t == s \ {Pick(s)}
      <4>1. t \in SUBSET S /\ Cardinality(t) <= n
        BY <2>2, <3>2, Picked, SubsetSizes
      <4>2. h[t] = g[t]
        BY <4>1, <2>1
      <4> QED
        BY <3>2, <4>1, <4>2 DEF Body
    <3> QED
      BY <3>1, <3>2
  <2>3. h = [s \in SUBSET S |-> h[s]]
    OBVIOUS
  <2> HIDE DEF h
  <2> QED
    BY <2>2, <2>3
<1>3. N = Nat
  <2> HIDE DEF Good
  <2>1. 0 \in N /\ N \in SUBSET Nat /\ \A n \in N : n + 1 \in N
    BY <1>1, <1>2
  <2> QED
    BY <2>1, AllNaturals
<1>4. Good(Cardinality(S))
  BY <1>3, FS_CardinalityType
<1>5. \A s \in SUBSET S : Cardinality(s) <= Cardinality(S)
  BY FS_Subset
<1> QED
  BY <1>4, <1>5 DEF Sums

\* The sum of the community modules is its value at S.
LEMMA SumIsFold ==
  ASSUME NEW f, NEW S, IsFiniteSet(S)
  PROVE  \E g : Sums(g, f, S) /\ SumFunctionOnSet(f, S) = g[S]
<1> DEFINE iter == CHOOSE g : Sums(g, f, S)
<1>1. Sums(iter, f, S)
  BY SumsExist
<1>2. SumFunctionOnSet(f, S) = iter[S]
  BY DEF SumFunctionOnSet, FoldFunctionOnSet, MapThenFoldSet, Sums, Body, Pick
<1> QED
  BY <1>1, <1>2

\* Two of them agree where both are defined.
LEMMA SumsAgree ==
  ASSUME NEW f, NEW S, IsFiniteSet(S), NEW R \in SUBSET S, NEW g, NEW h,
         Sums(g, f, S), Sums(h, f, R)
  PROVE  g[R] = h[R]
<1> DEFINE N == { n \in Nat : \A s \in SUBSET R : Cardinality(s) = n => g[s] = h[s] }
<1>0. \A s \in SUBSET R : g[s] = Body(f, g, s) /\ h[s] = Body(f, h, s) /\ s \in SUBSET S
  BY DEF Sums
<1>1. 0 \in N
  BY <1>0, SubsetSizes DEF Body
<1>2. ASSUME NEW n \in N PROVE n + 1 \in N
  <2> SUFFICES ASSUME NEW s \in SUBSET R, Cardinality(s) = n + 1 PROVE g[s] = h[s]
    OBVIOUS
  <2>1. s # {}
    BY <1>0, SubsetSizes
  <2>2. s \ {Pick(s)} \in SUBSET R /\ Cardinality(s \ {Pick(s)}) = n
    BY <1>0, <2>1, Picked, SubsetSizes
  <2> QED
    BY <1>0, <2>1, <2>2 DEF Body
<1>3. N = Nat
  BY <1>1, <1>2, AllNaturals
<1>4. Cardinality(R) \in N
  BY <1>3, SubsetSizes
<1> QED
  BY <1>4

-----------------------------------------------------------------------------
(* Sums *)

\* Nothing adds up to zero.
LEMMA SumEmpty == \A f : SumFunctionOnSet(f, {}) = 0
<1> TAKE f
<1>1. PICK g : Sums(g, f, {}) /\ SumFunctionOnSet(f, {}) = g[{}]
  BY SumIsFold, FS_EmptySet
<1>2. g[{}] = Body(f, g, {})
  BY <1>1 DEF Sums
<1> QED
  BY <1>1, <1>2 DEF Body

\* The definition, one element at a time.
LEMMA SumPicked ==
  ASSUME NEW f, NEW S, IsFiniteSet(S), S # {}
  PROVE  SumFunctionOnSet(f, S) = f[Pick(S)] + SumFunctionOnSet(f, S \ {Pick(S)})
<1> DEFINE R == S \ {Pick(S)}
<1>1. R \in SUBSET S /\ IsFiniteSet(R)
  BY SubsetSizes
<1>2. PICK g : Sums(g, f, S) /\ SumFunctionOnSet(f, S) = g[S]
  BY SumIsFold
<1>3. PICK h : Sums(h, f, R) /\ SumFunctionOnSet(f, R) = h[R]
  BY <1>1, SumIsFold
<1>4. g[R] = h[R]
  BY <1>1, <1>2, <1>3, SumsAgree
<1>5. g[S] = f[Pick(S)] + g[R]
  BY <1>2 DEF Sums, Body
<1> QED
  BY <1>2, <1>3, <1>4, <1>5

\* A sum of integers is one, of naturals too.
LEMMA SumType ==
  ASSUME NEW f, NEW S, IsFiniteSet(S), \A x \in S : f[x] \in Int
  PROVE  /\ SumFunctionOnSet(f, S) \in Int
         /\ (\A x \in S : f[x] >= 0) => SumFunctionOnSet(f, S) >= 0
<1> DEFINE Good(s) == /\ SumFunctionOnSet(f, s) \in Int
                      /\ (\A x \in s : f[x] >= 0) => SumFunctionOnSet(f, s) >= 0
           N == { n \in Nat : \A s \in SUBSET S : Cardinality(s) = n => Good(s) }
<1>1. 0 \in N
  BY SumEmpty, SubsetSizes
<1>2. ASSUME NEW n \in N PROVE n + 1 \in N
  <2> SUFFICES ASSUME NEW s \in SUBSET S, Cardinality(s) = n + 1 PROVE Good(s)
    OBVIOUS
  <2> DEFINE x == Pick(s)
             r == s \ {x}
  <2>1. IsFiniteSet(s) /\ s # {}
    BY SubsetSizes
  <2>2. x \in s /\ r \in SUBSET S /\ Cardinality(r) = n /\ r \subseteq s
    BY <2>1, Picked, SubsetSizes
  <2>3. Good(r)
    BY <2>2
  <2>4. SumFunctionOnSet(f, s) = f[x] + SumFunctionOnSet(f, r)
    BY <2>1, SumPicked
  <2> HIDE DEF x, r
  <2> QED
    BY <2>2, <2>3, <2>4
<1>3. N = Nat
  <2> HIDE DEF Good
  <2> QED
    BY <1>1, <1>2, AllNaturals
<1> QED
  BY <1>3, FS_CardinalityType

\* Any element may be taken out first.
LEMMA SumRemove ==
  ASSUME NEW f, NEW S, IsFiniteSet(S), \A x \in S : f[x] \in Int, NEW x \in S
  PROVE  SumFunctionOnSet(f, S) = f[x] + SumFunctionOnSet(f, S \ {x})
<1> DEFINE Good(s) == \A y \in s : SumFunctionOnSet(f, s) = f[y] + SumFunctionOnSet(f, s \ {y})
           N == { n \in Nat : \A s \in SUBSET S : Cardinality(s) = n => Good(s) }
<1>1. 0 \in N
  BY SubsetSizes
<1>2. ASSUME NEW n \in N PROVE n + 1 \in N
  <2> SUFFICES ASSUME NEW s \in SUBSET S, Cardinality(s) = n + 1, NEW y \in s
               PROVE  SumFunctionOnSet(f, s) = f[y] + SumFunctionOnSet(f, s \ {y})
    OBVIOUS
  <2> DEFINE z == Pick(s)
  <2>1. IsFiniteSet(s) /\ z \in s
    BY Picked, SubsetSizes
  <2>2. SumFunctionOnSet(f, s) = f[z] + SumFunctionOnSet(f, s \ {z})
    BY <2>1, SumPicked
  <2> HIDE DEF z
  <2>3. /\ s \ {y} \in SUBSET S /\ Cardinality(s \ {y}) = n
        /\ s \ {z} \in SUBSET S /\ Cardinality(s \ {z}) = n
    BY <2>1, SubsetSizes
  <2>4. CASE y # z
    <3>1. SumFunctionOnSet(f, s \ {z}) = f[y] + SumFunctionOnSet(f, (s \ {z}) \ {y})
      BY <2>3, <2>4
    <3>2. SumFunctionOnSet(f, s \ {y}) = f[z] + SumFunctionOnSet(f, (s \ {y}) \ {z})
      BY <2>1, <2>3, <2>4
    <3>3. (s \ {z}) \ {y} = (s \ {y}) \ {z} /\ IsFiniteSet((s \ {z}) \ {y})
      BY <2>3, SubsetSizes
    <3>4. /\ f[y] \in Int /\ f[z] \in Int
          /\ SumFunctionOnSet(f, (s \ {z}) \ {y}) \in Int
      BY <2>1, <3>3, SumType
    <3> DEFINE a == f[y]
               b == f[z]
               c == SumFunctionOnSet(f, (s \ {z}) \ {y})
    <3>5. /\ SumFunctionOnSet(f, s) = b + (a + c)
          /\ SumFunctionOnSet(f, s \ {y}) = b + c
      BY <2>2, <3>1, <3>2, <3>3
    <3>6. a \in Int /\ b \in Int /\ c \in Int
      BY <3>4
    <3> HIDE DEF a, b, c
    <3>7. b + (a + c) = a + (b + c)
      BY <3>6
    <3> QED
      BY <3>5, <3>7 DEF a
  <2> QED
    BY <2>2, <2>4
<1>3. N = Nat
  <2> HIDE DEF Good
  <2> QED
    BY <1>1, <1>2, AllNaturals
<1>4. Good(S)
  BY <1>3, FS_CardinalityType
<1> QED
  BY <1>4

\* Any element may come in last.
LEMMA SumAdd ==
  ASSUME NEW f, NEW S, IsFiniteSet(S), NEW x, x \notin S, \A y \in S \cup {x} : f[y] \in Int
  PROVE  /\ IsFiniteSet(S \cup {x})
         /\ SumFunctionOnSet(f, S \cup {x}) = f[x] + SumFunctionOnSet(f, S)
<1>1. IsFiniteSet(S \cup {x}) /\ x \in S \cup {x} /\ (S \cup {x}) \ {x} = S
  BY FS_AddElement
<1> QED
  BY <1>1, SumRemove

\* What a sum adds up decides it.
LEMMA SumEqual ==
  ASSUME NEW f, NEW g, NEW S, IsFiniteSet(S), \A x \in S : f[x] \in Int /\ f[x] = g[x]
  PROVE  SumFunctionOnSet(f, S) = SumFunctionOnSet(g, S)
<1> DEFINE T == { U \in SUBSET S : SumFunctionOnSet(f, U) = SumFunctionOnSet(g, U) }
<1>1. {} \in T
  BY SumEmpty
<1>2. ASSUME NEW U \in SUBSET S, NEW x \in S \ U, U \in T PROVE U \cup {x} \in T
  <2>1. IsFiniteSet(U) /\ \A y \in U \cup {x} : f[y] \in Int /\ g[y] \in Int /\ f[y] = g[y]
    BY FS_Subset
  <2>2. /\ SumFunctionOnSet(f, U \cup {x}) = f[x] + SumFunctionOnSet(f, U)
        /\ SumFunctionOnSet(g, U \cup {x}) = g[x] + SumFunctionOnSet(g, U)
    BY <2>1, SumAdd
  <2>3. U \cup {x} \in SUBSET S
    OBVIOUS
  <2> QED
    BY <1>2, <2>1, <2>2, <2>3
<1> HIDE DEF T
<1>3. S \in T
  BY <1>1, <1>2, FiniteInduction
<1> QED
  BY <1>3 DEF T

\* The elements may be given other names.
LEMMA SumRename ==
  ASSUME NEW f, NEW g, NEW h, NEW S, IsFiniteSet(S),
         \A x, y \in S : h[x] = h[y] => x = y,
         \A x \in S : f[x] \in Int /\ f[x] = g[h[x]]
  PROVE  SumFunctionOnSet(f, S) = SumFunctionOnSet(g, { h[x] : x \in S })
<1> DEFINE Im(U) == { h[x] : x \in U }
           T == { U \in SUBSET S :
                    IsFiniteSet(Im(U)) /\ SumFunctionOnSet(f, U) = SumFunctionOnSet(g, Im(U)) }
<1>1. {} \in T
  <2>1. Im({}) = {}
    OBVIOUS
  <2> QED
    BY <2>1, SumEmpty, FS_EmptySet
<1>2. ASSUME NEW U \in SUBSET S, NEW x \in S \ U, U \in T PROVE U \cup {x} \in T
  <2>1. IsFiniteSet(U) /\ \A y \in U \cup {x} : f[y] \in Int
    BY FS_Subset
  <2>2. Im(U \cup {x}) = Im(U) \cup {h[x]} /\ h[x] \notin Im(U)
    OBVIOUS
  <2>3. IsFiniteSet(Im(U)) /\ SumFunctionOnSet(f, U) = SumFunctionOnSet(g, Im(U))
    BY <1>2
  <2>4. \A z \in Im(U) \cup {h[x]} : g[z] \in Int
    OBVIOUS
  <2>5. /\ SumFunctionOnSet(f, U \cup {x}) = f[x] + SumFunctionOnSet(f, U)
    BY <2>1, SumAdd
  <2>6. f[x] = g[h[x]] /\ U \cup {x} \in SUBSET S
    OBVIOUS
  <2> HIDE DEF Im
  <2>7. /\ IsFiniteSet(Im(U) \cup {h[x]})
        /\ SumFunctionOnSet(g, Im(U) \cup {h[x]}) = g[h[x]] + SumFunctionOnSet(g, Im(U))
    BY <2>2, <2>3, <2>4, SumAdd
  <2> QED
    BY <2>2, <2>3, <2>5, <2>6, <2>7
<1> HIDE DEF T
<1>3. S \in T
  BY <1>1, <1>2, FiniteInduction
<1> QED
  BY <1>3 DEF T

\* Greater terms make a greater sum ...
LEMMA SumMonotonic ==
  ASSUME NEW f, NEW g, NEW S, IsFiniteSet(S),
         \A x \in S : f[x] \in Int /\ g[x] \in Int /\ f[x] <= g[x]
  PROVE  SumFunctionOnSet(f, S) <= SumFunctionOnSet(g, S)
<1> DEFINE T == { U \in SUBSET S : SumFunctionOnSet(f, U) <= SumFunctionOnSet(g, U) }
<1>1. {} \in T
  BY SumEmpty
<1>2. ASSUME NEW U \in SUBSET S, NEW x \in S \ U, U \in T PROVE U \cup {x} \in T
  <2>1. IsFiniteSet(U) /\ \A y \in U \cup {x} : f[y] \in Int /\ g[y] \in Int /\ f[y] <= g[y]
    BY FS_Subset
  <2>2. /\ SumFunctionOnSet(f, U \cup {x}) = f[x] + SumFunctionOnSet(f, U)
        /\ SumFunctionOnSet(g, U \cup {x}) = g[x] + SumFunctionOnSet(g, U)
    BY <2>1, SumAdd
  <2>3. SumFunctionOnSet(f, U) \in Int /\ SumFunctionOnSet(g, U) \in Int
    BY <2>1, SumType
  <2>4. SumFunctionOnSet(f, U) <= SumFunctionOnSet(g, U)
    BY <1>2
  <2>5. f[x] \in Int /\ g[x] \in Int /\ f[x] <= g[x] /\ U \cup {x} \in SUBSET S
    OBVIOUS
  <2> QED
    BY <2>2, <2>3, <2>4, <2>5
<1> HIDE DEF T
<1>3. S \in T
  BY <1>1, <1>2, FiniteInduction
<1> QED
  BY <1>3 DEF T

\* ... and terms that are nowhere greater but sum to as much are the same.
LEMMA SumTight ==
  ASSUME NEW f, NEW g, NEW S, IsFiniteSet(S),
         \A x \in S : f[x] \in Int /\ g[x] \in Int /\ f[x] <= g[x],
         SumFunctionOnSet(f, S) >= SumFunctionOnSet(g, S)
  PROVE  \A x \in S : f[x] = g[x]
<1> SUFFICES ASSUME NEW x \in S PROVE f[x] = g[x]
  OBVIOUS
<1> DEFINE R == S \ {x}
<1>1. IsFiniteSet(R) /\ \A y \in R : f[y] \in Int /\ g[y] \in Int /\ f[y] <= g[y]
  BY FS_RemoveElement
<1>2. /\ SumFunctionOnSet(f, S) = f[x] + SumFunctionOnSet(f, R)
      /\ SumFunctionOnSet(g, S) = g[x] + SumFunctionOnSet(g, R)
  BY SumRemove
<1> HIDE DEF R
<1>3. /\ SumFunctionOnSet(f, R) \in Int /\ SumFunctionOnSet(g, R) \in Int
      /\ SumFunctionOnSet(f, R) <= SumFunctionOnSet(g, R)
  BY <1>1, SumType, SumMonotonic
<1>4. f[x] \in Int /\ g[x] \in Int /\ f[x] <= g[x]
  OBVIOUS
<1> QED
  BY <1>2, <1>3, <1>4

\* The mean of the terms is not above a bound on each of them.
LEMMA SumBound ==
  ASSUME NEW f, NEW S, IsFiniteSet(S), NEW b \in Nat, \A x \in S : f[x] \in Int /\ f[x] <= b
  PROVE  SumFunctionOnSet(f, S) <= b * Cardinality(S)
<1> DEFINE T == { U \in SUBSET S : SumFunctionOnSet(f, U) <= b * Cardinality(U) }
<1>1. {} \in T
  BY SumEmpty, FS_EmptySet
<1>2. ASSUME NEW U \in SUBSET S, NEW x \in S \ U, U \in T PROVE U \cup {x} \in T
  <2>1. /\ IsFiniteSet(U) /\ Cardinality(U) \in Nat /\ Cardinality(U \cup {x}) = Cardinality(U) + 1
        /\ \A y \in U \cup {x} : f[y] \in Int
    BY FS_Subset, FS_AddElement, FS_CardinalityType
  <2>2. SumFunctionOnSet(f, U \cup {x}) = f[x] + SumFunctionOnSet(f, U)
    BY <2>1, SumAdd
  <2>3. SumFunctionOnSet(f, U) \in Int
    BY <2>1, SumType
  <2>4. SumFunctionOnSet(f, U) <= b * Cardinality(U) /\ U \cup {x} \in SUBSET S
    BY <1>2
  <2>5. \A n \in Nat : b * (n + 1) = b * n + b /\ b * n \in Int
    OBVIOUS
  <2>6. b * Cardinality(U \cup {x}) = b * Cardinality(U) + b /\ b * Cardinality(U) \in Int
    BY <2>1, <2>5
  <2>7. f[x] \in Int /\ f[x] <= b
    OBVIOUS
  <2>8. SumFunctionOnSet(f, U \cup {x}) <= b * Cardinality(U \cup {x})
    BY <2>2, <2>3, <2>4, <2>6, <2>7
  <2> QED
    BY <2>4, <2>8
<1> HIDE DEF T
<1>3. S \in T
  BY <1>1, <1>2, FiniteInduction
<1> QED
  BY <1>3 DEF T

\* Adding up class by class, the total is the same.
LEMMA SumByClass ==
  ASSUME NEW f, NEW S, IsFiniteSet(S), NEW K, IsFiniteSet(K), NEW class,
         \A x \in S : f[x] \in Int /\ class[x] \in K
  PROVE  SumFunctionOnSet([k \in K |-> SumFunctionOnSet(f, { x \in S : class[x] = k })], K)
           = SumFunctionOnSet(f, S)
<1> DEFINE Of(U, k) == { x \in U : class[x] = k }
           Totals(U) == [k \in K |-> SumFunctionOnSet(f, Of(U, k))]
           T == { U \in SUBSET S : SumFunctionOnSet(Totals(U), K) = SumFunctionOnSet(f, U) }
<1>0. ASSUME NEW U \in SUBSET S
      PROVE  \A k \in K : IsFiniteSet(Of(U, k)) /\ Totals(U)[k] \in Int
  <2> SUFFICES ASSUME NEW k \in K PROVE IsFiniteSet(Of(U, k)) /\ Totals(U)[k] \in Int
    OBVIOUS
  <2>1. Of(U, k) \in SUBSET S
    OBVIOUS
  <2>2. IsFiniteSet(Of(U, k)) /\ \A x \in Of(U, k) : f[x] \in Int
    BY <2>1, FS_Subset
  <2> QED
    BY <2>2, SumType
<1>1. {} \in T
  <2> DEFINE z == Totals({})
  <2>1. \A k \in K : z[k] = 0
    <3>1. \A k \in K : Of({}, k) = {}
      OBVIOUS
    <3> QED
      BY <3>1, SumEmpty
  <2> HIDE DEF z
  <2>2. SumFunctionOnSet(z, K) <= 0 /\ SumFunctionOnSet(z, K) >= 0 /\ SumFunctionOnSet(z, K) \in Int
    <3>1. Cardinality(K) \in Nat
      BY FS_CardinalityType
    <3> QED
      BY <2>1, <3>1, SumBound, SumType
  <2> QED
    BY <2>2, SumEmpty DEF z
<1>2. ASSUME NEW U \in SUBSET S, NEW x \in S \ U, U \in T PROVE U \cup {x} \in T
  <2> DEFINE c == class[x]
             g == Totals(U)
             h == Totals(U \cup {x})
  <2>1. /\ IsFiniteSet(U) /\ U \cup {x} \in SUBSET S /\ c \in K
        /\ \A y \in U \cup {x} : f[y] \in Int
    BY FS_Subset
  <2>2. /\ Of(U \cup {x}, c) = Of(U, c) \cup {x} /\ x \notin Of(U, c)
        /\ \A k \in K \ {c} : Of(U \cup {x}, k) = Of(U, k)
    OBVIOUS
  <2>3. \A k \in K : g[k] \in Int /\ h[k] \in Int
    BY <1>0, <2>1
  <2>4. h[c] = f[x] + g[c]
    <3>1. IsFiniteSet(Of(U, c)) /\ \A y \in Of(U, c) \cup {x} : f[y] \in Int
      BY <1>0, <2>1
    <3> QED
      BY <2>1, <2>2, <3>1, SumAdd
  <2>5. \A k \in K \ {c} : h[k] = g[k]
    BY <2>2
  <2>6. SumFunctionOnSet(f, U \cup {x}) = f[x] + SumFunctionOnSet(f, U)
    BY <2>1, SumAdd
  <2>7. SumFunctionOnSet(g, K) = SumFunctionOnSet(f, U)
    BY <1>2
  <2> HIDE DEF c, g, h, Of
  <2>8. /\ SumFunctionOnSet(g, K) = g[c] + SumFunctionOnSet(g, K \ {c})
        /\ SumFunctionOnSet(h, K) = h[c] + SumFunctionOnSet(h, K \ {c})
    BY <2>1, <2>3, SumRemove
  <2>9. /\ SumFunctionOnSet(g, K \ {c}) = SumFunctionOnSet(h, K \ {c})
        /\ SumFunctionOnSet(g, K \ {c}) \in Int
    <3>1. IsFiniteSet(K \ {c})
      BY FS_RemoveElement
    <3> QED
      BY <2>3, <2>5, <3>1, SumEqual, SumType
  <2>10. f[x] \in Int /\ g[c] \in Int
    BY <2>1, <2>3
  <2>11. SumFunctionOnSet(h, K) = SumFunctionOnSet(f, U \cup {x})
    BY <2>4, <2>6, <2>7, <2>8, <2>9, <2>10
  <2> QED
    BY <2>1, <2>11 DEF h
<1> HIDE DEF T
<1>3. S \in T
  BY <1>1, <1>2, FiniteInduction
<1> QED
  BY <1>3 DEF T

\* A common factor may be taken out.
LEMMA SumScale ==
  ASSUME NEW f, NEW g, NEW S, IsFiniteSet(S), NEW b \in Int,
         \A x \in S : g[x] \in Int /\ f[x] = b * g[x]
  PROVE  SumFunctionOnSet(f, S) = b * SumFunctionOnSet(g, S)
<1> DEFINE T == { U \in SUBSET S : SumFunctionOnSet(f, U) = b * SumFunctionOnSet(g, U) }
<1>1. {} \in T
  BY SumEmpty
<1>2. ASSUME NEW U \in SUBSET S, NEW x \in S \ U, U \in T PROVE U \cup {x} \in T
  <2>1. /\ IsFiniteSet(U) /\ U \cup {x} \in SUBSET S
        /\ \A y \in U \cup {x} : f[y] \in Int /\ g[y] \in Int
    BY FS_Subset
  <2>2. /\ SumFunctionOnSet(f, U \cup {x}) = f[x] + SumFunctionOnSet(f, U)
        /\ SumFunctionOnSet(g, U \cup {x}) = g[x] + SumFunctionOnSet(g, U)
    BY <2>1, SumAdd
  <2>3. g[x] \in Int /\ SumFunctionOnSet(g, U) \in Int
    BY <2>1, SumType
  <2>4. \A m, n \in Int : b * (m + n) = b * m + b * n
    OBVIOUS
  <2>5. f[x] = b * g[x] /\ SumFunctionOnSet(f, U) = b * SumFunctionOnSet(g, U)
    BY <1>2
  <2>6. SumFunctionOnSet(f, U \cup {x}) = b * SumFunctionOnSet(g, U \cup {x})
    BY <2>2, <2>3, <2>4, <2>5
  <2> QED
    BY <2>1, <2>6
<1> HIDE DEF T
<1>3. S \in T
  BY <1>1, <1>2, FiniteInduction
<1> QED
  BY <1>3 DEF T

\* The lesser of two.
LEMMA MinOfTwo ==
  ASSUME NEW a \in Int, NEW b \in Int
  PROVE  Min({a, b}) = IF b < a THEN b ELSE a
BY DEF Min

\* A finite set of integers has a greatest element.
LEMMA FiniteMax ==
  ASSUME NEW S, S \subseteq Int, IsFiniteSet(S), S # {}
  PROVE  Max(S) \in S /\ \A y \in S : y <= Max(S)
<1> DEFINE T == { U \in SUBSET S : U = {} \/ \E x \in U : \A y \in U : x >= y }
<1>1. {} \in T
  OBVIOUS
<1>2. ASSUME NEW U \in SUBSET S, NEW x \in S \ U, U \in T PROVE U \cup {x} \in T
  <2>1. CASE U = {}
    BY <2>1
  <2>2. ASSUME NEW z \in U, \A y \in U : z >= y PROVE U \cup {x} \in T
    <3>1. CASE x >= z
      <4>1. \A y \in U \cup {x} : x >= y
        BY <2>2, <3>1
      <4> QED
        BY <4>1
    <3>2. CASE ~ (x >= z)
      <4>1. \A y \in U \cup {x} : z >= y
        BY <2>2, <3>2
      <4> QED
        BY <4>1
    <3> QED
      BY <3>1, <3>2
  <2> QED
    BY <1>2, <2>1, <2>2
<1> HIDE DEF T
<1>3. S \in T
  BY <1>1, <1>2, FiniteInduction
<1>4. \E x \in S : \A y \in S : x >= y
  BY <1>3 DEF T
<1> QED
  BY <1>4 DEF Max

\* A bound on a quotient.
LEMMA DivBound ==
  ASSUME NEW a \in Int, NEW b \in Nat \ {0}, NEW q \in Int, a < b * (q + 1)
  PROVE  a \div b <= q
OBVIOUS
=============================================================================
