--------------------------- MODULE FiniteInduction ---------------------------
(***************************************************************************)
(* Induction over finite data, in the two forms the proofs of this         *)
(* project use: a set of natural numbers has a least element, and a set of *)
(* finite sets has a smallest one.  From these, what sums are: the model   *)
(* adds up sizes with MapThenSumSet, a fold, and the lemmas below say what *)
(* such a sum does when an element comes, goes or changes.                 *)
(***************************************************************************)
EXTENDS Integers, FiniteSetsExt, FiniteSetTheorems, WellFoundedInduction, TLAPS

LEMMA LeastOf ==
    ASSUME NEW T \in SUBSET Nat, T # {}
    PROVE  \E n \in T : \A m \in T : n <= m
<1> DEFINE Less == OpToRel(<, Nat)
<1>1. IsWellFoundedOn(Less, Nat)
  BY NatLessThanWellFounded
<1>2. \A m, n \in Nat : <<m, n>> \in Less <=> m < n
  BY DEF OpToRel
<1> HIDE DEF Less
<1>3. PICK n \in T : \A m \in T : ~ <<m, n>> \in Less
  <2>1. T \subseteq Nat
    OBVIOUS
  <2> QED
    BY <2>1, <1>1, WFMin
<1>4. ASSUME NEW m \in T
      PROVE  n <= m
  <2>1. m \in Nat /\ n \in Nat
    OBVIOUS
  <2>2. ~ (m < n)
    BY <2>1, <1>2, <1>3
  <2> QED
    BY <2>1, <2>2
<1> QED
  BY <1>4

(* Among the subsets of a finite set that have a property, one is smallest *)
(* in that none of them lies strictly inside it.                           *)
LEMMA SmallestOf ==
    ASSUME NEW S, IsFiniteSet(S), NEW F \in SUBSET SUBSET S, F # {}
    PROVE  \E A \in F : \A B \in F : ~ (B \subseteq A /\ B # A)
<1> DEFINE Sizes == {n \in Nat : \E A \in F : n = Cardinality(A)}
<1>1. \A A \in F : IsFiniteSet(A) /\ Cardinality(A) \in Nat
  BY FS_Subset, FS_CardinalityType
<1>2. Sizes # {} /\ Sizes \in SUBSET Nat
  BY <1>1
<1>3. PICK n \in Sizes : \A m \in Sizes : n <= m
  BY <1>2, LeastOf
<1>4. PICK A \in F : n = Cardinality(A)
  OBVIOUS
<1>5. ASSUME NEW B \in F, B \subseteq A, B # A
      PROVE  FALSE
  <2>1. Cardinality(B) < Cardinality(A)
    BY <1>1, <1>5, FS_Subset
  <2>2. Cardinality(B) \in Sizes
    BY <1>1
  <2> QED
    BY <2>1, <2>2, <1>1, <1>3, <1>4
<1> QED
  BY <1>4, <1>5
-----------------------------------------------------------------------------
(* A function defined by recursion over 0 .. n exists. *)
Recurs(f, x, step, n) ==
    f = [k \in 0 .. n |-> IF k = 0 THEN x ELSE step[k][f[k - 1]]]

LEMMA RecursionExists ==
    ASSUME NEW S, NEW x \in S, NEW n \in Nat, NEW step \in [1 .. n -> [S -> S]]
    PROVE  \E f \in [0 .. n -> S] : Recurs(f, x, step, n)
<1> DEFINE Good(m, f) == /\ f \in [0 .. m -> S] /\ f[0] = x
                         /\ \A k \in 1 .. m : f[k] = step[k][f[k - 1]]
           T == {m \in 0 .. n : ~ \E f : Good(m, f)}
<1>1. T = {}
  <2> SUFFICES ASSUME T # {}
               PROVE  FALSE
    OBVIOUS
  <2>1. T \in SUBSET Nat
    OBVIOUS
  <2>2. PICK m \in T : \A l \in T : m <= l
    BY <2>1, LeastOf
  <2>3. m \in 0 .. n /\ ~ \E f : Good(m, f)
    OBVIOUS
  <2>4. CASE m = 0
    <3> DEFINE f == [k \in 0 .. 0 |-> x]
    <3>1. Good(0, f)
      OBVIOUS
    <3> HIDE DEF f, Good
    <3> QED
      BY <2>3, <2>4, <3>1
  <2>5. CASE m # 0
    <3>1. m - 1 \in 0 .. n /\ m - 1 \notin T
      <4>1. m \in Nat /\ m - 1 \in 0 .. n /\ ~ (m <= m - 1)
        BY <2>3, <2>5
      <4> HIDE DEF T
      <4> QED
        BY <2>2, <4>1
    <3>2. PICK f : Good(m - 1, f)
      BY <3>1
    <3> DEFINE g == [k \in 0 .. m |-> IF k < m THEN f[k] ELSE step[m][f[m - 1]]]
    <3>3. f[m - 1] \in S /\ m \in 1 .. n
      BY <2>3, <2>5, <3>2
    <3>4. step[m][f[m - 1]] \in S
      BY <3>3
    <3>5. g \in [0 .. m -> S]
      BY <3>2, <3>4
    <3>6. g[0] = x
      BY <2>3, <2>5, <3>2
    <3>7. \A k \in 1 .. m : g[k] = step[k][g[k - 1]]
      BY <2>3, <3>2
    <3>8. Good(m, g)
      BY <3>5, <3>6, <3>7
    <3> HIDE DEF g, Good
    <3> QED
      BY <2>3, <3>8
  <2> QED
    BY <2>4, <2>5
<1>2. PICK f : Good(n, f)
  <2>1. n \in 0 .. n
    OBVIOUS
  <2>2. ASSUME ~ \E f : Good(n, f)
        PROVE  FALSE
    <3> HIDE DEF Good
    <3>1. n \in T
      BY <2>1, <2>2
    <3> QED
      BY <1>1, <3>1
  <2> HIDE DEF Good
  <2> QED
    BY <2>2
<1>3. Recurs(f, x, step, n)
  <2>1. \A k \in 0 .. n : f[k] = IF k = 0 THEN x ELSE step[k][f[k - 1]]
    BY <1>2
  <2> QED
    BY <1>2, <2>1 DEF Recurs
<1> QED
  BY <1>2, <1>3
-----------------------------------------------------------------------------
(* The sum of the weights of the elements of S. *)
SumOver(w, S) == MapThenSumSet(LAMBDA x : w[x], S)

FirstOf(s) == CHOOSE x \in s : TRUE

(* The function that MapThenSumSet defines by recursion over the subsets. *)
Adds(w, S, sum) ==
    sum = [s \in SUBSET S |->
              IF s = {} THEN 0 ELSE w[FirstOf(s)] + sum[s \ {FirstOf(s)}]]

LEMMA SumIsFold ==
    ASSUME NEW w, NEW S
    PROVE  SumOver(w, S) = (CHOOSE sum : Adds(w, S, sum))[S]
BY DEF SumOver, MapThenSumSet, MapThenFoldSet, Adds, FirstOf

LEMMA FirstIsMember ==
    ASSUME NEW s, s # {}
    PROVE  FirstOf(s) \in s
BY DEF FirstOf

LEMMA AddsUnfold ==
    ASSUME NEW w, NEW S, NEW sum, Adds(w, S, sum), NEW s \in SUBSET S
    PROVE  /\ s = {} => sum[s] = 0
           /\ s # {} => sum[s] = w[FirstOf(s)] + sum[s \ {FirstOf(s)}]
BY DEF Adds

(* Two such functions agree where both are defined. *)
LEMMA AddsAgree ==
    ASSUME NEW w, NEW S, NEW R, IsFiniteSet(S),
           NEW f, Adds(w, S, f), NEW g, Adds(w, R, g), R \subseteq S
    PROVE  f[R] = g[R]
<1> DEFINE F == {s \in SUBSET R : f[s] # g[s]}
<1> SUFFICES ASSUME F # {}
             PROVE  FALSE
  OBVIOUS
<1>1. IsFiniteSet(R)
  BY FS_Subset
<1>2. F \in SUBSET SUBSET R /\ \A s : s \in F <=> s \in SUBSET R /\ f[s] # g[s]
  OBVIOUS
<1> HIDE DEF F
<1>3. PICK s \in F : \A t \in F : ~ (t \subseteq s /\ t # s)
  BY <1>1, <1>2, SmallestOf
<1>4. s \in SUBSET R /\ s \in SUBSET S /\ f[s] # g[s]
  BY <1>2
<1>5. s # {}
  BY <1>4, AddsUnfold
<1> DEFINE r == s \ {FirstOf(s)}
<1>6. r \subseteq s /\ r # s /\ r \in SUBSET R
  BY <1>4, <1>5, FirstIsMember
<1>7. f[r] = g[r]
  BY <1>2, <1>3, <1>6
<1>8. f[s] = w[FirstOf(s)] + f[r] /\ g[s] = w[FirstOf(s)] + g[r]
  BY <1>4, <1>5, AddsUnfold
<1> QED
  BY <1>4, <1>7, <1>8

LEMMA AddsExists ==
    ASSUME NEW w, NEW S, IsFiniteSet(S)
    PROVE  \E f : Adds(w, S, f)
<1> DEFINE F == {s \in SUBSET S : ~ \E f : Adds(w, s, f)}
<1> SUFFICES ASSUME F # {}
             PROVE  FALSE
  OBVIOUS
<1>1. F \in SUBSET SUBSET S /\ \A s : s \in F <=> s \in SUBSET S /\ ~ \E f : Adds(w, s, f)
  OBVIOUS
<1> HIDE DEF F
<1>2. PICK A \in F : \A B \in F : ~ (B \subseteq A /\ B # A)
  BY <1>1, SmallestOf
<1>3. A \in SUBSET S /\ ~ \E f : Adds(w, A, f)
  BY <1>1
<1>4. IsFiniteSet(A) /\ \A s \in SUBSET A : IsFiniteSet(s)
  BY <1>3, FS_Subset
<1> DEFINE own(s) == CHOOSE f : Adds(w, s, f)
           value(s) == own(s)[s]
           sum == [s \in SUBSET A |->
                     IF s = {} THEN 0 ELSE w[FirstOf(s)] + value(s \ {FirstOf(s)})]
<1>5. ASSUME NEW s \in SUBSET A, s # A
      PROVE  Adds(w, s, own(s))
  BY <1>1, <1>2, <1>3, <1>5
<1> HIDE DEF own
<1>6. ASSUME NEW s \in SUBSET A, s # A
      PROVE  sum[s] = value(s)
  <2>1. CASE s = {}
    <3>1. own(s)[s] = 0
      BY <2>1, <1>5, <1>6, AddsUnfold
    <3> QED
      BY <2>1, <3>1
  <2>2. CASE s # {}
    <3> DEFINE r == s \ {FirstOf(s)}
    <3>1. r \in SUBSET A /\ r # A /\ r \in SUBSET s
      BY <2>2, <1>6, FirstIsMember
    <3>2. Adds(w, r, own(r)) /\ Adds(w, s, own(s))
      BY <3>1, <1>5, <1>6
    <3>3. own(s)[r] = own(r)[r]
      BY <3>1, <3>2, <1>4, AddsAgree
    <3>4. own(s)[s] = w[FirstOf(s)] + own(s)[r]
      BY <2>2, <3>2, AddsUnfold
    <3> QED
      BY <2>2, <3>3, <3>4
  <2> QED
    BY <2>1, <2>2
<1>7. ASSUME NEW s \in SUBSET A
      PROVE  sum[s] = IF s = {} THEN 0 ELSE w[FirstOf(s)] + sum[s \ {FirstOf(s)}]
  <2>1. CASE s = {}
    BY <2>1
  <2>2. CASE s # {}
    <3> DEFINE r == s \ {FirstOf(s)}
    <3>1. r \in SUBSET A /\ r # A
      BY <2>2, FirstIsMember
    <3>2. sum[r] = value(r)
      BY <3>1, <1>6
    <3> QED
      BY <2>2, <3>2
  <2> QED
    BY <2>1, <2>2
<1>8. Adds(w, A, sum)
  <2> HIDE DEF value
  <2> QED
    BY <1>7 DEF Adds
<1> QED
  BY <1>3, <1>8

LEMMA SumStep ==
    ASSUME NEW w, NEW S, IsFiniteSet(S)
    PROVE  /\ S = {} => SumOver(w, S) = 0
           /\ S # {} => SumOver(w, S) = w[FirstOf(S)] + SumOver(w, S \ {FirstOf(S)})
<1> DEFINE f == CHOOSE f : Adds(w, S, f)
           r == S \ {FirstOf(S)}
           g == CHOOSE g : Adds(w, r, g)
<1>1. SumOver(w, S) = f[S] /\ SumOver(w, r) = g[r]
  BY SumIsFold
<1>2. IsFiniteSet(r)
  BY FS_Subset
<1>3. Adds(w, S, f) /\ Adds(w, r, g)
  BY <1>2, AddsExists
<1> HIDE DEF f, g
<1>4. f[r] = g[r]
  BY <1>3, AddsAgree
<1>5. /\ S = {} => f[S] = 0
      /\ S # {} => f[S] = w[FirstOf(S)] + f[r]
  BY <1>3, AddsUnfold
<1> QED
  BY <1>1, <1>4, <1>5

(* A sum of natural numbers is one. *)
LEMMA SumType ==
    ASSUME NEW w, NEW S, IsFiniteSet(S), \A x \in S : w[x] \in Nat
    PROVE  SumOver(w, S) \in Nat
<1> DEFINE F == {s \in SUBSET S : SumOver(w, s) \notin Nat}
<1> SUFFICES ASSUME F # {}
             PROVE  FALSE
  OBVIOUS
<1>1. F \in SUBSET SUBSET S /\ \A s : s \in F <=> s \in SUBSET S /\ SumOver(w, s) \notin Nat
  OBVIOUS
<1> HIDE DEF F
<1>2. PICK s \in F : \A t \in F : ~ (t \subseteq s /\ t # s)
  BY <1>1, SmallestOf
<1> DEFINE r == s \ {FirstOf(s)}
<1>3. s \in SUBSET S /\ IsFiniteSet(s)
  BY <1>1, FS_Subset
<1>4. s # {}
  <2>1. s = {} => SumOver(w, s) = 0
    BY <1>3, SumStep
  <2>2. SumOver(w, s) \notin Nat
    BY <1>1
  <2> QED
    BY <2>1, <2>2
<1>5. FirstOf(s) \in S /\ r \in SUBSET S /\ r \subseteq s /\ r # s
  BY <1>3, <1>4, FirstIsMember
<1>6. SumOver(w, r) \in Nat
  BY <1>1, <1>2, <1>5
<1>7. SumOver(w, s) = w[FirstOf(s)] + SumOver(w, r)
  BY <1>3, <1>4, SumStep
<1> QED
  BY <1>1, <1>5, <1>6, <1>7

(* Any element may be taken out first. *)
LEMMA SumTake ==
    ASSUME NEW w, NEW S, IsFiniteSet(S), \A x \in S : w[x] \in Nat, NEW x \in S
    PROVE  SumOver(w, S) = w[x] + SumOver(w, S \ {x})
<1> DEFINE F == {s \in SUBSET S : \E y \in s : SumOver(w, s) # w[y] + SumOver(w, s \ {y})}
<1> SUFFICES ASSUME F # {}
             PROVE  FALSE
  OBVIOUS
<1>1. /\ F \in SUBSET SUBSET S
      /\ \A s : s \in F <=> /\ s \in SUBSET S
                            /\ \E y \in s : SumOver(w, s) # w[y] + SumOver(w, s \ {y})
  OBVIOUS
<1> HIDE DEF F
<1>2. PICK s \in F : \A t \in F : ~ (t \subseteq s /\ t # s)
  BY <1>1, SmallestOf
<1>3. PICK y \in s : SumOver(w, s) # w[y] + SumOver(w, s \ {y})
  BY <1>1
<1> DEFINE c == FirstOf(s)
           r == s \ {c}
           q == s \ {y}
           p == (s \ {c}) \ {y}
<1>4. s \in SUBSET S /\ IsFiniteSet(s) /\ IsFiniteSet(p)
  BY <1>1, FS_Subset
<1>5. c \in s /\ SumOver(w, s) = w[c] + SumOver(w, r)
  BY <1>4, SumStep, FirstIsMember
<1>6. c # y
  BY <1>3, <1>5
<1>7. SumOver(w, r) = w[y] + SumOver(w, p)
  <2>1. r \in SUBSET S /\ r \subseteq s /\ r # s /\ y \in r
    BY <1>4, <1>5, <1>6
  <2> QED
    BY <2>1, <1>1, <1>2
<1>8. SumOver(w, q) = w[c] + SumOver(w, p)
  <2>1. q \in SUBSET S /\ q \subseteq s /\ q # s /\ c \in q /\ q \ {c} = p
    BY <1>4, <1>5, <1>6
  <2> QED
    BY <2>1, <1>1, <1>2
<1>9. w[c] \in Nat /\ w[y] \in Nat /\ SumOver(w, p) \in Nat
  BY <1>4, <1>5, SumType
<1> QED
  BY <1>3, <1>5, <1>7, <1>8, <1>9

(* A new element adds its weight. *)
LEMMA SumPut ==
    ASSUME NEW w, NEW S, IsFiniteSet(S), NEW x, x \notin S,
           \A y \in S \cup {x} : w[y] \in Nat
    PROVE  SumOver(w, S \cup {x}) = SumOver(w, S) + w[x]
<1>1. IsFiniteSet(S \cup {x})
  BY FS_AddElement
<1>2. SumOver(w, S \cup {x}) = w[x] + SumOver(w, (S \cup {x}) \ {x})
  BY <1>1, SumTake
<1>3. (S \cup {x}) \ {x} = S
  OBVIOUS
<1>4. SumOver(w, S) \in Nat /\ w[x] \in Nat
  BY SumType
<1> QED
  BY <1>2, <1>3, <1>4

(* Weights that are the same give the same sum. *)
LEMMA SumSame ==
    ASSUME NEW v, NEW w, NEW S, IsFiniteSet(S), \A x \in S : v[x] = w[x]
    PROVE  SumOver(v, S) = SumOver(w, S)
<1> DEFINE F == {s \in SUBSET S : SumOver(v, s) # SumOver(w, s)}
<1> SUFFICES ASSUME F # {}
             PROVE  FALSE
  OBVIOUS
<1>1. F \in SUBSET SUBSET S /\ \A s : s \in F <=> s \in SUBSET S /\ SumOver(v, s) # SumOver(w, s)
  OBVIOUS
<1> HIDE DEF F
<1>2. PICK s \in F : \A t \in F : ~ (t \subseteq s /\ t # s)
  BY <1>1, SmallestOf
<1> DEFINE r == s \ {FirstOf(s)}
<1>3. s \in SUBSET S /\ IsFiniteSet(s)
  BY <1>1, FS_Subset
<1>4. s # {}
  BY <1>1, <1>3, SumStep
<1>5. FirstOf(s) \in S /\ r \in SUBSET S /\ r \subseteq s /\ r # s
  BY <1>3, <1>4, FirstIsMember
<1>6. SumOver(v, r) = SumOver(w, r)
  BY <1>1, <1>2, <1>5
<1>7. /\ SumOver(v, s) = v[FirstOf(s)] + SumOver(v, r)
      /\ SumOver(w, s) = w[FirstOf(s)] + SumOver(w, r)
  BY <1>3, <1>4, SumStep
<1> QED
  BY <1>1, <1>5, <1>6, <1>7

(* Where one weight changes, the sum changes as much. *)
LEMMA SumChange ==
    ASSUME NEW v, NEW w, NEW S, IsFiniteSet(S), NEW x \in S,
           \A y \in S : v[y] \in Nat /\ w[y] \in Nat,
           \A y \in S \ {x} : v[y] = w[y]
    PROVE  SumOver(v, S) + w[x] = SumOver(w, S) + v[x]
<1> DEFINE r == S \ {x}
<1>1. IsFiniteSet(r)
  BY FS_Subset
<1>2. SumOver(v, r) = SumOver(w, r)
  BY <1>1, SumSame
<1>3. SumOver(v, S) = v[x] + SumOver(v, r) /\ SumOver(w, S) = w[x] + SumOver(w, r)
  BY SumTake
<1>4. SumOver(w, r) \in Nat /\ v[x] \in Nat /\ w[x] \in Nat
  BY <1>1, SumType
<1> QED
  BY <1>2, <1>3, <1>4

(* No weight is more than the sum. *)
LEMMA SumCovers ==
    ASSUME NEW w, NEW S, IsFiniteSet(S), \A y \in S : w[y] \in Nat, NEW x \in S
    PROVE  w[x] <= SumOver(w, S)
<1> DEFINE r == S \ {x}
<1>1. IsFiniteSet(r)
  BY FS_Subset
<1>2. SumOver(w, r) \in Nat
  BY <1>1, SumType
<1>3. SumOver(w, S) = w[x] + SumOver(w, r)
  BY SumTake
<1> QED
  BY <1>2, <1>3
(* What weighs nothing adds up to nothing. *)
LEMMA SumOfNothing ==
    ASSUME NEW w, NEW S, IsFiniteSet(S), \A x \in S : w[x] = 0
    PROVE  SumOver(w, S) = 0
<1> DEFINE F == {s \in SUBSET S : SumOver(w, s) # 0}
<1> SUFFICES ASSUME F # {}
             PROVE  FALSE
  OBVIOUS
<1>1. F \in SUBSET SUBSET S /\ \A s : s \in F <=> s \in SUBSET S /\ SumOver(w, s) # 0
  OBVIOUS
<1> HIDE DEF F
<1>2. PICK s \in F : \A t \in F : ~ (t \subseteq s /\ t # s)
  BY <1>1, SmallestOf
<1> DEFINE r == s \ {FirstOf(s)}
<1>3. s \in SUBSET S /\ IsFiniteSet(s) /\ SumOver(w, s) # 0
  BY <1>1, FS_Subset
<1>4. s # {}
  BY <1>3, SumStep
<1>5. FirstOf(s) \in S /\ r \in SUBSET S /\ r \subseteq s /\ r # s
  BY <1>3, <1>4, FirstIsMember
<1>6. SumOver(w, r) = 0
  BY <1>1, <1>2, <1>5
<1>7. SumOver(w, s) = w[FirstOf(s)] + SumOver(w, r)
  BY <1>3, <1>4, SumStep
<1> QED
  BY <1>3, <1>5, <1>6, <1>7

(* Weights of at most one add up to less than there are elements, when one *)
(* of them is zero.                                                        *)
LEMMA SumOfAtMostOnes ==
    ASSUME NEW w, NEW S, IsFiniteSet(S), \A x \in S : w[x] \in Nat /\ w[x] <= 1
    PROVE  SumOver(w, S) <= Cardinality(S)
<1> DEFINE F == {s \in SUBSET S : ~ (SumOver(w, s) <= Cardinality(s))}
<1> SUFFICES ASSUME F # {}
             PROVE  FALSE
  OBVIOUS
<1>1. /\ F \in SUBSET SUBSET S
      /\ \A s : s \in F <=> s \in SUBSET S /\ ~ (SumOver(w, s) <= Cardinality(s))
  OBVIOUS
<1> HIDE DEF F
<1>2. PICK s \in F : \A t \in F : ~ (t \subseteq s /\ t # s)
  BY <1>1, SmallestOf
<1> DEFINE r == s \ {FirstOf(s)}
<1>3. s \in SUBSET S /\ IsFiniteSet(s) /\ ~ (SumOver(w, s) <= Cardinality(s))
  BY <1>1, FS_Subset
<1>4. s # {}
  <2>1. s = {} => SumOver(w, s) = 0 /\ Cardinality(s) = 0
    BY <1>3, SumStep, FS_EmptySet
  <2> QED
    BY <2>1, <1>3
<1>5. FirstOf(s) \in s /\ FirstOf(s) \in S /\ r \in SUBSET S /\ r \subseteq s /\ r # s
  BY <1>3, <1>4, FirstIsMember
<1>6. SumOver(w, r) <= Cardinality(r)
  BY <1>1, <1>2, <1>5
<1>7. SumOver(w, s) = w[FirstOf(s)] + SumOver(w, r)
  BY <1>3, <1>4, SumStep
<1>8. Cardinality(r) = Cardinality(s) - 1 /\ Cardinality(s) \in Nat
  BY <1>3, <1>5, FS_RemoveElement, FS_CardinalityType
<1>9. SumOver(w, r) \in Nat /\ w[FirstOf(s)] \in Nat /\ w[FirstOf(s)] <= 1
  <2>1. IsFiniteSet(r) /\ \A x \in r : w[x] \in Nat
    BY <1>5, FS_Subset
  <2> QED
    BY <2>1, <1>5, SumType
<1> QED
  BY <1>3, <1>6, <1>7, <1>8, <1>9

LEMMA SumOfOnesWithout ==
    ASSUME NEW w, NEW S, IsFiniteSet(S), \A x \in S : w[x] \in Nat /\ w[x] <= 1,
           NEW x \in S, w[x] = 0
    PROVE  SumOver(w, S) < Cardinality(S)
<1>1. SumOver(w, S) = w[x] + SumOver(w, S \ {x})
  BY SumTake
<1>2. IsFiniteSet(S \ {x}) /\ \A y \in S \ {x} : w[y] \in Nat /\ w[y] <= 1
  BY FS_Subset
<1>3. SumOver(w, S \ {x}) <= Cardinality(S \ {x}) /\ SumOver(w, S \ {x}) \in Nat
  BY <1>2, SumOfAtMostOnes, SumType
<1>4. Cardinality(S \ {x}) = Cardinality(S) - 1 /\ Cardinality(S) \in Nat
  BY FS_RemoveElement, FS_CardinalityType
<1> QED
  BY <1>1, <1>3, <1>4
==============================================================================
