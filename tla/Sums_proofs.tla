---------------------------- MODULE Sums_proofs -----------------------------
(***************************************************************************)
(* The laws of sums over finite sets, of which the proofs about amounts    *)
(* are made: a sum does not depend on the order of its elements, an        *)
(* element may be taken out of it, and what changes at one element changes *)
(* it by as much.  And a fold over a finite set is what its recursion      *)
(* says, with any function for its step.                                   *)
(***************************************************************************)
EXTENDS Sums, FiniteSetTheorems, WellFoundedInduction, TLAPS

LEMMA Smallest ==
    ASSUME NEW S \in SUBSET Nat, S # {}
    PROVE  \E m \in S : \A n \in S : m <= n
<1>1. PICK m \in S : \A n \in S : ~(<<n, m>> \in OpToRel(<, Nat))
  BY NatLessThanWellFounded, WFMin
<1>2. ASSUME NEW n \in S PROVE m <= n
  <2>1. ~(<<n, m>> \in OpToRel(<, Nat))
    BY <1>1
  <2>2. ~(n < m)
    BY <2>1 DEF OpToRel
  <2> QED  BY <2>2
<1> QED  BY <1>2

-----------------------------------------------------------------------------
(* What SumOver computes: the sum of a function over a finite set takes the *)
(* elements in an order that nobody knows, and does not depend on it.  The  *)
(* facts are proved by a smallest counterexample: a set of the fewest       *)
(* elements for which one of them fails.                                    *)

Chosen(s) == CHOOSE x \in s : TRUE

(* The recursive function by which the sum over S is defined.              *)
IsIter(g, f, S) ==
    g = [s \in SUBSET S |-> IF s = {} THEN 0 ELSE f[Chosen(s)] + g[s \ {Chosen(s)}]]

LEMMA ChosenIsElement == \A s : s # {} => Chosen(s) \in s
BY DEF Chosen

LEMMA SumIsIter ==
    ASSUME NEW f, NEW S
    PROVE  SumOver(f, S) = (CHOOSE g : IsIter(g, f, S))[S]
BY DEF SumOver, MapThenSumSet, MapThenFoldSet, IsIter, Chosen

(* Of the subsets of a finite set for which something holds, one has the    *)
(* fewest elements.                                                        *)
LEMMA SmallestSubset ==
    ASSUME NEW S, IsFiniteSet(S), NEW Failing \in SUBSET (SUBSET S), Failing # {}
    PROVE  \E T \in Failing : \A U \in SUBSET T : U # T => U \notin Failing
<1> DEFINE K == {Cardinality(T) : T \in Failing}
<1>1. \A T \in SUBSET S : IsFiniteSet(T) /\ Cardinality(T) \in Nat
  BY FS_Subset, FS_CardinalityType
<1>2. K \in SUBSET Nat /\ K # {}
  BY <1>1
<1>3. PICK n \in K : \A m \in K : n <= m
  BY <1>2, Smallest
<1>4. PICK T \in Failing : Cardinality(T) = n
  BY <1>3
<1>5. ASSUME NEW U \in SUBSET T, U # T, U \in Failing PROVE FALSE
  <2>1. Cardinality(U) <= Cardinality(T) /\ Cardinality(U) # Cardinality(T)
    BY <1>1, <1>5, FS_Subset
  <2>2. n <= Cardinality(U)
    BY <1>3, <1>5
  <2> QED  BY <1>1, <1>4, <1>5, <2>1, <2>2
<1> QED  BY <1>4, <1>5

LEMMA IterStep ==
    ASSUME NEW f, NEW S, NEW g, IsIter(g, f, S), NEW s \in SUBSET S
    PROVE  /\ s = {} => g[s] = 0
           /\ s # {} => g[s] = f[Chosen(s)] + g[s \ {Chosen(s)}]
BY DEF IsIter

LEMMA IterUnique ==
    ASSUME NEW S, IsFiniteSet(S), NEW f, NEW A, NEW B, S \subseteq A, S \subseteq B,
           NEW g, IsIter(g, f, A), NEW h, IsIter(h, f, B)
    PROVE  \A s \in SUBSET S : g[s] = h[s]
<1> DEFINE Failing == {s \in SUBSET S : g[s] # h[s]}
<1>1. SUFFICES ASSUME Failing # {} PROVE FALSE
  OBVIOUS
<1>subsets. Failing \in SUBSET (SUBSET S)
  OBVIOUS
<1>smallest. \E T \in Failing : \A U \in SUBSET T : U # T => U \notin Failing
  <2> HIDE DEF Failing
  <2> QED  BY <1>1, <1>subsets, SmallestSubset
<1>2. PICK s \in Failing : \A u \in SUBSET s : u # s => u \notin Failing
  BY <1>smallest
<1>3. s # {}
  BY <1>2, IterStep
<1>4. s \ {Chosen(s)} \in SUBSET s /\ s \ {Chosen(s)} # s
  BY <1>3, ChosenIsElement
<1>5. g[s \ {Chosen(s)}] = h[s \ {Chosen(s)}]
  BY <1>2, <1>4
<1>6. g[s] = f[Chosen(s)] + g[s \ {Chosen(s)}] /\ h[s] = f[Chosen(s)] + h[s \ {Chosen(s)}]
  <2>1. s \in SUBSET A /\ s \in SUBSET B
    OBVIOUS
  <2>2. g[s] = f[Chosen(s)] + g[s \ {Chosen(s)}]
    BY <1>3, <2>1, IterStep
  <2>3. h[s] = f[Chosen(s)] + h[s \ {Chosen(s)}]
    BY <1>3, <2>1, IterStep
  <2> QED  BY <2>2, <2>3
<1> QED  BY <1>2, <1>5, <1>6

(* A function of the subsets of a set is one of the subsets of its subsets. *)
LEMMA IterRestricted ==
    ASSUME NEW f, NEW S, NEW g, IsIter(g, f, S), NEW T \in SUBSET S
    PROVE  IsIter([s \in SUBSET T |-> g[s]], f, T)
<1> DEFINE h == [s \in SUBSET T |-> g[s]]
<1>1. \A s \in SUBSET T : s # {} => s \ {Chosen(s)} \in SUBSET T
  OBVIOUS
<1>2. \A s \in SUBSET T :
         h[s] = IF s = {} THEN 0 ELSE f[Chosen(s)] + h[s \ {Chosen(s)}]
  <2> TAKE s \in SUBSET T
  <2>1. g[s] = IF s = {} THEN 0 ELSE f[Chosen(s)] + g[s \ {Chosen(s)}]
    <3>1. s \in SUBSET S
      OBVIOUS
    <3> QED  BY <3>1 DEF IsIter
  <2> QED  BY <1>1, <2>1
<1> QED  BY <1>2 DEF IsIter

LEMMA IterExists ==
    ASSUME NEW S, IsFiniteSet(S), NEW f
    PROVE  \E g : IsIter(g, f, S)
<1> DEFINE Failing == {T \in SUBSET S : ~\E g : IsIter(g, f, T)}
<1>1. SUFFICES ASSUME Failing # {} PROVE FALSE
  OBVIOUS
<1>subsets. Failing \in SUBSET (SUBSET S)
  OBVIOUS
<1>smallest. \E T \in Failing : \A U \in SUBSET T : U # T => U \notin Failing
  <2> HIDE DEF Failing
  <2> QED  BY <1>1, <1>subsets, SmallestSubset
<1>2. PICK T \in Failing : \A U \in SUBSET T : U # T => U \notin Failing
  BY <1>smallest
<1> DEFINE I(U) == CHOOSE h : IsIter(h, f, U)
           Value(s) == IF s = {} THEN 0 ELSE f[Chosen(s)] + I(s \ {Chosen(s)})[s \ {Chosen(s)}]
           g == [s \in SUBSET T |-> Value(s)]
<1>3. \A U \in SUBSET T : U # T => IsIter(I(U), f, U)
  BY <1>2
<1>4. ASSUME NEW s \in SUBSET T, s # T PROVE I(s)[s] = Value(s)
  <2>1. IsIter(I(s), f, s)
    BY <1>3, <1>4
  <2>2. CASE s = {}
    BY <2>1, <2>2, IterStep
  <2>3. CASE s # {}
    <3> DEFINE u == s \ {Chosen(s)}
    <3>1. u \in SUBSET s /\ u # T /\ u \in SUBSET T
      BY <1>4, <2>3, ChosenIsElement
    <3>2. IsIter(I(u), f, u)
      BY <1>3, <3>1
    <3>3. IsFiniteSet(u)
      BY <3>1, FS_Subset
    <3>4. I(s)[u] = I(u)[u]
      <4> HIDE DEF u, I
      <4> QED  BY <2>1, <3>1, <3>2, <3>3, IterUnique
    <3>5. I(s)[s] = f[Chosen(s)] + I(s)[u]
      BY <2>1, <2>3, IterStep
    <3> QED  BY <2>3, <3>4, <3>5
  <2> QED  BY <2>2, <2>3
<1> HIDE DEF I
<1>5. ASSUME NEW s \in SUBSET T, s # {}
      PROVE  Value(s) = f[Chosen(s)] + g[s \ {Chosen(s)}]
  <2>1. s \ {Chosen(s)} \in SUBSET T /\ s \ {Chosen(s)} # T
    BY <1>5, ChosenIsElement
  <2> QED  BY <1>4, <1>5, <2>1
<1>6. g = [s \in SUBSET T |-> IF s = {} THEN 0 ELSE f[Chosen(s)] + g[s \ {Chosen(s)}]]
  BY <1>5
<1>7. IsIter(g, f, T)
  BY <1>6 DEF IsIter
<1> QED  BY <1>2, <1>7

(* Whichever function satisfies the recursion has the sum.                 *)
LEMMA IterIsSum ==
    ASSUME NEW S, IsFiniteSet(S), NEW f, NEW A, S \subseteq A, NEW g, IsIter(g, f, A)
    PROVE  g[S] = SumOver(f, S)
<1> DEFINE chosen == CHOOSE h : IsIter(h, f, S)
<1>1. IsIter(chosen, f, S)
  BY IterExists
<1>2. SumOver(f, S) = chosen[S]
  BY SumIsIter
<1> HIDE DEF chosen
<1>3. g[S] = chosen[S]
  <2>1. S \subseteq S /\ S \in SUBSET S
    OBVIOUS
  <2>2. \A s \in SUBSET S : g[s] = chosen[s]
    BY <1>1, <2>1, IterUnique
  <2> QED  BY <2>1, <2>2
<1> QED  BY <1>2, <1>3

LEMMA SumEmpty ==
    ASSUME NEW f
    PROVE  SumOver(f, {}) = 0
<1>1. IsFiniteSet({})
  BY FS_EmptySet
<1>2. PICK g : IsIter(g, f, {})
  BY <1>1, IterExists
<1>3. g[{}] = 0
  BY <1>2, IterStep
<1> QED  BY <1>1, <1>2, <1>3, IterIsSum

LEMMA SumChosen ==
    ASSUME NEW S, IsFiniteSet(S), S # {}, NEW f
    PROVE  SumOver(f, S) = f[Chosen(S)] + SumOver(f, S \ {Chosen(S)})
<1>1. PICK g : IsIter(g, f, S)
  BY IterExists
<1>2. IsFiniteSet(S \ {Chosen(S)})
  BY FS_Subset
<1>3. g[S] = SumOver(f, S) /\ g[S \ {Chosen(S)}] = SumOver(f, S \ {Chosen(S)})
  BY <1>1, <1>2, IterIsSum
<1>4. g[S] = f[Chosen(S)] + g[S \ {Chosen(S)}]
  <2>1. S \in SUBSET S
    OBVIOUS
  <2> QED  BY <1>1, <2>1, IterStep
<1> QED  BY <1>3, <1>4

(* Only the values on the set matter.                                      *)
LEMMA SumSame ==
    ASSUME NEW S, IsFiniteSet(S), NEW f, NEW h, \A x \in S : f[x] = h[x]
    PROVE  SumOver(f, S) = SumOver(h, S)
<1>1. PICK g : IsIter(g, f, S)
  BY IterExists
<1>2. \A s \in SUBSET S : s # {} => f[Chosen(s)] = h[Chosen(s)]
  BY ChosenIsElement
<1>3. IsIter(g, h, S)
  BY <1>1, <1>2 DEF IsIter
<1> QED  BY <1>1, <1>3, IterIsSum

LEMMA SumType ==
    ASSUME NEW S, IsFiniteSet(S), NEW f, \A x \in S : f[x] \in Int
    PROVE  SumOver(f, S) \in Int
<1> DEFINE Failing == {T \in SUBSET S : SumOver(f, T) \notin Int}
<1>1. SUFFICES ASSUME Failing # {} PROVE FALSE
  OBVIOUS
<1>subsets. Failing \in SUBSET (SUBSET S)
  OBVIOUS
<1>smallest. \E T \in Failing : \A U \in SUBSET T : U # T => U \notin Failing
  <2> HIDE DEF Failing
  <2> QED  BY <1>1, <1>subsets, SmallestSubset
<1>2. PICK T \in Failing : \A U \in SUBSET T : U # T => U \notin Failing
  BY <1>smallest
<1>3. T # {}
  <2>1. SumOver(f, {}) \in Int
    BY SumEmpty
  <2>2. SumOver(f, T) \notin Int
    OBVIOUS
  <2> QED  BY <2>1, <2>2, Zenon
<1>4. Chosen(T) \in T /\ IsFiniteSet(T)
  BY <1>2, <1>3, ChosenIsElement, FS_Subset
<1>5. SumOver(f, T \ {Chosen(T)}) \in Int
  BY <1>2, <1>4
<1>6. SumOver(f, T) = f[Chosen(T)] + SumOver(f, T \ {Chosen(T)})
  BY <1>3, <1>4, SumChosen
<1>7. f[Chosen(T)] \in Int
  BY <1>4
<1>8. SumOver(f, T) \in Int
  BY <1>5, <1>6, <1>7
<1> QED  BY <1>2, <1>8

LEMMA SumOfZeros ==
    ASSUME NEW S, IsFiniteSet(S), NEW f, \A x \in S : f[x] = 0
    PROVE  SumOver(f, S) = 0
<1> DEFINE Failing == {T \in SUBSET S : SumOver(f, T) # 0}
<1>1. SUFFICES ASSUME Failing # {} PROVE FALSE
  OBVIOUS
<1>2. Failing \in SUBSET (SUBSET S)
  OBVIOUS
<1>3. \E T \in Failing : \A U \in SUBSET T : U # T => U \notin Failing
  <2> HIDE DEF Failing
  <2> QED  BY <1>1, <1>2, SmallestSubset
<1>4. PICK T \in Failing : \A U \in SUBSET T : U # T => U \notin Failing
  BY <1>3
<1>5. T # {}
  <2>1. SumOver(f, {}) = 0
    BY SumEmpty
  <2>2. SumOver(f, T) # 0
    OBVIOUS
  <2> QED  BY <2>1, <2>2, Zenon
<1>6. Chosen(T) \in T /\ IsFiniteSet(T) /\ T \in SUBSET S
  BY <1>5, ChosenIsElement, FS_Subset
<1>7. SumOver(f, T \ {Chosen(T)}) = 0
  BY <1>4, <1>6
<1>8. SumOver(f, T) = f[Chosen(T)] + SumOver(f, T \ {Chosen(T)})
  BY <1>5, <1>6, SumChosen
<1>9. f[Chosen(T)] = 0
  BY <1>6
<1>10. SumOver(f, T) = 0
  BY <1>7, <1>8, <1>9
<1> QED  BY <1>10

LEMMA SumNotNegative ==
    ASSUME NEW S, IsFiniteSet(S), NEW f, \A x \in S : f[x] \in Nat
    PROVE  SumOver(f, S) \in Nat
<1> DEFINE Failing == {T \in SUBSET S : SumOver(f, T) \notin Nat}
<1>1. SUFFICES ASSUME Failing # {} PROVE FALSE
  OBVIOUS
<1>2. Failing \in SUBSET (SUBSET S)
  OBVIOUS
<1>3. \E T \in Failing : \A U \in SUBSET T : U # T => U \notin Failing
  <2> HIDE DEF Failing
  <2> QED  BY <1>1, <1>2, SmallestSubset
<1>4. PICK T \in Failing : \A U \in SUBSET T : U # T => U \notin Failing
  BY <1>3
<1>5. T # {}
  <2>1. SumOver(f, {}) = 0
    BY SumEmpty
  <2>2. SumOver(f, T) \notin Nat
    OBVIOUS
  <2> QED  BY <2>1, <2>2
<1>6. Chosen(T) \in T /\ IsFiniteSet(T) /\ T \in SUBSET S
  BY <1>5, ChosenIsElement, FS_Subset
<1>7. SumOver(f, T \ {Chosen(T)}) \in Nat
  BY <1>4, <1>6
<1>8. SumOver(f, T) = f[Chosen(T)] + SumOver(f, T \ {Chosen(T)})
  BY <1>5, <1>6, SumChosen
<1>9. f[Chosen(T)] \in Nat
  BY <1>6
<1>10. SumOver(f, T) \in Nat
  BY <1>7, <1>8, <1>9
<1> QED  BY <1>10

(* Any element may be taken first.                                         *)
LEMMA SumRemove ==
    ASSUME NEW S, IsFiniteSet(S), NEW f, \A x \in S : f[x] \in Int, NEW e \in S
    PROVE  SumOver(f, S) = f[e] + SumOver(f, S \ {e})
<1> DEFINE Failing == {T \in SUBSET S : \E x \in T : SumOver(f, T) # f[x] + SumOver(f, T \ {x})}
<1>1. SUFFICES ASSUME Failing # {} PROVE FALSE
  OBVIOUS
<1>subsets. Failing \in SUBSET (SUBSET S)
  OBVIOUS
<1>smallest. \E T \in Failing : \A U \in SUBSET T : U # T => U \notin Failing
  <2> HIDE DEF Failing
  <2> QED  BY <1>1, <1>subsets, SmallestSubset
<1>2. PICK T \in Failing : \A U \in SUBSET T : U # T => U \notin Failing
  BY <1>smallest
<1>3. PICK x \in T : SumOver(f, T) # f[x] + SumOver(f, T \ {x})
  BY <1>2
<1> DEFINE c == Chosen(T)
<1>4. c \in T /\ IsFiniteSet(T) /\ T \in SUBSET S
  BY <1>2, <1>3, ChosenIsElement, FS_Subset
<1>5. SumOver(f, T) = f[c] + SumOver(f, T \ {c})
  BY <1>3, <1>4, SumChosen
<1>6. c # x
  BY <1>3, <1>5
<1> HIDE DEF c
<1>7. SumOver(f, T \ {c}) = f[x] + SumOver(f, (T \ {c}) \ {x})
  BY <1>2, <1>3, <1>4, <1>6
<1>8. SumOver(f, T \ {x}) = f[c] + SumOver(f, (T \ {x}) \ {c})
  BY <1>2, <1>3, <1>4, <1>6
<1>9. (T \ {c}) \ {x} = (T \ {x}) \ {c}
  OBVIOUS
<1>10. f[c] \in Int /\ f[x] \in Int /\ SumOver(f, (T \ {x}) \ {c}) \in Int
  <2>1. IsFiniteSet((T \ {x}) \ {c})
    BY <1>4, FS_Subset
  <2> QED  BY <2>1, <1>3, <1>4, SumType
<1>11. SumOver(f, T) = f[x] + SumOver(f, T \ {x})
  <2> DEFINE r == SumOver(f, (T \ {x}) \ {c})
  <2>1. SumOver(f, T \ {c}) = f[x] + r /\ SumOver(f, T \ {x}) = f[c] + r /\ r \in Int
    BY <1>7, <1>8, <1>9, <1>10
  <2>2. SumOver(f, T) = f[c] + SumOver(f, T \ {c})
    BY <1>5 DEF c
  <2> HIDE DEF r
  <2> QED  BY <1>10, <2>1, <2>2
<1> QED  BY <1>3, <1>11

(* A function that is changed at one element.                              *)
LEMMA SumChange ==
    ASSUME NEW S, IsFiniteSet(S), NEW f, \A x \in S : f[x] \in Int, NEW e \in S,
           NEW h, h[e] \in Int, \A x \in S \ {e} : h[x] = f[x]
    PROVE  SumOver(h, S) = SumOver(f, S) - f[e] + h[e]
<1>1. IsFiniteSet(S \ {e})
  BY FS_Subset
<1>2. SumOver(f, S) = f[e] + SumOver(f, S \ {e}) /\ SumOver(h, S) = h[e] + SumOver(h, S \ {e})
  BY SumRemove
<1>3. SumOver(f, S \ {e}) = SumOver(h, S \ {e}) /\ SumOver(f, S \ {e}) \in Int
  BY <1>1, SumSame, SumType
<1> QED  BY <1>2, <1>3

-----------------------------------------------------------------------------
(* A fold over a set: its elements in the order of Chosen, from base on.   *)

IsFold(g, step, base, S) ==
    g = [s \in SUBSET S |-> IF s = {} THEN base ELSE step[<<Chosen(s), g[s \ {Chosen(s)}]>>]]

LEMMA FoldStep ==
    ASSUME NEW step, NEW base, NEW S, NEW g, IsFold(g, step, base, S), NEW s \in SUBSET S
    PROVE  s # {} => g[s] = step[<<Chosen(s), g[s \ {Chosen(s)}]>>]
BY DEF IsFold

LEMMA FoldEmpty ==
    ASSUME NEW step, NEW base, NEW S, NEW g, IsFold(g, step, base, S)
    PROVE  g[{}] = base
BY DEF IsFold

LEMMA FoldUnique ==
    ASSUME NEW S, IsFiniteSet(S), NEW step, NEW base, NEW A, NEW B, S \subseteq A, S \subseteq B,
           NEW g, IsFold(g, step, base, A), NEW h, IsFold(h, step, base, B)
    PROVE  \A s \in SUBSET S : g[s] = h[s]
<1> DEFINE Failing == {s \in SUBSET S : g[s] # h[s]}
<1>1. SUFFICES ASSUME Failing # {} PROVE FALSE
  OBVIOUS
<1>subsets. Failing \in SUBSET (SUBSET S)
  OBVIOUS
<1>smallest. \E T \in Failing : \A U \in SUBSET T : U # T => U \notin Failing
  <2> HIDE DEF Failing
  <2> QED  BY <1>1, <1>subsets, SmallestSubset
<1>2. PICK s \in Failing : \A u \in SUBSET s : u # s => u \notin Failing
  BY <1>smallest
<1>3. s # {}
  <2>1. s \in SUBSET A /\ s \in SUBSET B
    OBVIOUS
  <2>2. g[{}] = base
    BY FoldEmpty
  <2>3. h[{}] = base
    BY FoldEmpty
  <2> QED  BY <1>2, <2>2, <2>3
<1>4. s \ {Chosen(s)} \in SUBSET s /\ s \ {Chosen(s)} # s
  BY <1>3, ChosenIsElement
<1>5. g[s \ {Chosen(s)}] = h[s \ {Chosen(s)}]
  BY <1>2, <1>4
<1>6. /\ g[s] = step[<<Chosen(s), g[s \ {Chosen(s)}]>>]
      /\ h[s] = step[<<Chosen(s), h[s \ {Chosen(s)}]>>]
  <2>1. s \in SUBSET A /\ s \in SUBSET B
    OBVIOUS
  <2>2. g[s] = step[<<Chosen(s), g[s \ {Chosen(s)}]>>]
    BY <1>3, <2>1, FoldStep
  <2>3. h[s] = step[<<Chosen(s), h[s \ {Chosen(s)}]>>]
    BY <1>3, <2>1, FoldStep
  <2> QED  BY <2>2, <2>3
<1> QED  BY <1>2, <1>5, <1>6

LEMMA FoldExists ==
    ASSUME NEW S, IsFiniteSet(S), NEW step, NEW base
    PROVE  \E g : IsFold(g, step, base, S)
<1> DEFINE Failing == {T \in SUBSET S : ~\E g : IsFold(g, step, base, T)}
<1>1. SUFFICES ASSUME Failing # {} PROVE FALSE
  OBVIOUS
<1>subsets. Failing \in SUBSET (SUBSET S)
  OBVIOUS
<1>smallest. \E T \in Failing : \A U \in SUBSET T : U # T => U \notin Failing
  <2> HIDE DEF Failing
  <2> QED  BY <1>1, <1>subsets, SmallestSubset
<1>2. PICK T \in Failing : \A U \in SUBSET T : U # T => U \notin Failing
  BY <1>smallest
<1> DEFINE I(U) == CHOOSE h : IsFold(h, step, base, U)
           Value(s) == IF s = {} THEN base
                       ELSE step[<<Chosen(s), I(s \ {Chosen(s)})[s \ {Chosen(s)}]>>]
           g == [s \in SUBSET T |-> Value(s)]
<1>3. \A U \in SUBSET T : U # T => IsFold(I(U), step, base, U)
  BY <1>2
<1>4. ASSUME NEW s \in SUBSET T, s # T PROVE I(s)[s] = Value(s)
  <2>1. IsFold(I(s), step, base, s)
    BY <1>3, <1>4
  <2>2. CASE s = {}
    <3> HIDE DEF I
    <3>1. I(s)[{}] = base
      BY <2>1, FoldEmpty
    <3> QED  BY <2>2, <3>1
  <2>3. CASE s # {}
    <3> DEFINE u == s \ {Chosen(s)}
    <3>1. u \in SUBSET s /\ u # T /\ u \in SUBSET T
      BY <1>4, <2>3, ChosenIsElement
    <3>2. IsFold(I(u), step, base, u)
      BY <1>3, <3>1
    <3>3. IsFiniteSet(u)
      BY <3>1, FS_Subset
    <3>4. I(s)[u] = I(u)[u]
      <4> HIDE DEF u, I
      <4> QED  BY <2>1, <3>1, <3>2, <3>3, FoldUnique
    <3>5. I(s)[s] = step[<<Chosen(s), I(s)[u]>>]
      BY <2>1, <2>3, FoldStep
    <3> QED  BY <2>3, <3>4, <3>5
  <2> QED  BY <2>2, <2>3
<1> HIDE DEF I
<1>5. ASSUME NEW s \in SUBSET T, s # {}
      PROVE  Value(s) = step[<<Chosen(s), g[s \ {Chosen(s)}]>>]
  <2>1. s \ {Chosen(s)} \in SUBSET T /\ s \ {Chosen(s)} # T
    BY <1>5, ChosenIsElement
  <2> QED  BY <1>4, <1>5, <2>1
<1>6. g = [s \in SUBSET T |-> IF s = {} THEN base ELSE step[<<Chosen(s), g[s \ {Chosen(s)}]>>]]
  BY <1>5
<1>7. IsFold(g, step, base, T)
  BY <1>6 DEF IsFold
<1> QED  BY <1>2, <1>7

(* A step that stays in T keeps the fold in T.                             *)
LEMMA FoldType ==
    ASSUME NEW S, IsFiniteSet(S), NEW T, NEW base \in T, NEW step \in [S \X T -> T],
           NEW g, IsFold(g, step, base, S), NEW s \in SUBSET S
    PROVE  g[s] \in T
<1> DEFINE Failing == {u \in SUBSET S : g[u] \notin T}
<1>1. SUFFICES ASSUME Failing # {} PROVE FALSE
  OBVIOUS
<1>subsets. Failing \in SUBSET (SUBSET S)
  OBVIOUS
<1>smallest. \E u \in Failing : \A v \in SUBSET u : v # u => v \notin Failing
  <2> HIDE DEF Failing
  <2> QED  BY <1>1, <1>subsets, SmallestSubset
<1>2. PICK u \in Failing : \A v \in SUBSET u : v # u => v \notin Failing
  BY <1>smallest
<1>3. u # {}
  <2>1. g[{}] = base
    BY FoldEmpty
  <2> QED  BY <1>2, <2>1
<1>4. Chosen(u) \in S /\ u \ {Chosen(u)} \in SUBSET u /\ u \ {Chosen(u)} # u
  BY <1>2, <1>3, ChosenIsElement
<1>5. g[u \ {Chosen(u)}] \in T
  BY <1>2, <1>4
<1>6. g[u] = step[<<Chosen(u), g[u \ {Chosen(u)}]>>]
  BY <1>3, FoldStep
<1> QED  BY <1>2, <1>4, <1>5, <1>6

(* A sum may be taken in two parts.                                        *)
LEMMA SumSplit ==
    ASSUME NEW S, IsFiniteSet(S), NEW f, \A x \in S : f[x] \in Int, NEW A \in SUBSET S
    PROVE  SumOver(f, S) = SumOver(f, A) + SumOver(f, S \ A)
<1> DEFINE Failing == {T \in SUBSET S : SumOver(f, S) # SumOver(f, T) + SumOver(f, S \ T)}
<1>1. SUFFICES ASSUME Failing # {} PROVE FALSE
  OBVIOUS
<1>2. Failing \in SUBSET (SUBSET S)
  OBVIOUS
<1>3. PICK T \in Failing : \A U \in SUBSET T : U # T => U \notin Failing
  <2> HIDE DEF Failing
  <2> QED  BY <1>1, <1>2, SmallestSubset
<1>4. \A U \in SUBSET S : IsFiniteSet(U) /\ SumOver(f, U) \in Int
  <2> SUFFICES ASSUME NEW U \in SUBSET S PROVE IsFiniteSet(U) /\ SumOver(f, U) \in Int
    OBVIOUS
  <2>1. IsFiniteSet(U)
    BY FS_Subset
  <2> QED  BY <2>1, SumType
<1>5. T # {}
  <2>1. SumOver(f, {}) = 0 /\ S \ {} = S
    BY SumEmpty
  <2>2. SumOver(f, S) = SumOver(f, {}) + SumOver(f, S \ {})
    BY <1>4, <2>1
  <2> QED  BY <2>2
<1> DEFINE c == Chosen(T)
           U == T \ {c}
<1>6. c \in T /\ U \in SUBSET T /\ U # T /\ U \in SUBSET S /\ T \in SUBSET S
  BY <1>5, ChosenIsElement
<1>7. SumOver(f, S) = SumOver(f, U) + SumOver(f, S \ U)
  BY <1>3, <1>6
<1> HIDE DEF c
<1>8. SumOver(f, T) = f[c] + SumOver(f, U)
  BY <1>4, <1>6, SumRemove
<1>9. SumOver(f, S \ U) = f[c] + SumOver(f, S \ T)
  <2>1. c \in S \ U /\ S \ U \in SUBSET S /\ IsFiniteSet(S \ U)
    BY <1>4, <1>6
  <2>2. SumOver(f, S \ U) = f[c] + SumOver(f, (S \ U) \ {c})
    BY <2>1, SumRemove
  <2>3. (S \ U) \ {c} = S \ T
    BY <1>6
  <2> QED  BY <2>2, <2>3
<1>10. f[c] \in Int /\ SumOver(f, U) \in Int /\ SumOver(f, S \ T) \in Int
  <2>1. S \ T \in SUBSET S
    OBVIOUS
  <2> QED  BY <1>4, <1>6, <2>1
<1>11. SumOver(f, S) = SumOver(f, T) + SumOver(f, S \ T)
  <2> HIDE DEF U
  <2> QED  BY <1>7, <1>8, <1>9, <1>10
<1> QED  BY <1>3, <1>11

LEMMA SumAtMost ==
    ASSUME NEW S, IsFiniteSet(S), NEW f, NEW h,
           \A x \in S : f[x] \in Int /\ h[x] \in Int /\ f[x] <= h[x]
    PROVE  SumOver(f, S) <= SumOver(h, S)
<1> DEFINE Failing == {T \in SUBSET S : ~(SumOver(f, T) <= SumOver(h, T))}
<1>1. SUFFICES ASSUME Failing # {} PROVE FALSE
  OBVIOUS
<1>2. Failing \in SUBSET (SUBSET S)
  OBVIOUS
<1>3. PICK T \in Failing : \A U \in SUBSET T : U # T => U \notin Failing
  <2> HIDE DEF Failing
  <2> QED  BY <1>1, <1>2, SmallestSubset
<1>4. \A U \in SUBSET S : IsFiniteSet(U) /\ SumOver(f, U) \in Int /\ SumOver(h, U) \in Int
  <2> SUFFICES ASSUME NEW U \in SUBSET S
               PROVE  IsFiniteSet(U) /\ SumOver(f, U) \in Int /\ SumOver(h, U) \in Int
    OBVIOUS
  <2>1. IsFiniteSet(U)
    BY FS_Subset
  <2> QED  BY <2>1, SumType
<1>5. T # {}
  <2>1. SumOver(f, {}) = 0 /\ SumOver(h, {}) = 0
    BY SumEmpty
  <2>2. SumOver(f, {}) <= SumOver(h, {})
    BY <2>1
  <2> QED  BY <2>2
<1> DEFINE c == Chosen(T)
           U == T \ {c}
<1>6. c \in T /\ U \in SUBSET T /\ U # T /\ U \in SUBSET S /\ T \in SUBSET S
  BY <1>5, ChosenIsElement
<1>7. SumOver(f, U) <= SumOver(h, U)
  BY <1>3, <1>6
<1> HIDE DEF c
<1>8. SumOver(f, T) = f[c] + SumOver(f, U) /\ SumOver(h, T) = h[c] + SumOver(h, U)
  BY <1>4, <1>6, SumRemove
<1>9. f[c] \in Int /\ h[c] \in Int /\ f[c] <= h[c]
  BY <1>6
<1>10. SumOver(f, U) \in Int /\ SumOver(h, U) \in Int
  BY <1>4, <1>6
<1>11. SumOver(f, T) <= SumOver(h, T)
  <2> HIDE DEF U
  <2> QED  BY <1>7, <1>8, <1>9, <1>10
<1> QED  BY <1>3, <1>11

(* A sum by groups: each group of the elements has a bound of its own.     *)
LEMMA SumByGroups ==
    ASSUME NEW I, IsFiniteSet(I), NEW S, IsFiniteSet(S), NEW group, \A x \in S : group[x] \in I,
           NEW f, \A x \in S : f[x] \in Int, NEW h, \A i \in I : h[i] \in Int,
           \A i \in I : SumOver(f, {x \in S : group[x] = i}) <= h[i]
    PROVE  SumOver(f, S) <= SumOver(h, I)
<1> DEFINE Of(J) == {x \in S : group[x] \in J}
           Failing == {J \in SUBSET I : ~(SumOver(f, Of(J)) <= SumOver(h, J))}
<1>1. SUFFICES ASSUME Failing # {} PROVE FALSE
  <2>1. ~(SumOver(f, Of(I)) <= SumOver(h, I)) => I \in Failing
    OBVIOUS
  <2>2. Of(I) = S
    OBVIOUS
  <2> QED  BY <2>1, <2>2
<1>2. Failing \in SUBSET (SUBSET I)
  OBVIOUS
<1>3. PICK J \in Failing : \A U \in SUBSET J : U # J => U \notin Failing
  <2> HIDE DEF Failing
  <2> QED  BY <1>1, <1>2, SmallestSubset
<1>4. \A U \in SUBSET S : IsFiniteSet(U) /\ SumOver(f, U) \in Int
  <2> SUFFICES ASSUME NEW U \in SUBSET S PROVE IsFiniteSet(U) /\ SumOver(f, U) \in Int
    OBVIOUS
  <2>1. IsFiniteSet(U)
    BY FS_Subset
  <2> QED  BY <2>1, SumType
<1>5. \A U \in SUBSET I : IsFiniteSet(U) /\ SumOver(h, U) \in Int
  <2> SUFFICES ASSUME NEW U \in SUBSET I PROVE IsFiniteSet(U) /\ SumOver(h, U) \in Int
    OBVIOUS
  <2>1. IsFiniteSet(U)
    BY FS_Subset
  <2> QED  BY <2>1, SumType
<1>6. J # {}
  <2>1. SumOver(f, {}) = 0 /\ SumOver(h, {}) = 0
    BY SumEmpty
  <2>2. Of({}) = {}
    OBVIOUS
  <2>3. SumOver(f, Of({})) <= SumOver(h, {})
    BY <2>1, <2>2
  <2> QED  BY <2>3
<1> DEFINE c == Chosen(J)
           K == J \ {c}
<1>7. c \in J /\ K \in SUBSET J /\ K # J /\ K \in SUBSET I /\ J \in SUBSET I
  BY <1>6, ChosenIsElement
<1>8. SumOver(f, Of(K)) <= SumOver(h, K)
  BY <1>3, <1>7
<1> HIDE DEF c
<1>9. SumOver(h, J) = h[c] + SumOver(h, K)
  BY <1>5, <1>7, SumRemove
<1>10. SumOver(f, Of(J)) = SumOver(f, Of(K)) + SumOver(f, {x \in S : group[x] = c})
  <2>1. Of(K) \in SUBSET Of(J) /\ Of(J) \ Of(K) = {x \in S : group[x] = c} /\ Of(J) \in SUBSET S
    BY <1>7
  <2>2. IsFiniteSet(Of(J)) /\ \A x \in Of(J) : f[x] \in Int
    BY <1>4, <2>1
  <2> DEFINE all == Of(J)
             part == Of(K)
  <2>3. part \in SUBSET all /\ IsFiniteSet(all) /\ all \ part = {x \in S : group[x] = c}
    BY <2>1, <2>2
  <2>4. \A x \in all : f[x] \in Int
    BY <2>2
  <2> HIDE DEF all, part
  <2>5. SumOver(f, all) = SumOver(f, part) + SumOver(f, all \ part)
    BY <2>3, <2>4, SumSplit
  <2> QED  BY <2>3, <2>5 DEF all, part
<1>11. SumOver(f, {x \in S : group[x] = c}) <= h[c]
  BY <1>7
<1>12. /\ SumOver(f, Of(K)) \in Int /\ SumOver(f, {x \in S : group[x] = c}) \in Int
       /\ h[c] \in Int /\ SumOver(h, K) \in Int
  <2>1. Of(K) \in SUBSET S /\ {x \in S : group[x] = c} \in SUBSET S
    OBVIOUS
  <2> QED  BY <1>4, <1>5, <1>7, <2>1
<1>13. SumOver(f, Of(J)) <= SumOver(h, J)
  <2> DEFINE g == SumOver(f, {x \in S : group[x] = c})
  <2>1. SumOver(f, Of(J)) = SumOver(f, Of(K)) + g /\ g <= h[c] /\ g \in Int
    BY <1>10, <1>11, <1>12
  <2> HIDE DEF Of, K, g
  <2> QED  BY <1>8, <1>9, <1>12, <2>1
<1> QED  BY <1>3, <1>13
=============================================================================
