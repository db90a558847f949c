----------------------------- MODULE DataFacts -----------------------------
(***************************************************************************)
(* Facts about data that the proofs of several modules rest on: induction  *)
(* over finite sets and what folds over them compute, and what inserting   *)
(* into and removing from a JavaScript array does (Array.prototype.splice  *)
(* as the wait queues use it).  The statements speak of sets, functions    *)
(* and sequences only, so that the provers can instantiate them.           *)
(***************************************************************************)
EXTENDS SequencesExt, FiniteSets, FiniteSetTheorems, SequenceTheorems, TLAPS

-----------------------------------------------------------------------------
(* Finite sets and folds                                                   *)

(* A family G of subsets of S has every set that is not empty when it has  *)
(* those with one element less.                                            *)
Hereditary(G, S) ==
  \A T \in SUBSET S : T # {} /\ (\A x \in T : T \ {x} \in G) => T \in G

(* Induction: a family that has the empty set, and every other set when it *)
(* has those with one element less, has every subset of a finite set.      *)
LEMMA SubsetInduction ==
  ASSUME NEW S, IsFiniteSet(S), NEW G,
         {} \in G, Hereditary(G, S)
  PROVE  SUBSET S \subseteq G
<1> SUFFICES ASSUME (SUBSET S) \ G # {}
             PROVE  FALSE
  OBVIOUS
<1> DEFINE R == StrictSubsetOrdering(S)
           bad == (SUBSET S) \ G
<1>1. IsWellFoundedOn(R, FiniteSubsetsOf(S))
  BY FS_StrictSubsetOrderingWellFounded
<1>2. IsWellFoundedOn(R, SUBSET S)
  BY <1>1, FS_FiniteSubsetsOfFinite
<1>3. bad \subseteq SUBSET S /\ bad # {}
  OBVIOUS
<1> HIDE DEF R, bad
<1>4. PICK T \in bad : \A U \in bad : ~ (<<U, T>> \in R)
  BY <1>2, <1>3, WFMin
<1>5. ASSUME NEW x \in T
      PROVE  T \ {x} \in G
  <2>1. T \in SUBSET S /\ T \ {x} \in SUBSET S /\ T \ {x} # T
    BY <1>3, <1>4
  <2>2. <<T \ {x}, T>> \in R
    BY <2>1 DEF R, StrictSubsetOrdering
  <2> QED
    BY <1>4, <2>1, <2>2 DEF bad
<1> QED
  BY <1>4, <1>5 DEF bad, Hereditary

(* pick chooses an element of every set but the empty one; g has the value *)
(* base for the empty set, and for others what step makes of the set       *)
(* without the element chosen.                                             *)
Picks(pick, S) == \A T \in SUBSET S : T # {} => pick[T] \in T
Recurs(g, S, base, pick, step) ==
  \A T \in SUBSET S :
    g[T] = IF T = {} THEN base ELSE step[T][g[T \ {pick[T]}]]

(* Recursion: there is a function on the subsets of a finite set that has  *)
(* a given value for the empty set and is made, for any other set, from    *)
(* its value for the same set without a chosen element.                    *)
LEMMA RecursionExists ==
  ASSUME NEW S, IsFiniteSet(S), NEW V, NEW base \in V,
         NEW pick, Picks(pick, S),
         NEW step \in [SUBSET S -> [V -> V]]
  PROVE  \E g \in [SUBSET S -> V] : Recurs(g, S, base, pick, step)
<1> DEFINE has == {n \in 0 .. Cardinality(S) :
             \E g \in [SUBSET S -> V] :
               \A U \in SUBSET S : Cardinality(U) <= n =>
                 g[U] = IF U = {} THEN base ELSE step[U][g[U \ {pick[U]}]]}
<1>1. Cardinality(S) \in Nat
  BY FS_CardinalityType
<1>2. 0 \in has
  <2>1. \A U \in SUBSET S : Cardinality(U) <= 0 => U = {}
    BY FS_Subset, FS_CardinalityType, FS_EmptySet
  <2> DEFINE g == [U \in SUBSET S |-> base]
  <2>2. g \in [SUBSET S -> V]
    OBVIOUS
  <2>3. \A U \in SUBSET S : Cardinality(U) <= 0 =>
          g[U] = IF U = {} THEN base ELSE step[U][g[U \ {pick[U]}]]
    BY <2>1
  <2> HIDE DEF g
  <2>4. \E f \in [SUBSET S -> V] :
          \A U \in SUBSET S : Cardinality(U) <= 0 =>
            f[U] = IF U = {} THEN base ELSE step[U][f[U \ {pick[U]}]]
    BY <2>2, <2>3
  <2>5. 0 \in 0 .. Cardinality(S)
    BY <1>1
  <2> QED
    BY <2>4, <2>5
<1> has \subseteq 0 .. Cardinality(S)
  OBVIOUS
<1> HIDE DEF has
<1>3. ASSUME NEW n \in has, n < Cardinality(S)
      PROVE  n + 1 \in has
  <2>0. n \in Nat /\ n + 1 \in 0 .. Cardinality(S)
    BY <1>1, <1>3
  <2>1. PICK g \in [SUBSET S -> V] :
          \A U \in SUBSET S : Cardinality(U) <= n =>
            g[U] = IF U = {} THEN base ELSE step[U][g[U \ {pick[U]}]]
    BY DEF has
  <2> DEFINE h == [U \in SUBSET S |->
                     IF U = {} THEN base ELSE step[U][g[U \ {pick[U]}]]]
  <2>2. h \in [SUBSET S -> V]
    OBVIOUS
  <2>3. ASSUME NEW U \in SUBSET S, Cardinality(U) <= n + 1, U # {}
        PROVE  h[U \ {pick[U]}] = g[U \ {pick[U]}]
    <3>1. PICK x : x = pick[U] /\ x \in U /\ IsFiniteSet(U)
      BY <2>3, FS_Subset DEF Picks
    <3> HIDE DEF h
    <3>2. IsFiniteSet(U) /\ x \in U
      BY <3>1
    <3>3. Cardinality(U \ {x}) = Cardinality(U) - 1
      BY ONLY <3>2, FS_RemoveElement
    <3>4. Cardinality(U) \in Nat
      BY <3>1, FS_CardinalityType
    <3>5. Cardinality(U \ {x}) <= n
      BY <2>0, <2>3, <3>3, <3>4
    <3>6. h[U \ {x}] = g[U \ {x}]
      BY <2>1, <3>5, U \ {x} \in SUBSET S DEF h
    <3> QED
      BY <3>1, <3>6
  <2> HIDE DEF h
  <2>4. \A U \in SUBSET S : Cardinality(U) <= n + 1 =>
          h[U] = IF U = {} THEN base ELSE step[U][h[U \ {pick[U]}]]
    BY <2>3 DEF h
  <2>5. \E f \in [SUBSET S -> V] :
          \A U \in SUBSET S : Cardinality(U) <= n + 1 =>
            f[U] = IF U = {} THEN base ELSE step[U][f[U \ {pick[U]}]]
    BY <2>2, <2>4
  <2> QED
    BY <2>0, <2>5 DEF has
<1>4. Cardinality(S) \in has
  <2> DEFINE G == {T \in SUBSET S : Cardinality(T) \in has}
  <2>1. {} \in G
    BY <1>2, FS_EmptySet
  <2>2. ASSUME NEW T \in SUBSET S, T # {}, \A x \in T : T \ {x} \in G
        PROVE  T \in G
    <3>0. PICK x \in T : T \ {x} \in G
      BY <2>2
    <3>1. /\ IsFiniteSet(T) /\ Cardinality(T) \in Nat
          /\ Cardinality(T) <= Cardinality(S)
      BY FS_Subset, FS_CardinalityType
    <3>2. Cardinality(T \ {x}) = Cardinality(T) - 1
      BY <3>1, FS_RemoveElement
    <3>3. Cardinality(T) - 1 \in has
      BY <3>0, <3>2
    <3>4. (Cardinality(T) - 1) + 1 = Cardinality(T)
          /\ Cardinality(T) - 1 < Cardinality(S)
      BY <1>1, <3>1
    <3> QED
      BY <1>3, <3>3, <3>4
  <2>3. Hereditary(G, S)
    BY <2>2 DEF Hereditary
  <2> HIDE DEF G
  <2>4. SUBSET S \subseteq G
    BY <2>1, <2>3, SubsetInduction
  <2> QED
    BY <2>4 DEF G
<1>5. \A U \in SUBSET S : Cardinality(U) <= Cardinality(S)
  BY FS_Subset
<1> QED
  BY <1>4, <1>5 DEF has, Recurs

-----------------------------------------------------------------------------
(* Sums: SumFunction(f) for a function f from a finite set.                *)

(* g says for each subset of S what the values of f come to there.         *)
SumsUp(g, f, S) ==
  /\ g \in [SUBSET S -> Nat]
  /\ g[{}] = 0
  /\ \A T \in SUBSET S : \A x \in T : g[T] = f[x] + g[T \ {x}]

(* A fold with + is such a sum, whatever order it takes the elements in.   *)
LEMMA FoldSumsUp ==
  ASSUME NEW S, IsFiniteSet(S), NEW f \in [S -> Nat]
  PROVE  \E g : SumsUp(g, f, S) /\ SumFunction(f) = g[S]
<1> DEFINE pick == [T \in SUBSET S |-> CHOOSE x \in T : TRUE]
           step == [T \in SUBSET S |-> [v \in Nat |->
                      IF T = {} THEN 0 ELSE f[pick[T]] + v]]
           iter == CHOOSE g : g = [T \in SUBSET S |->
                     IF T = {} THEN 0
                     ELSE f[CHOOSE x \in T : TRUE]
                            + g[T \ {CHOOSE x \in T : TRUE}]]
<1>1. SumFunction(f) = iter[S]
  BY DEF SumFunction, SumFunctionOnSet, FoldFunctionOnSet, MapThenFoldSet
<1>2. Picks(pick, S)
  BY DEF Picks
<1>3. step \in [SUBSET S -> [Nat -> Nat]]
  BY <1>2 DEF Picks
<1>4. PICK h \in [SUBSET S -> Nat] : Recurs(h, S, 0, pick, step)
  <2> HIDE DEF pick, step, iter
  <2> QED
    BY <1>2, <1>3, 0 \in Nat, RecursionExists
<1>5. \A T \in SUBSET S :
        h[T] = IF T = {} THEN 0 ELSE step[T][h[T \ {pick[T]}]]
  BY <1>4 DEF Recurs
<1>6. \A T \in SUBSET S : T # {} => step[T][h[T \ {pick[T]}]] =
        f[CHOOSE x \in T : TRUE] + h[T \ {CHOOSE x \in T : TRUE}]
  BY <1>5
<1>7. h = [T \in SUBSET S |->
             IF T = {} THEN 0
             ELSE f[CHOOSE x \in T : TRUE]
                    + h[T \ {CHOOSE x \in T : TRUE}]]
  BY <1>5, <1>6
<1>8. iter = [T \in SUBSET S |->
                IF T = {} THEN 0
                ELSE f[CHOOSE x \in T : TRUE]
                       + iter[T \ {CHOOSE x \in T : TRUE}]]
  BY <1>7
<1> HIDE DEF iter, pick, step
<1>9. iter[{}] = 0 /\ \A T \in SUBSET S :
         T # {} => \E x \in T : iter[T] = f[x] + iter[T \ {x}]
  BY <1>8
<1> DEFINE typed == {T \in SUBSET S : iter[T] \in Nat}
<1>10. SUBSET S \subseteq typed
  <2>1. {} \in typed
    BY <1>9
  <2>2. ASSUME NEW T \in SUBSET S, T # {}, \A x \in T : T \ {x} \in typed
        PROVE  T \in typed
    <3>1. PICK x \in T : iter[T] = f[x] + iter[T \ {x}]
      BY <1>9, <2>2
    <3>2. iter[T \ {x}] \in Nat /\ f[x] \in Nat
      BY <2>2
    <3> QED
      BY <3>1, <3>2
  <2>3. Hereditary(typed, S)
    BY <2>2 DEF Hereditary
  <2> HIDE DEF typed
  <2> QED
    BY <2>1, <2>3, SubsetInduction
<1>11. iter \in [SUBSET S -> Nat]
  BY <1>8, <1>10
<1> DEFINE sums == {T \in SUBSET S :
                      \A x \in T : iter[T] = f[x] + iter[T \ {x}]}
<1>12. SUBSET S \subseteq sums
  <2>1. {} \in sums
    OBVIOUS
  <2>2. ASSUME NEW T \in SUBSET S, T # {}, \A x \in T : T \ {x} \in sums
        PROVE  T \in sums
    <3>1. PICK c \in T : iter[T] = f[c] + iter[T \ {c}]
      BY <1>9, <2>2
    <3>2. ASSUME NEW x \in T
          PROVE  iter[T] = f[x] + iter[T \ {x}]
      <4>1. CASE x = c
        BY <3>1, <4>1
      <4>2. CASE x # c
        <5>1. /\ x \in T \ {c} /\ c \in T \ {x}
              /\ (T \ {x}) \ {c} = (T \ {c}) \ {x}
          BY <4>2
        <5>2. iter[T \ {c}] = f[x] + iter[(T \ {c}) \ {x}]
          BY <2>2, <5>1
        <5>3. iter[T \ {x}] = f[c] + iter[(T \ {c}) \ {x}]
          BY <2>2, <5>1
        <5>4. /\ f[x] \in Nat /\ f[c] \in Nat
              /\ iter[(T \ {c}) \ {x}] \in Nat
          BY <1>11
        <5> QED
          BY <3>1, <5>2, <5>3, <5>4
      <4> QED
        BY <4>1, <4>2
    <3> QED
      BY <3>2
  <2>3. Hereditary(sums, S)
    BY <2>2 DEF Hereditary
  <2> HIDE DEF sums
  <2> QED
    BY <2>1, <2>3, SubsetInduction
<1>13. SumsUp(iter, f, S)
  BY <1>9, <1>11, <1>12 DEF SumsUp
<1> QED
  BY <1>1, <1>13

(* Sums of functions that agree on a set are equal there; where one is     *)
(* never larger, neither is its sum.                                       *)
Agree(f, g, T) == \A x \in T : f[x] = g[x]
Below(f, g, T) == \A x \in T : f[x] <= g[x]

(* Sums over the same set compare as their terms do.                       *)
LEMMA SumsCompare ==
  ASSUME NEW S, IsFiniteSet(S),
         NEW f \in [S -> Nat], NEW g \in [S -> Nat],
         NEW F, SumsUp(F, f, S), NEW G, SumsUp(G, g, S),
         NEW T \in SUBSET S
  PROVE  /\ Agree(f, g, T) => F[T] = G[T]
         /\ Below(f, g, T) => F[T] <= G[T]
<1> DEFINE less == {U \in SUBSET S :
                      (\A x \in U : f[x] <= g[x]) => F[U] <= G[U]}
           same == {U \in SUBSET S :
                      (\A x \in U : f[x] = g[x]) => F[U] = G[U]}
<1>1. {} \in less /\ {} \in same
  BY DEF SumsUp
<1>2. ASSUME NEW U \in SUBSET S, U # {},
             \A x \in U : U \ {x} \in less /\ U \ {x} \in same
      PROVE  U \in less /\ U \in same
  <2>1. PICK x \in U : TRUE
    BY <1>2
  <2>2. /\ F[U] = f[x] + F[U \ {x}] /\ F[U \ {x}] \in Nat
        /\ G[U] = g[x] + G[U \ {x}] /\ G[U \ {x}] \in Nat
        /\ f[x] \in Nat /\ g[x] \in Nat
    BY <2>1 DEF SumsUp
  <2>3. (\A y \in U : f[y] <= g[y]) => F[U \ {x}] <= G[U \ {x}]
    BY <1>2, <2>1
  <2>4. (\A y \in U : f[y] = g[y]) => F[U \ {x}] = G[U \ {x}]
    BY <1>2, <2>1
  <2> QED
    BY <2>1, <2>2, <2>3, <2>4
<1>3. Hereditary(less \cap same, S)
  BY <1>2 DEF Hereditary
<1> HIDE DEF less, same
<1>4. SUBSET S \subseteq less \cap same
  BY <1>1, <1>3, SubsetInduction
<1> QED
  BY <1>4 DEF less, same, Agree, Below

(* What is added up over a finite set: Sum over all of S changes with one  *)
(* value by as much as that value.                                         *)
LEMMA FoldExcept ==
  ASSUME NEW S, IsFiniteSet(S), NEW f \in [S -> Nat],
         NEW x \in S, NEW v \in Nat
  PROVE  SumFunction([f EXCEPT ![x] = v]) =
           SumFunction(f) - f[x] + v
<1> DEFINE g == [f EXCEPT ![x] = v]
<1>1. g \in [S -> Nat] /\ g[x] = v /\ \A y \in S \ {x} : f[y] = g[y]
  OBVIOUS
<1>2. PICK F : SumsUp(F, f, S) /\ SumFunction(f) = F[S]
  BY FoldSumsUp
<1> HIDE DEF g
<1>3. PICK G : SumsUp(G, g, S) /\ SumFunction(g) = G[S]
  BY <1>1, FoldSumsUp
<1>4. F[S \ {x}] = G[S \ {x}]
  <2>1. Agree(f, g, S \ {x})
    BY <1>1 DEF Agree
  <2> QED
    BY <1>1, <1>2, <1>3, <2>1, SumsCompare, S \ {x} \in SUBSET S
<1>5. F[S] = f[x] + F[S \ {x}] /\ F[S \ {x}] \in Nat
  BY <1>2, S \in SUBSET S, S \ {x} \in SUBSET S DEF SumsUp
<1>6. G[S] = g[x] + G[S \ {x}]
  BY <1>3, S \in SUBSET S DEF SumsUp
<1>7. f[x] \in Nat
  OBVIOUS
<1> QED
  BY <1>1, <1>2, <1>3, <1>4, <1>5, <1>6, <1>7 DEF g

(* Sums are numbers, compare as their terms do, and have no less than any  *)
(* of their terms.                                                         *)
LEMMA FoldBounds ==
  ASSUME NEW S, IsFiniteSet(S), NEW f \in [S -> Nat]
  PROVE  /\ SumFunction(f) \in Nat
         /\ \A x \in S : f[x] <= SumFunction(f)
         /\ (\A x \in S : f[x] = 0) => SumFunction(f) = 0
<1>1. PICK F : SumsUp(F, f, S) /\ SumFunction(f) = F[S]
  BY FoldSumsUp
<1>2. F[S] \in Nat
  BY <1>1 DEF SumsUp
<1>3. ASSUME NEW x \in S
      PROVE  f[x] <= F[S]
  <2>1. F[S] = f[x] + F[S \ {x}] /\ F[S \ {x}] \in Nat /\ f[x] \in Nat
    BY <1>1, S \in SUBSET S, S \ {x} \in SUBSET S DEF SumsUp
  <2> QED
    BY <2>1
<1>4. ASSUME \A x \in S : f[x] = 0
      PROVE  F[S] = 0
  <2> DEFINE zero == [x \in S |-> 0]
             Z == [T \in SUBSET S |-> 0]
  <2>1. zero \in [S -> Nat] /\ Agree(f, zero, S)
    BY <1>4 DEF Agree
  <2>2. SumsUp(Z, zero, S)
    BY DEF SumsUp
  <2>3. Z[S] = 0
    OBVIOUS
  <2> HIDE DEF zero, Z
  <2> QED
    BY <1>1, <2>1, <2>2, <2>3, SumsCompare, S \in SUBSET S
<1> QED
  BY <1>1, <1>2, <1>3, <1>4

(* The library's sums compare as their terms do.                           *)
LEMMA FoldCompare ==
  ASSUME NEW S, IsFiniteSet(S), NEW f \in [S -> Nat], NEW g \in [S -> Nat],
         \A x \in S : f[x] <= g[x]
  PROVE  SumFunction(f) <= SumFunction(g)
<1>1. PICK F : SumsUp(F, f, S) /\ SumFunction(f) = F[S]
  BY FoldSumsUp
<1>2. PICK G : SumsUp(G, g, S) /\ SumFunction(g) = G[S]
  BY FoldSumsUp
<1>3. Below(f, g, S)
  BY DEF Below
<1> QED
  BY <1>1, <1>2, <1>3, SumsCompare, S \in SUBSET S

(* The sum of a sum of functions is the sum of their sums.                 *)
LEMMA FoldAdd ==
  ASSUME NEW S, IsFiniteSet(S), NEW f \in [S -> Nat], NEW g \in [S -> Nat]
  PROVE  SumFunction([x \in S |-> f[x] + g[x]]) =
           SumFunction(f) + SumFunction(g)
<1> DEFINE h == [x \in S |-> f[x] + g[x]]
<1>1. PICK F : SumsUp(F, f, S) /\ SumFunction(f) = F[S]
  BY FoldSumsUp
<1>2. PICK G : SumsUp(G, g, S) /\ SumFunction(g) = G[S]
  BY FoldSumsUp
<1> DEFINE H == [T \in SUBSET S |-> F[T] + G[T]]
<1>3. SumsUp(H, h, S)
  <2>1. H[{}] = 0
    BY <1>1, <1>2 DEF SumsUp
  <2>2. ASSUME NEW T \in SUBSET S
        PROVE  H[T] = F[T] + G[T] /\ F[T] \in Nat /\ G[T] \in Nat
    BY <1>1, <1>2 DEF SumsUp
  <2>3. H \in [SUBSET S -> Nat]
    <3>1. ASSUME NEW T \in SUBSET S
          PROVE  F[T] + G[T] \in Nat
      <4>1. F[T] \in Nat /\ G[T] \in Nat
        BY <2>2
      <4> QED
        BY ONLY <4>1
    <3> QED
      BY <3>1
  <2>4. ASSUME NEW T \in SUBSET S, NEW x \in T
        PROVE  H[T] = h[x] + H[T \ {x}]
    <3>1. /\ F[T] = f[x] + F[T \ {x}] /\ G[T] = g[x] + G[T \ {x}]
          /\ f[x] \in Nat /\ g[x] \in Nat /\ h[x] = f[x] + g[x]
      BY <1>1, <1>2 DEF SumsUp
    <3>2. T \ {x} \in SUBSET S
      OBVIOUS
    <3>3. H[T \ {x}] = F[T \ {x}] + G[T \ {x}]
          /\ F[T \ {x}] \in Nat /\ G[T \ {x}] \in Nat
      BY <2>2, <3>2
    <3>4. H[T] = F[T] + G[T]
      BY <2>2
    <3> HIDE DEF H, h
    <3> QED
      BY <3>1, <3>3, <3>4
  <2> QED
    BY <2>1, <2>3, <2>4 DEF SumsUp
<1>4. H[S] = F[S] + G[S]
  BY S \in SUBSET S
<1>5. h \in [S -> Nat] /\ Agree(h, h, S)
  BY DEF Agree
<1> HIDE DEF h, H
<1>6. PICK K : SumsUp(K, h, S) /\ SumFunction(h) = K[S]
  BY <1>5, FoldSumsUp
<1>7. K[S] = H[S]
  BY <1>3, <1>5, <1>6, SumsCompare, S \in SUBSET S
<1> QED
  BY <1>1, <1>2, <1>4, <1>6, <1>7 DEF h

-----------------------------------------------------------------------------
(* A finite set of numbers that is not empty has a greatest one, and every *)
(* set of numbers that is not empty has a least one.                       *)
LEMMA GreatestNumber ==
  ASSUME NEW S \in SUBSET Nat, IsFiniteSet(S), S # {}
  PROVE  \E x \in S : \A y \in S : x >= y
<1> DEFINE G == {T \in SUBSET S : T = {} \/ \E x \in T : \A y \in T : x >= y}
<1>1. {} \in G
  OBVIOUS
<1>2. ASSUME NEW T \in SUBSET S, T # {}, \A x \in T : T \ {x} \in G
      PROVE  T \in G
  <2>1. PICK x \in T : TRUE
    BY <1>2
  <2>2. T \ {x} \in G /\ x \in Nat
    BY <1>2, <2>1
  <2>3. CASE T \ {x} = {}
    <3>1. \A y \in T : x >= y
      BY <2>2, <2>3
    <3> QED
      BY <2>1, <3>1
  <2>4. CASE T \ {x} # {}
    <3>1. PICK z \in T \ {x} : \A y \in T \ {x} : z >= y
      BY <2>2, <2>4
    <3>2. z \in Nat
      OBVIOUS
    <3>3. CASE z >= x
      BY <2>1, <3>1, <3>3
    <3>4. CASE x >= z
      <4>1. \A y \in T : x >= y
        <5>1. ASSUME NEW y \in T
              PROVE  x >= y
          <6>1. y \in Nat
            OBVIOUS
          <6> QED
            BY <2>2, <3>1, <3>2, <3>4, <6>1
        <5> QED
          BY <5>1
      <4> QED
        BY <2>1, <4>1
    <3> QED
      BY <2>2, <3>2, <3>3, <3>4
  <2> QED
    BY <2>3, <2>4
<1>3. Hereditary(G, S)
  BY <1>2 DEF Hereditary
<1> HIDE DEF G
<1>4. S \in G
  BY <1>1, <1>3, SubsetInduction, S \in SUBSET S
<1> QED
  BY <1>4 DEF G

(* A non-empty set of natural numbers has a least one.                     *)
LEMMA LeastNumber ==
  ASSUME NEW S \in SUBSET Nat, S # {}
  PROVE  \E x \in S : \A y \in S : x <= y
<1>1. IsWellFoundedOn(OpToRel(<, Nat), Nat)
  BY NatLessThanWellFounded
<1>2. PICK x \in S : \A y \in S : ~(<<y, x>> \in OpToRel(<, Nat))
  BY <1>1, WFMin
<1>3. \A y \in S : ~(y < x)
  BY <1>2 DEF OpToRel
<1> QED
  BY <1>3

(* down gives of every element of S those before it, in a total order.     *)
Ranking(down, S) ==
  /\ down \in [S -> SUBSET S]
  /\ \A x \in S : x \notin down[x]
  /\ \A x \in S : \A y \in down[x] : down[y] \subseteq down[x]
  /\ \A x, y \in S : x = y \/ x \in down[y] \/ y \in down[x]

(* Those with less than n before them are n at most; if they are less than *)
(* n, they are all.                                                        *)
LEMMA FirstOnes ==
  ASSUME NEW S, IsFiniteSet(S), NEW down, Ranking(down, S), NEW n \in Nat
  PROVE  LET first == {x \in S : Cardinality(down[x]) < n}
         IN  /\ Cardinality(first) <= n
             /\ Cardinality(first) < n => first = S
<1> DEFINE rank == [x \in S |-> Cardinality(down[x])]
           first == {x \in S : Cardinality(down[x]) < n}
<1>1. \A x \in S : /\ rank[x] = Cardinality(down[x]) /\ rank[x] \in Nat
                   /\ IsFiniteSet(down[x]) /\ down[x] \in SUBSET S
  BY FS_Subset, FS_CardinalityType DEF Ranking
<1>2. \A x \in S : x \in first <=> rank[x] < n
  OBVIOUS
<1>3. first \subseteq S
  OBVIOUS
<1> HIDE DEF rank, first
<1>4. ASSUME NEW x \in S, NEW y \in down[x]
      PROVE  y \in S /\ rank[y] < rank[x]
  <2>1. y \in S /\ down[y] \subseteq down[x] /\ y \notin down[y]
    BY DEF Ranking
  <2>2. down[y] # down[x] /\ down[y] \in SUBSET down[x]
    BY <2>1
  <2>3. /\ Cardinality(down[y]) <= Cardinality(down[x])
        /\ Cardinality(down[x]) # Cardinality(down[y])
    BY <1>1, <2>2, FS_Subset
  <2> QED
    BY <1>1, <2>1, <2>3
<1>5. Cardinality(first) <= n
  <2> DEFINE f == [x \in first |-> rank[x]]
  <2>1. f \in [first -> 0 .. (n - 1)]
    BY <1>1, <1>2, <1>3
  <2>2. \A x, y \in first : x # y => f[x] # f[y]
    <3> SUFFICES ASSUME NEW x \in first, NEW y \in first, x # y
                 PROVE  rank[x] # rank[y]
      OBVIOUS
    <3>1. x \in S /\ y \in S /\ (x \in down[y] \/ y \in down[x])
      BY <1>3 DEF Ranking
    <3> QED
      BY <1>1, <1>4, <3>1
  <2>3. f \in Injection(first, 0 .. (n - 1))
    BY <2>1, <2>2 DEF Injection, IsInjective
  <2>4. IsFiniteSet(0 .. (n - 1)) /\ Cardinality(0 .. (n - 1)) = n
    BY FS_Interval
  <2> HIDE DEF f
  <2> QED
    BY <2>3, <2>4, FS_Injection
<1>6. ASSUME Cardinality(first) < n
      PROVE  first = S
  <2> SUFFICES ASSUME S \ first # {}
               PROVE  FALSE
    BY <1>3
  <2> DEFINE ranks == {rank[x] : x \in S \ first}
  <2>1. ranks \in SUBSET Nat /\ ranks # {}
    BY <1>1
  <2>2. PICK m \in ranks : \A y \in ranks : m <= y
    BY <2>1, LeastNumber
  <2>3. PICK x \in S \ first : m = rank[x]
    BY <2>2
  <2>4. \A y \in S \ first : rank[x] <= rank[y]
    BY <2>2, <2>3
  <2>5. down[x] \subseteq first
    <3> SUFFICES ASSUME NEW y \in down[x], y \notin first
                 PROVE  FALSE
      OBVIOUS
    <3>1. y \in S /\ rank[y] < rank[x]
      BY <1>4
    <3>2. rank[x] <= rank[y]
      BY <2>4, <3>1
    <3> QED
      BY <1>1, <3>1, <3>2
  <2>6. IsFiniteSet(first) /\ Cardinality(first) \in Nat
    BY <1>3, FS_Subset, FS_CardinalityType
  <2>7. Cardinality(down[x]) <= Cardinality(first)
    BY <2>5, <2>6, FS_Subset
  <2>8. rank[x] < n
    BY <1>1, <1>6, <2>6, <2>7
  <2> QED
    BY <1>2, <2>8
<1> QED
  BY <1>5, <1>6 DEF first

-----------------------------------------------------------------------------
(* Arrays                                                                  *)

(* What inserting at a position does to an array.                          *)
LEMMA InsertAtProperties ==
  ASSUME NEW S, NEW s \in Seq(S), NEW t \in S, NEW i \in 1 .. Len(s) + 1
  PROVE  /\ InsertAt(s, i, t) \in Seq(S)
         /\ Len(InsertAt(s, i, t)) = Len(s) + 1
         /\ InsertAt(s, i, t)[i] = t
         /\ \A j \in 1 .. i - 1 : InsertAt(s, i, t)[j] = s[j]
         /\ \A j \in i .. Len(s) : InsertAt(s, i, t)[j + 1] = s[j]
<1> DEFINE left == SubSeq(s, 1, i - 1)
           right == SubSeq(s, i, Len(s))
<1>1. Len(s) \in Nat /\ \A j \in 1 .. Len(s) : s[j] \in S
  BY LenProperties, ElementOfSeq
<1>2. /\ left \in Seq(S)
      /\ Len(left) = i - 1
      /\ \A j \in 1 .. i - 1 : left[j] = s[j]
  BY <1>1, SubSeqProperties, 1 \in Int, i - 1 \in Int,
     \A j \in 1 .. i - 1 : s[j] \in S
<1>3. /\ right \in Seq(S)
      /\ Len(right) = Len(s) - i + 1
      /\ \A j \in 1 .. Len(s) - i + 1 : right[j] = s[i + j - 1]
  BY <1>1, SubSeqProperties, i \in Int, Len(s) \in Int,
     \A j \in i .. Len(s) : s[j] \in S
<1> HIDE DEF left, right
<1> DEFINE one == <<t>>
<1>4. one \in Seq(S) /\ Len(one) = 1 /\ one[1] = t
  OBVIOUS
<1> HIDE DEF one
<1> DEFINE front == left \o one
<1>5. /\ front \in Seq(S)
      /\ Len(front) = i
      /\ \A j \in 1 .. i : front[j] = IF j < i THEN s[j] ELSE t
  <2>1. /\ left \o one \in Seq(S)
        /\ Len(left \o one) = Len(left) + Len(one)
        /\ \A j \in 1 .. Len(left) + Len(one) :
             (left \o one)[j] =
               IF j <= Len(left) THEN left[j] ELSE one[j - Len(left)]
    BY <1>2, <1>4, ConcatProperties
  <2>2. Len(left) + Len(one) = i
    BY <1>1, <1>2, <1>4
  <2>3. ASSUME NEW j \in 1 .. i
        PROVE  /\ j <= i - 1 <=> j < i
               /\ j >= i => j - (i - 1) = 1
    BY <1>1
  <2> QED
    BY <1>2, <1>4, <2>1, <2>2, <2>3
<1> HIDE DEF front
<1>6. /\ front \o right \in Seq(S)
      /\ Len(front \o right) = Len(s) + 1
      /\ \A j \in 1 .. Len(s) + 1 :
           (front \o right)[j] = IF j <= i THEN front[j] ELSE right[j - i]
  <2>1. /\ front \o right \in Seq(S)
        /\ Len(front \o right) = Len(front) + Len(right)
        /\ \A j \in 1 .. Len(front) + Len(right) :
             (front \o right)[j] =
               IF j <= Len(front) THEN front[j] ELSE right[j - Len(front)]
    BY <1>3, <1>5, ConcatProperties
  <2>2. Len(front) + Len(right) = Len(s) + 1
    BY <1>1, <1>3, <1>5
  <2> QED
    BY <1>5, <2>1, <2>2
<1>7. \A j \in i .. Len(s) : right[j + 1 - i] = s[j]
  BY <1>1, <1>3
<1>8. InsertAt(s, i, t) = front \o right
  BY DEF InsertAt, left, right, one, front
<1>9. (front \o right)[i] = t
  BY <1>1, <1>5, <1>6
<1>10. \A j \in 1 .. i - 1 : (front \o right)[j] = s[j]
  BY <1>1, <1>5, <1>6
<1>11. \A j \in i .. Len(s) : (front \o right)[j + 1] = s[j]
  BY <1>1, <1>6, <1>7
<1> QED
  BY <1>6, <1>8, <1>9, <1>10, <1>11

(* What removing a position does to an array.                              *)
LEMMA RemoveAtProperties ==
  ASSUME NEW S, NEW s \in Seq(S), NEW i \in 1 .. Len(s)
  PROVE  /\ RemoveAt(s, i) \in Seq(S)
         /\ Len(RemoveAt(s, i)) = Len(s) - 1
         /\ \A j \in 1 .. Len(s) - 1 :
              RemoveAt(s, i)[j] = IF j < i THEN s[j] ELSE s[j + 1]
<1> DEFINE left == SubSeq(s, 1, i - 1)
           right == SubSeq(s, i + 1, Len(s))
<1>1. Len(s) \in Nat /\ \A j \in 1 .. Len(s) : s[j] \in S
  BY LenProperties, ElementOfSeq
<1>2. /\ left \in Seq(S)
      /\ Len(left) = i - 1
      /\ \A j \in 1 .. i - 1 : left[j] = s[j]
  BY <1>1, SubSeqProperties, 1 \in Int, i - 1 \in Int,
     \A j \in 1 .. i - 1 : s[j] \in S
<1>3. /\ right \in Seq(S)
      /\ Len(right) = Len(s) - i
      /\ \A j \in 1 .. Len(s) - i : right[j] = s[i + j]
  BY <1>1, SubSeqProperties, i + 1 \in Int, Len(s) \in Int,
     \A j \in i + 1 .. Len(s) : s[j] \in S
<1> HIDE DEF left, right
<1>4. /\ left \o right \in Seq(S)
      /\ Len(left \o right) = Len(s) - 1
      /\ \A j \in 1 .. Len(s) - 1 :
           (left \o right)[j] = IF j < i THEN left[j] ELSE right[j - i + 1]
  <2>1. /\ left \o right \in Seq(S)
        /\ Len(left \o right) = Len(left) + Len(right)
        /\ \A j \in 1 .. Len(left) + Len(right) :
             (left \o right)[j] =
               IF j <= Len(left) THEN left[j] ELSE right[j - Len(left)]
    BY <1>2, <1>3, ConcatProperties
  <2>2. Len(left) + Len(right) = Len(s) - 1
    BY <1>1, <1>2, <1>3
  <2>3. ASSUME NEW j \in 1 .. Len(s) - 1
        PROVE  /\ j <= i - 1 <=> j < i
               /\ j - (i - 1) = j - i + 1
    BY <1>1
  <2> QED
    BY <1>2, <2>1, <2>2, <2>3
<1>5. \A j \in 1 .. Len(s) - 1 : j >= i => right[j - i + 1] = s[j + 1]
  BY <1>1, <1>3
<1>6. RemoveAt(s, i) = left \o right
  BY DEF RemoveAt, left, right
<1>7. ASSUME NEW j \in 1 .. Len(s) - 1
      PROVE  (left \o right)[j] = IF j < i THEN s[j] ELSE s[j + 1]
  BY <1>1, <1>2, <1>4, <1>5
<1> QED
  BY <1>4, <1>6, <1>7

(* Inserting something new into an array without duplicates.               *)
LEMMA InsertAtDistinct ==
  ASSUME NEW S, NEW s \in Seq(S), NEW t \in S, NEW i \in 1 .. Len(s) + 1,
         IsInjective(s), t \notin ToSet(s)
  PROVE  /\ IsInjective(InsertAt(s, i, t))
         /\ ToSet(InsertAt(s, i, t)) = ToSet(s) \cup {t}
<1> DEFINE r == InsertAt(s, i, t)
<1>1. /\ r \in Seq(S)
      /\ Len(r) = Len(s) + 1
      /\ r[i] = t
      /\ \A j \in 1 .. i - 1 : r[j] = s[j]
      /\ \A j \in i .. Len(s) : r[j + 1] = s[j]
  BY InsertAtProperties
<1> HIDE DEF r
<1>2. Len(s) \in Nat /\ DOMAIN s = 1 .. Len(s) /\ DOMAIN r = 1 .. Len(s) + 1
  BY <1>1, LenProperties
<1> DEFINE Old(n) == IF n < i THEN n ELSE n - 1
           New(n) == IF n < i THEN n ELSE n + 1
<1>3. ASSUME NEW n \in DOMAIN r, n # i
      PROVE  Old(n) \in DOMAIN s /\ r[n] = s[Old(n)]
  <2>1. CASE n < i
    BY <1>1, <1>2, <2>1
  <2>2. CASE n > i
    <3>1. n - 1 \in i .. Len(s) /\ (n - 1) + 1 = n
      BY <1>2, <2>2
    <3> QED
      BY <1>1, <1>2, <2>2, <3>1
  <2> QED
    BY <1>2, <1>3, <2>1, <2>2
<1>4. ASSUME NEW n \in DOMAIN s
      PROVE  New(n) \in DOMAIN r /\ r[New(n)] = s[n]
  BY <1>1, <1>2
<1>5. i \in DOMAIN r /\ r[i] = t
  BY <1>1, <1>2
<1>6. \A n \in DOMAIN s : s[n] # t
  BY DEF ToSet
<1>7. ASSUME NEW a \in DOMAIN r, NEW b \in DOMAIN r, r[a] = r[b]
      PROVE  a = b
  <2>1. CASE a = i \/ b = i
    BY <1>3, <1>5, <1>6, <1>7, <2>1
  <2>2. CASE a # i /\ b # i
    <3>1. Old(a) = Old(b)
      BY <1>3, <1>7, <2>2 DEF IsInjective
    <3> QED
      BY <1>2, <2>2, <3>1
  <2> QED
    BY <2>1, <2>2
<1>8. ToSet(r) = ToSet(s) \cup {t}
  <2>1. ToSet(r) \subseteq ToSet(s) \cup {t}
    BY <1>3, <1>5 DEF ToSet
  <2>2. ToSet(s) \cup {t} \subseteq ToSet(r)
    BY <1>4, <1>5 DEF ToSet
  <2> QED
    BY <2>1, <2>2
<1> QED
  BY <1>7, <1>8 DEF IsInjective, r

(* Removing a position from an array without duplicates.                   *)
LEMMA RemoveAtDistinct ==
  ASSUME NEW S, NEW s \in Seq(S), NEW i \in 1 .. Len(s), IsInjective(s)
  PROVE  /\ IsInjective(RemoveAt(s, i))
         /\ ToSet(RemoveAt(s, i)) = ToSet(s) \ {s[i]}
<1> DEFINE r == RemoveAt(s, i)
<1>1. /\ r \in Seq(S)
      /\ Len(r) = Len(s) - 1
      /\ \A j \in 1 .. Len(s) - 1 : r[j] = IF j < i THEN s[j] ELSE s[j + 1]
  BY RemoveAtProperties
<1> HIDE DEF r
<1>2. Len(s) \in Nat /\ DOMAIN s = 1 .. Len(s) /\ DOMAIN r = 1 .. Len(s) - 1
  BY <1>1, LenProperties
<1> DEFINE Old(n) == IF n < i THEN n ELSE n + 1
           New(n) == IF n < i THEN n ELSE n - 1
<1>3. ASSUME NEW n \in DOMAIN r
      PROVE  Old(n) \in DOMAIN s /\ Old(n) # i /\ r[n] = s[Old(n)]
  BY <1>1, <1>2
<1>4. ASSUME NEW n \in DOMAIN s, n # i
      PROVE  New(n) \in DOMAIN r /\ r[New(n)] = s[n]
  BY <1>1, <1>2, <1>4
<1>5. ASSUME NEW a \in DOMAIN r, NEW b \in DOMAIN r, r[a] = r[b]
      PROVE  a = b
  <2>1. Old(a) = Old(b)
    BY <1>3, <1>5 DEF IsInjective
  <2> QED
    BY <1>2, <2>1
<1>6. ToSet(r) \subseteq ToSet(s) \ {s[i]}
  BY <1>2, <1>3 DEF ToSet, IsInjective
<1>7. ToSet(s) \ {s[i]} \subseteq ToSet(r)
  BY <1>4 DEF ToSet
<1> QED
  BY <1>5, <1>6, <1>7 DEF IsInjective, r

(* Taking the head of an array without duplicates.                         *)
LEMMA TailDistinct ==
  ASSUME NEW S, NEW s \in Seq(S), s # <<>>, IsInjective(s)
  PROVE  /\ Tail(s) \in Seq(S)
         /\ Head(s) \in ToSet(s)
         /\ IsInjective(Tail(s))
         /\ ToSet(Tail(s)) = ToSet(s) \ {Head(s)}
<1>1. Len(s) \in Nat \ {0} /\ DOMAIN s = 1 .. Len(s)
  BY EmptySeq, LenProperties
<1>2. /\ Tail(s) \in Seq(S)
      /\ Len(Tail(s)) = Len(s) - 1
      /\ \A j \in 1 .. Len(s) - 1 : Tail(s)[j] = s[j + 1]
  BY HeadTailProperties
<1>3. DOMAIN Tail(s) = 1 .. Len(s) - 1
  BY <1>2, LenProperties
<1>4. Head(s) = s[1] /\ 1 \in DOMAIN s
  BY <1>1
<1>5. IsInjective(Tail(s))
  BY <1>1, <1>2, <1>3 DEF IsInjective
<1>6. ToSet(Tail(s)) \subseteq ToSet(s) \ {Head(s)}
  BY <1>1, <1>2, <1>3, <1>4 DEF ToSet, IsInjective
<1>7. ASSUME NEW n \in DOMAIN s, s[n] # s[1]
      PROVE  n - 1 \in DOMAIN Tail(s) /\ Tail(s)[n - 1] = s[n]
  BY <1>1, <1>2, <1>3, <1>7
<1>8. ToSet(s) \ {Head(s)} \subseteq ToSet(Tail(s))
  BY <1>4, <1>7 DEF ToSet
<1> QED
  BY <1>2, <1>4, <1>5, <1>6, <1>8 DEF ToSet
=============================================================================
