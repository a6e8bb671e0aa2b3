--------------------------------- MODULE Sums ---------------------------------
(***************************************************************************)
(* What the proofs need to know of SumFunctionOnSet: adding an element     *)
(* adds its value, whichever element the recursion happens to choose, and  *)
(* only the values at the elements matter.                                 *)
(*                                                                         *)
(* Induction on finite sets is by a smallest counterexample: among the     *)
(* subsets of a finite set, any collection that is not empty has one with  *)
(* no other below it.                                                      *)
(***************************************************************************)
EXTENDS Integers, FiniteSets, Functions, FiniteSetTheorems, TLAPS

LEMMA SmallestSet ==
  ASSUME NEW S, IsFiniteSet(S), NEW C \in SUBSET SUBSET S, C # {}
  PROVE  \E R \in C : \A Q \in C : Q \subseteq R => Q = R
<1>1. IsWellFoundedOn(StrictSubsetOrdering(S), SUBSET S)
  BY FS_StrictSubsetOrderingWellFounded, FS_FiniteSubsetsOfFinite
<1>2. PICK R \in C : \A Q \in C : <<Q, R>> \notin StrictSubsetOrdering(S)
  BY <1>1, WFMin
<1> QED BY <1>2 DEF StrictSubsetOrdering

-----------------------------------------------------------------------------
(* The recursion.                                                          *)

Picked(s) == CHOOSE x \in s : TRUE

Totals(g, f, S) ==
  g = [s \in SUBSET S |-> IF s = {} THEN 0 ELSE f[Picked(s)] + g[s \ {Picked(s)}]]

LEMMA TotalsUnfold ==
  ASSUME NEW f, NEW S, NEW g, Totals(g, f, S)
  PROVE  /\ g[{}] = 0
         /\ \A s \in SUBSET S : s # {} => /\ Picked(s) \in s
                                          /\ g[s] = f[Picked(s)] + g[s \ {Picked(s)}]
<1>1. \A s \in SUBSET S : s # {} => Picked(s) \in s
  BY DEF Picked
<1>2. \A s \in SUBSET S : g[s] = IF s = {} THEN 0 ELSE f[Picked(s)] + g[s \ {Picked(s)}]
  BY DEF Totals
<1> QED BY <1>1, <1>2

LEMMA TotalsRestrict ==
  ASSUME NEW f, NEW S, NEW R \in SUBSET S, NEW g, Totals(g, f, S)
  PROVE  Totals([s \in SUBSET R |-> g[s]], f, R)
<1> DEFINE h == [s \in SUBSET R |-> g[s]]
<1>0. /\ g[{}] = 0
      /\ \A s \in SUBSET S : s # {} => g[s] = f[Picked(s)] + g[s \ {Picked(s)}]
  BY TotalsUnfold
<1>1. \A s \in SUBSET R : h[s] = IF s = {} THEN 0 ELSE f[Picked(s)] + h[s \ {Picked(s)}]
  <2> SUFFICES ASSUME NEW s \in SUBSET R
               PROVE  h[s] = IF s = {} THEN 0 ELSE f[Picked(s)] + h[s \ {Picked(s)}]
    OBVIOUS
  <2>1. s \in SUBSET S /\ s \ {Picked(s)} \in SUBSET R
    OBVIOUS
  <2>2. g[s] = IF s = {} THEN 0 ELSE f[Picked(s)] + g[s \ {Picked(s)}]
    BY <1>0, <2>1
  <2>3. h[s] = g[s] /\ h[s \ {Picked(s)}] = g[s \ {Picked(s)}]
    BY <2>1
  <2> QED BY <2>2, <2>3
<1>2. h = [s \in SUBSET R |-> h[s]]
  OBVIOUS
<1> HIDE DEF h
<1> QED BY <1>1, <1>2 DEF Totals

LEMMA TotalsUnique ==
  ASSUME NEW f, NEW S, IsFiniteSet(S), NEW g, Totals(g, f, S), NEW h, Totals(h, f, S)
  PROVE  g[S] = h[S]
<1> DEFINE C == {s \in SUBSET S : g[s] # h[s]}
<1>1. SUFFICES ASSUME C # {} PROVE FALSE
  BY <1>1
<1>2. PICK R \in C : \A Q \in C : Q \subseteq R => Q = R
  <2>1. C \in SUBSET SUBSET S
    OBVIOUS
  <2> HIDE DEF C
  <2> QED BY <1>1, <2>1, SmallestSet
<1>3. R # {}
  BY <1>2, TotalsUnfold
<1>4. Picked(R) \in R /\ R \ {Picked(R)} \notin C
  BY <1>2, <1>3, TotalsUnfold
<1>5. g[R \ {Picked(R)}] = h[R \ {Picked(R)}]
  BY <1>2, <1>4
<1> QED BY <1>2, <1>3, <1>5, TotalsUnfold

SumOf(f, s) == (CHOOSE g : Totals(g, f, s))[s]

LEMMA TotalsExist ==
  ASSUME NEW f, NEW S, IsFiniteSet(S)
  PROVE  \E g : Totals(g, f, S)
<1> DEFINE C == {s \in SUBSET S : ~\E g : Totals(g, f, s)}
<1>1. SUFFICES ASSUME C # {} PROVE FALSE
  BY <1>1
<1>2. PICK R \in C : \A Q \in C : Q \subseteq R => Q = R
  <2>1. C \in SUBSET SUBSET S
    OBVIOUS
  <2> HIDE DEF C
  <2> QED BY <1>1, <2>1, SmallestSet
<1>3. \A s \in SUBSET R : s # R => Totals(CHOOSE g : Totals(g, f, s), f, s)
  BY <1>2
<1>4. SumOf(f, {}) = 0 \/ R = {}
  BY <1>3, TotalsUnfold DEF SumOf
<1>5. ASSUME NEW s \in SUBSET R, s # R, s # {}
      PROVE  SumOf(f, s) = f[Picked(s)] + SumOf(f, s \ {Picked(s)})
  <2> DEFINE g == CHOOSE k : Totals(k, f, s)
             t == s \ {Picked(s)}
             h == CHOOSE k : Totals(k, f, t)
  <2>1. Totals(g, f, s) /\ Totals(h, f, t)
    BY <1>3, <1>5
  <2>2. g[s] = f[Picked(s)] + g[t]
    BY <2>1, <1>5, TotalsUnfold
  <2>3. IsFiniteSet(t)
    BY FS_Subset
  <2>4. g[t] = h[t]
    <3>1. Totals([r \in SUBSET t |-> g[r]], f, t)
      BY <2>1, TotalsRestrict
    <3>2. [r \in SUBSET t |-> g[r]][t] = h[t]
      BY <2>1, <2>3, <3>1, TotalsUnique
    <3> QED BY <3>2
  <2> QED BY <2>2, <2>4 DEF SumOf
<1> DEFINE new == [s \in SUBSET R |->
                     IF s = {} THEN 0
                     ELSE IF s = R THEN f[Picked(R)] + SumOf(f, R \ {Picked(R)})
                     ELSE SumOf(f, s)]
<1>6. \A s \in SUBSET R :
         new[s] = IF s = {} THEN 0 ELSE f[Picked(s)] + new[s \ {Picked(s)}]
  <2> SUFFICES ASSUME NEW s \in SUBSET R, s # {}
               PROVE  new[s] = f[Picked(s)] + new[s \ {Picked(s)}]
    OBVIOUS
  <2>1. Picked(s) \in s
    BY DEF Picked
  <2>2. new[s \ {Picked(s)}] = SumOf(f, s \ {Picked(s)})
    BY <1>4, <2>1
  <2> QED BY <1>5, <2>2
<1>7. new = [s \in SUBSET R |-> new[s]]
  OBVIOUS
<1> HIDE DEF new
<1>8. Totals(new, f, R)
  BY <1>6, <1>7 DEF Totals
<1> QED BY <1>2, <1>8

LEMMA SumIsSum ==
  ASSUME NEW f, NEW S
  PROVE  SumFunctionOnSet(f, S) = SumOf(f, S)
BY DEF SumFunctionOnSet, FoldFunctionOnSet, MapThenFoldSet, SumOf, Totals, Picked

LEMMA SumUnfolds ==
  ASSUME NEW f, NEW S, IsFiniteSet(S), S # {}
  PROVE  /\ Picked(S) \in S
         /\ SumOf(f, S) = f[Picked(S)] + SumOf(f, S \ {Picked(S)})
<1> DEFINE g == CHOOSE k : Totals(k, f, S)
           t == S \ {Picked(S)}
           h == CHOOSE k : Totals(k, f, t)
<1>1. IsFiniteSet(t)
  BY FS_Subset
<1>2. Totals(g, f, S) /\ Totals(h, f, t)
  BY <1>1, TotalsExist
<1>3. Picked(S) \in S /\ g[S] = f[Picked(S)] + g[t]
  BY <1>2, TotalsUnfold
<1>4. Totals([r \in SUBSET t |-> g[r]], f, t)
  BY <1>2, TotalsRestrict
<1>5. [r \in SUBSET t |-> g[r]][t] = h[t]
  BY <1>1, <1>2, <1>4, TotalsUnique
<1> QED BY <1>3, <1>5 DEF SumOf

-----------------------------------------------------------------------------
(* The facts to cite.                                                      *)

\* Nothing adds up to zero.
LEMMA SumEmpty ==
  ASSUME NEW f
  PROVE  SumFunctionOnSet(f, {}) = 0
<1>1. Totals(CHOOSE g : Totals(g, f, {}), f, {})
  BY TotalsExist, FS_EmptySet
<1> QED BY <1>1, TotalsUnfold, SumIsSum DEF SumOf

\* Integers add up to an integer, naturals to a natural.
LEMMA SumType ==
  ASSUME NEW f, NEW S, IsFiniteSet(S), NEW N \in {Nat, Int}, \A x \in S : f[x] \in N
  PROVE  SumFunctionOnSet(f, S) \in N
<1> DEFINE C == {s \in SUBSET S : SumOf(f, s) \notin N}
<1>1. SUFFICES ASSUME C # {} PROVE FALSE
  BY <1>1, SumIsSum
<1>2. PICK R \in C : \A Q \in C : Q \subseteq R => Q = R
  <2>1. C \in SUBSET SUBSET S
    OBVIOUS
  <2> HIDE DEF C
  <2> QED BY <1>1, <2>1, SmallestSet
<1>3. R # {} /\ IsFiniteSet(R)
  <2>1. SumOf(f, {}) = 0 /\ 0 \in N
    BY SumEmpty, SumIsSum
  <2> QED BY <1>2, <2>1, FS_Subset
<1>4. Picked(R) \in R /\ R \ {Picked(R)} \notin C
  BY <1>2, <1>3, SumUnfolds
<1>5. SumOf(f, R \ {Picked(R)}) \in N /\ f[Picked(R)] \in N
  BY <1>2, <1>4
<1>6. SumOf(f, R) = f[Picked(R)] + SumOf(f, R \ {Picked(R)})
  BY <1>3, SumUnfolds
<1> QED BY <1>2, <1>5, <1>6

\* Any element may be the one that is taken out first.
LEMMA SumRemove ==
  ASSUME NEW f, NEW S, IsFiniteSet(S), \A x \in S : f[x] \in Int, NEW e \in S
  PROVE  SumFunctionOnSet(f, S) = f[e] + SumFunctionOnSet(f, S \ {e})
<1> DEFINE C == {s \in SUBSET S : \E x \in s : SumOf(f, s) # f[x] + SumOf(f, s \ {x})}
<1>1. SUFFICES ASSUME C # {} PROVE FALSE
  BY <1>1, SumIsSum
<1>2. PICK R \in C : \A Q \in C : Q \subseteq R => Q = R
  <2>1. C \in SUBSET SUBSET S
    OBVIOUS
  <2> HIDE DEF C
  <2> QED BY <1>1, <2>1, SmallestSet
<1>3. PICK x \in R : SumOf(f, R) # f[x] + SumOf(f, R \ {x})
  BY <1>2
<1> DEFINE y == Picked(R)
           rest == R \ {x, y}
<1>4. /\ R \in SUBSET S /\ IsFiniteSet(R)
      /\ y \in R /\ SumOf(f, R) = f[y] + SumOf(f, R \ {y})
  BY <1>2, <1>3, FS_Subset, SumUnfolds
<1>5. x # y
  BY <1>3, <1>4
<1>6. R \ {x} \notin C /\ R \ {y} \notin C
  BY <1>2, <1>3, <1>4
<1>7. SumOf(f, R \ {y}) = f[x] + SumOf(f, rest)
  <2>1. (R \ {y}) \ {x} = rest /\ x \in R \ {y} /\ R \ {y} \in SUBSET S
    BY <1>4, <1>5
  <2> QED BY <1>6, <2>1
<1>8. SumOf(f, R \ {x}) = f[y] + SumOf(f, rest)
  <2>1. (R \ {x}) \ {y} = rest /\ y \in R \ {x} /\ R \ {x} \in SUBSET S
    BY <1>4, <1>5
  <2> QED BY <1>6, <2>1
<1>9. f[x] \in Int /\ f[y] \in Int /\ SumOf(f, rest) \in Int
  <2>1. rest \in SUBSET S /\ IsFiniteSet(rest)
    BY <1>4, FS_Subset
  <2>2. SumFunctionOnSet(f, rest) \in Int
    BY <2>1, SumType
  <2> QED BY <1>3, <1>4, <2>2, SumIsSum
<1> QED BY <1>3, <1>4, <1>7, <1>8, <1>9

\* A new element adds its value.
LEMMA SumAdd ==
  ASSUME NEW f, NEW S, IsFiniteSet(S), NEW e, e \notin S, \A x \in S \cup {e} : f[x] \in Int
  PROVE  SumFunctionOnSet(f, S \cup {e}) = f[e] + SumFunctionOnSet(f, S)
<1>1. IsFiniteSet(S \cup {e}) /\ e \in S \cup {e} /\ (S \cup {e}) \ {e} = S
  BY FS_AddElement
<1> QED BY <1>1, SumRemove

\* Only the values at the elements count.
LEMMA SumSame ==
  ASSUME NEW f, NEW g, NEW S, IsFiniteSet(S), \A x \in S : f[x] = g[x]
  PROVE  SumFunctionOnSet(f, S) = SumFunctionOnSet(g, S)
<1> DEFINE C == {s \in SUBSET S : SumOf(f, s) # SumOf(g, s)}
<1>1. SUFFICES ASSUME C # {} PROVE FALSE
  BY <1>1, SumIsSum
<1>2. PICK R \in C : \A Q \in C : Q \subseteq R => Q = R
  <2>1. C \in SUBSET SUBSET S
    OBVIOUS
  <2> HIDE DEF C
  <2> QED BY <1>1, <2>1, SmallestSet
<1>3. R # {} /\ IsFiniteSet(R)
  BY <1>2, SumEmpty, SumIsSum, FS_Subset
<1>4. Picked(R) \in R /\ R \ {Picked(R)} \notin C
  BY <1>2, <1>3, SumUnfolds
<1>5. SumOf(f, R \ {Picked(R)}) = SumOf(g, R \ {Picked(R)}) /\ f[Picked(R)] = g[Picked(R)]
  BY <1>2, <1>4
<1> QED BY <1>2, <1>3, <1>5, SumUnfolds

\* With fewer elements naturals add up to no more.
LEMMA SumSubset ==
  ASSUME NEW f, NEW S, IsFiniteSet(S), \A x \in S : f[x] \in Nat, NEW R \in SUBSET S
  PROVE  SumFunctionOnSet(f, R) <= SumFunctionOnSet(f, S)
<1> DEFINE C == {s \in SUBSET S : ~(SumOf(f, S \ s) <= SumOf(f, S))}
<1>1. SUFFICES ASSUME C # {} PROVE FALSE
  <2>1. S \ R \in SUBSET S /\ S \ (S \ R) = R
    OBVIOUS
  <2> QED BY <1>1, <2>1, SumIsSum
<1>2. PICK Q \in C : \A P \in C : P \subseteq Q => P = Q
  <2>1. C \in SUBSET SUBSET S
    OBVIOUS
  <2> HIDE DEF C
  <2> QED BY <1>1, <2>1, SmallestSet
<1>3. \A s \in SUBSET S : SumOf(f, s) \in Nat
  BY FS_Subset, SumType, SumIsSum
<1>4. Q # {}
  <2>1. S \ {} = S /\ SumOf(f, S) <= SumOf(f, S)
    BY <1>3
  <2> QED BY <1>2, <2>1
<1>5. PICK x \in Q : Q \ {x} \notin C
  BY <1>2, <1>4
<1>6. SumOf(f, S \ (Q \ {x})) <= SumOf(f, S)
  BY <1>2, <1>5
<1>7. SumOf(f, S \ (Q \ {x})) = f[x] + SumOf(f, S \ Q)
  <2>1. S \ (Q \ {x}) = (S \ Q) \cup {x} /\ x \notin S \ Q /\ IsFiniteSet(S \ Q)
    BY <1>2, FS_Subset
  <2>2. SumFunctionOnSet(f, (S \ Q) \cup {x}) = f[x] + SumFunctionOnSet(f, S \ Q)
    <3>1. \A y \in (S \ Q) \cup {x} : f[y] \in Int
      BY <1>2
    <3> QED BY <2>1, <3>1, SumAdd
  <2> QED BY <2>1, <2>2, SumIsSum
<1>8. f[x] \in Nat /\ SumOf(f, S \ Q) \in Nat /\ SumOf(f, S) \in Nat
  BY <1>2, <1>3
<1> QED BY <1>2, <1>6, <1>7, <1>8

\* Whatever starts at zero and grows by the value of each new element is the sum.
GrowsBy(g, f, S) ==
  /\ g[{}] = 0
  /\ \A R \in SUBSET S : \A e \in S \ R : g[R \cup {e}] = f[e] + g[R]

LEMMA SumIs ==
  ASSUME NEW f, NEW S, IsFiniteSet(S), \A x \in S : f[x] \in Int, NEW g, GrowsBy(g, f, S)
  PROVE  SumFunctionOnSet(f, S) = g[S]
<1> DEFINE C == {s \in SUBSET S : SumFunctionOnSet(f, s) # g[s]}
<1>1. SUFFICES ASSUME C # {} PROVE FALSE
  BY <1>1
<1>2. PICK R \in C : \A Q \in C : Q \subseteq R => Q = R
  <2>1. C \in SUBSET SUBSET S
    OBVIOUS
  <2> HIDE DEF C
  <2> QED BY <1>1, <2>1, SmallestSet
<1>3. R # {}
  BY <1>2, SumEmpty DEF GrowsBy
<1>4. PICK e \in R : R \ {e} \notin C
  BY <1>2, <1>3
<1> DEFINE Q == R \ {e}
<1>5. Q \in SUBSET S /\ e \in S \ Q /\ R = Q \cup {e} /\ IsFiniteSet(R)
  BY <1>2, <1>4, FS_Subset
<1>6. SumFunctionOnSet(f, Q) = g[Q]
  BY <1>4, <1>5
<1>7. SumFunctionOnSet(f, R) = f[e] + SumFunctionOnSet(f, Q)
  BY <1>4, <1>5, SumRemove
<1> HIDE DEF Q
<1>8. g[R] = f[e] + g[Q]
  BY <1>5 DEF GrowsBy
<1> QED BY <1>2, <1>6, <1>7, <1>8

\* Zeros add up to zero.
LEMMA SumZero ==
  ASSUME NEW f, NEW S, IsFiniteSet(S), \A x \in S : f[x] = 0
  PROVE  SumFunctionOnSet(f, S) = 0
<1>1. PICK g : g = [R \in SUBSET S |-> 0]
  OBVIOUS
<1>2. GrowsBy(g, f, S)
  <2>1. \A R \in SUBSET S : \A e \in S : R \cup {e} \in SUBSET S
    OBVIOUS
  <2> QED BY <1>1, <2>1 DEF GrowsBy
<1>3. g[S] = 0 /\ \A x \in S : f[x] \in Int
  BY <1>1
<1> QED BY <1>2, <1>3, SumIs

\* Sums are added value by value.
LEMMA SumPlus ==
  ASSUME NEW f, NEW h, NEW k, NEW S, IsFiniteSet(S),
         \A x \in S : h[x] \in Int /\ k[x] \in Int /\ f[x] = h[x] + k[x]
  PROVE  SumFunctionOnSet(f, S) = SumFunctionOnSet(h, S) + SumFunctionOnSet(k, S)
<1>1. PICK g : g = [R \in SUBSET S |-> SumFunctionOnSet(h, R) + SumFunctionOnSet(k, R)]
  OBVIOUS
<1>2. g[{}] = 0
  BY <1>1, SumEmpty
<1>3. ASSUME NEW R \in SUBSET S, NEW e \in S \ R
      PROVE  g[R \cup {e}] = f[e] + g[R]
  <2>1. IsFiniteSet(R) /\ R \cup {e} \in SUBSET S
    BY FS_Subset
  <2>2. /\ SumFunctionOnSet(h, R \cup {e}) = h[e] + SumFunctionOnSet(h, R)
        /\ SumFunctionOnSet(k, R \cup {e}) = k[e] + SumFunctionOnSet(k, R)
    BY <2>1, SumAdd
  <2>3. SumFunctionOnSet(h, R) \in Int /\ SumFunctionOnSet(k, R) \in Int
    BY <2>1, SumType
  <2>4. /\ g[R \cup {e}] = SumFunctionOnSet(h, R \cup {e}) + SumFunctionOnSet(k, R \cup {e})
        /\ g[R] = SumFunctionOnSet(h, R) + SumFunctionOnSet(k, R)
    BY <1>1, <2>1
  <2>5. h[e] \in Int /\ k[e] \in Int /\ f[e] = h[e] + k[e]
    OBVIOUS
  <2> QED BY <2>2, <2>3, <2>4, <2>5
<1>4. g[S] = SumFunctionOnSet(h, S) + SumFunctionOnSet(k, S)
  BY <1>1
<1>5. \A x \in S : f[x] \in Int
  OBVIOUS
<1>6. GrowsBy(g, f, S)
  BY <1>2, <1>3 DEF GrowsBy
<1>7. SumFunctionOnSet(f, S) = g[S]
  BY <1>5, <1>6, SumIs
<1> QED BY <1>4, <1>7

\* Two parts add up to the whole.
LEMMA SumUnion ==
  ASSUME NEW f, NEW S, NEW T, IsFiniteSet(S), IsFiniteSet(T), S \cap T = {},
         \A x \in S \cup T : f[x] \in Int
  PROVE  SumFunctionOnSet(f, S \cup T) = SumFunctionOnSet(f, S) + SumFunctionOnSet(f, T)
<1>1. PICK g : g = [R \in SUBSET T |-> SumFunctionOnSet(f, S \cup R) - SumFunctionOnSet(f, S)]
  OBVIOUS
<1>2. \A R \in SUBSET T : IsFiniteSet(S \cup R) /\ SumFunctionOnSet(f, S \cup R) \in Int
  <2> SUFFICES ASSUME NEW R \in SUBSET T
               PROVE  IsFiniteSet(S \cup R) /\ SumFunctionOnSet(f, S \cup R) \in Int
    OBVIOUS
  <2>1. IsFiniteSet(S \cup R)
    BY FS_Subset, FS_Union
  <2>2. \A x \in S \cup R : f[x] \in Int
    OBVIOUS
  <2> QED BY <2>1, <2>2, SumType
<1>3. g[{}] = 0 /\ SumFunctionOnSet(f, S) \in Int
  <2>1. S \cup {} = S /\ {} \in SUBSET T
    OBVIOUS
  <2>2. SumFunctionOnSet(f, S) \in Int
    BY SumType
  <2>3. g[{}] = SumFunctionOnSet(f, S) - SumFunctionOnSet(f, S)
    BY <1>1, <2>1
  <2> QED BY <2>2, <2>3
<1>4. ASSUME NEW R \in SUBSET T, NEW e \in T \ R
      PROVE  g[R \cup {e}] = f[e] + g[R]
  <2>1. R \cup {e} \in SUBSET T /\ S \cup (R \cup {e}) = (S \cup R) \cup {e} /\ e \notin S \cup R
    OBVIOUS
  <2>2. SumFunctionOnSet(f, (S \cup R) \cup {e}) = f[e] + SumFunctionOnSet(f, S \cup R)
    <3>1. \A x \in (S \cup R) \cup {e} : f[x] \in Int
      OBVIOUS
    <3> QED BY <1>2, <2>1, <3>1, SumAdd
  <2>3. /\ g[R \cup {e}] = SumFunctionOnSet(f, (S \cup R) \cup {e}) - SumFunctionOnSet(f, S)
        /\ g[R] = SumFunctionOnSet(f, S \cup R) - SumFunctionOnSet(f, S)
    BY <1>1, <2>1
  <2>4. f[e] \in Int /\ SumFunctionOnSet(f, S \cup R) \in Int
    BY <1>2
  <2> QED BY <1>3, <2>2, <2>3, <2>4
<1>5. \A x \in T : f[x] \in Int
  OBVIOUS
<1>6. SumFunctionOnSet(f, T) = g[T]
  <2>1. GrowsBy(g, f, T)
    BY <1>3, <1>4 DEF GrowsBy
  <2> QED BY <1>5, <2>1, SumIs
<1>7. g[T] = SumFunctionOnSet(f, S \cup T) - SumFunctionOnSet(f, S) /\ SumFunctionOnSet(f, S \cup T) \in Int
  BY <1>1, <1>2
<1> QED BY <1>3, <1>6, <1>7

\* Sums are subtracted value by value.
LEMMA SumMinus ==
  ASSUME NEW f, NEW h, NEW k, NEW S, IsFiniteSet(S),
         \A x \in S : h[x] \in Int /\ k[x] \in Int /\ f[x] = h[x] - k[x]
  PROVE  SumFunctionOnSet(f, S) = SumFunctionOnSet(h, S) - SumFunctionOnSet(k, S)
<1>1. \A x \in S : f[x] \in Int /\ k[x] \in Int /\ h[x] = f[x] + k[x]
  OBVIOUS
<1>2. SumFunctionOnSet(h, S) = SumFunctionOnSet(f, S) + SumFunctionOnSet(k, S)
  BY <1>1, SumPlus
<1>3. SumFunctionOnSet(f, S) \in Int /\ SumFunctionOnSet(k, S) \in Int
  BY <1>1, SumType
<1> QED BY <1>2, <1>3

LEMMA SumNegative ==
  ASSUME NEW f, NEW h, NEW S, IsFiniteSet(S), \A x \in S : h[x] \in Int /\ f[x] = -h[x]
  PROVE  SumFunctionOnSet(f, S) = -SumFunctionOnSet(h, S)
<1>1. PICK z : z = [x \in S |-> 0]
  OBVIOUS
<1>2. \A x \in S : z[x] \in Int /\ z[x] = 0 /\ h[x] \in Int /\ f[x] = z[x] - h[x]
  BY <1>1
<1>3. SumFunctionOnSet(f, S) = SumFunctionOnSet(z, S) - SumFunctionOnSet(h, S)
  BY <1>2, SumMinus
<1>4. SumFunctionOnSet(z, S) = 0
  BY <1>2, SumZero
<1>5. SumFunctionOnSet(h, S) \in Int
  BY <1>2, SumType
<1> QED BY <1>3, <1>4, <1>5

LEMMA SumSingle ==
  ASSUME NEW f, NEW e, f[e] \in Int
  PROVE  SumFunctionOnSet(f, {e}) = f[e]
<1>1. IsFiniteSet({}) /\ e \notin {} /\ {} \cup {e} = {e}
  BY FS_EmptySet
<1>2. \A x \in {} \cup {e} : f[x] \in Int
  OBVIOUS
<1>3. SumFunctionOnSet(f, {e}) = f[e] + SumFunctionOnSet(f, {})
  BY <1>1, <1>2, SumAdd
<1> QED BY <1>3, SumEmpty

\* What counts for nothing may be left out.
LEMMA SumWithin ==
  ASSUME NEW f, NEW S, IsFiniteSet(S), NEW R \in SUBSET S, \A x \in R : f[x] \in Int,
         \A x \in S \ R : f[x] = 0
  PROVE  SumFunctionOnSet(f, S) = SumFunctionOnSet(f, R)
<1>1. PICK T : T = S \ R
  OBVIOUS
<1>2. IsFiniteSet(R) /\ IsFiniteSet(T) /\ R \cap T = {} /\ R \cup T = S
  BY <1>1, FS_Subset
<1>3. \A x \in R \cup T : f[x] \in Int
  BY <1>1
<1>4. SumFunctionOnSet(f, S) = SumFunctionOnSet(f, R) + SumFunctionOnSet(f, T)
  BY <1>2, <1>3, SumUnion
<1>5. SumFunctionOnSet(f, T) = 0
  BY <1>1, <1>2, SumZero
<1>6. SumFunctionOnSet(f, R) \in Int
  BY <1>2, SumType
<1> QED BY <1>4, <1>5, <1>6

\* The same value for each element.
LEMMA SumConstant ==
  ASSUME NEW f, NEW S, IsFiniteSet(S), NEW n \in Int, \A x \in S : f[x] = n
  PROVE  SumFunctionOnSet(f, S) = Cardinality(S) * n
<1>1. PICK g : g = [R \in SUBSET S |-> Cardinality(R) * n]
  OBVIOUS
<1>2. g[{}] = 0
  BY <1>1, FS_EmptySet
<1>3. ASSUME NEW R \in SUBSET S, NEW e \in S \ R
      PROVE  g[R \cup {e}] = f[e] + g[R]
  <2>1. IsFiniteSet(R) /\ R \cup {e} \in SUBSET S
    BY FS_Subset
  <2>2. PICK m \in Nat : m = Cardinality(R)
    BY <2>1, FS_CardinalityType
  <2>3. Cardinality(R \cup {e}) = m + 1
    BY <2>1, <2>2, FS_AddElement
  <2>4. g[R \cup {e}] = (m + 1) * n /\ g[R] = m * n
    BY <1>1, <2>1, <2>2, <2>3
  <2>5. (m + 1) * n = n + m * n
    OBVIOUS
  <2> QED BY <2>4, <2>5
<1>4. \A x \in S : f[x] \in Int
  OBVIOUS
<1>5. GrowsBy(g, f, S)
  BY <1>2, <1>3 DEF GrowsBy
<1>6. SumFunctionOnSet(f, S) = g[S]
  BY <1>4, <1>5, SumIs
<1> QED BY <1>1, <1>6

\* Three parts may be added by themselves.
LEMMA SumOfThree ==
  ASSUME NEW f, NEW S, IsFiniteSet(S), NEW A \in SUBSET S, NEW B \in SUBSET S, NEW C \in SUBSET S,
         A \cap B = {}, A \cap C = {}, B \cap C = {},
         \A x \in S : f[x] \in Int, \A x \in S : x \notin A /\ x \notin B /\ x \notin C => f[x] = 0
  PROVE  SumFunctionOnSet(f, S) =
           SumFunctionOnSet(f, A) + SumFunctionOnSet(f, B) + SumFunctionOnSet(f, C)
<1>1. PICK D : D = A \cup B
  OBVIOUS
<1>2. PICK R : R = D \cup C
  OBVIOUS
<1>3. R \in SUBSET S /\ D \in SUBSET S /\ D \cap C = {}
  BY <1>1, <1>2
<1>4. IsFiniteSet(A) /\ IsFiniteSet(B) /\ IsFiniteSet(C) /\ IsFiniteSet(D)
  BY <1>3, FS_Subset
<1>5. SumFunctionOnSet(f, S) = SumFunctionOnSet(f, R)
  <2>1. \A x \in S \ R : f[x] = 0
    BY <1>1, <1>2
  <2>2. \A x \in R : f[x] \in Int
    BY <1>3
  <2> QED BY <1>3, <2>1, <2>2, SumWithin
<1>6. SumFunctionOnSet(f, R) = SumFunctionOnSet(f, D) + SumFunctionOnSet(f, C)
  BY <1>2, <1>3, <1>4, SumUnion
<1>7. SumFunctionOnSet(f, D) = SumFunctionOnSet(f, A) + SumFunctionOnSet(f, B)
  BY <1>1, <1>3, <1>4, SumUnion
<1> QED BY <1>5, <1>6, <1>7

Under(key, S, k) == {x \in S : key[x] = k}
UnderAny(key, S, K) == {x \in S : key[x] \in K}

\* The elements may be grouped by a key.
LEMMA SumGrouped ==
  ASSUME NEW f, NEW S, IsFiniteSet(S), \A x \in S : f[x] \in Int, NEW key, NEW K, IsFiniteSet(K),
         NEW groups, \A k \in K : groups[k] = SumFunctionOnSet(f, Under(key, S, k))
  PROVE  SumFunctionOnSet(groups, K) = SumFunctionOnSet(f, UnderAny(key, S, K))
<1> DEFINE In(R) == UnderAny(key, S, R)
<1>1. PICK g : g = [R \in SUBSET K |-> SumFunctionOnSet(f, In(R))]
  OBVIOUS
<1>2. g[{}] = 0
  <2>1. In({}) = {} /\ {} \in SUBSET K
    BY DEF Under, UnderAny
  <2> QED BY <1>1, <2>1, SumEmpty
<1>3. ASSUME NEW R \in SUBSET K, NEW k \in K \ R
      PROVE  g[R \cup {k}] = groups[k] + g[R]
  <2>1. PICK A : A = Under(key, S, k)
    OBVIOUS
  <2>2. PICK B : B = In(R)
    OBVIOUS
  <2>3. In(R \cup {k}) = A \cup B /\ A \cap B = {} /\ A \in SUBSET S /\ B \in SUBSET S
    BY <2>1, <2>2 DEF Under, UnderAny
  <2>4. IsFiniteSet(A) /\ IsFiniteSet(B) /\ \A x \in A \cup B : f[x] \in Int
    BY <2>3, FS_Subset
  <2>5. SumFunctionOnSet(f, A \cup B) = SumFunctionOnSet(f, A) + SumFunctionOnSet(f, B)
    BY <2>3, <2>4, SumUnion
  <2>6. R \cup {k} \in SUBSET K
    OBVIOUS
  <2>7. g[R \cup {k}] = SumFunctionOnSet(f, In(R \cup {k})) /\ g[R] = SumFunctionOnSet(f, B)
    BY <1>1, <2>2, <2>6
  <2> QED BY <2>1, <2>3, <2>5, <2>7
<1>4. \A k \in K : groups[k] \in Int
  <2> SUFFICES ASSUME NEW k \in K PROVE groups[k] \in Int
    OBVIOUS
  <2>1. PICK A : A = Under(key, S, k)
    OBVIOUS
  <2>2. IsFiniteSet(A) /\ \A x \in A : f[x] \in Int
    BY <2>1, FS_Subset DEF Under, UnderAny
  <2>3. SumFunctionOnSet(f, A) \in Int
    BY <2>2, SumType
  <2> QED BY <2>1, <2>3
<1>5. GrowsBy(g, groups, K)
  BY <1>2, <1>3 DEF GrowsBy
<1>6. SumFunctionOnSet(groups, K) = g[K]
  BY <1>4, <1>5, SumIs
<1> QED BY <1>1, <1>6

\* Instead of the elements their images may be added, if no two have the same.
Renames(key, S, K) ==
  /\ \A x \in S : key[x] \in K
  /\ \A k \in K : \E x \in S : key[x] = k
  /\ \A x \in S : \A y \in S : key[x] = key[y] => x = y

LEMMA SumImage ==
  ASSUME NEW f, NEW S, IsFiniteSet(S), \A x \in S : f[x] \in Int,
         NEW key, NEW K, IsFiniteSet(K), Renames(key, S, K),
         NEW h, \A x \in S : h[key[x]] = f[x]
  PROVE  SumFunctionOnSet(h, K) = SumFunctionOnSet(f, S)
<1>1. ASSUME NEW k \in K
      PROVE  h[k] = SumFunctionOnSet(f, Under(key, S, k))
  <2>1. PICK y \in S : key[y] = k
    BY DEF Renames
  <2>2. Under(key, S, k) = {y}
    BY <2>1 DEF Under, Renames
  <2>3. SumFunctionOnSet(f, {y}) = f[y]
    BY SumSingle
  <2> QED BY <2>1, <2>2, <2>3
<1>2. SumFunctionOnSet(h, K) = SumFunctionOnSet(f, UnderAny(key, S, K))
  <2>1. IsFiniteSet(S) /\ IsFiniteSet(K) /\ \A x \in S : f[x] \in Int
    OBVIOUS
  <2> QED BY ONLY <1>1, <2>1, SumGrouped
<1>3. UnderAny(key, S, K) = S
  BY DEF UnderAny, Renames
<1> QED BY <1>2, <1>3
=============================================================================
