------------------------------ MODULE SumLemmas ------------------------------
(***************************************************************************)
(* Sums of integers over finite sets: what SumFunctionOnSet of the module  *)
(* Functions returns, for every function and every finite set.             *)
(*                                                                         *)
(* The induction over finite sets is carried out with sets instead of      *)
(* predicates: a set of counterexamples that is not empty has a smallest   *)
(* member (LeastSubset), and that member turns out not to be one.          *)
(***************************************************************************)
EXTENDS Integers, Functions, FiniteSetTheorems, TLAPS

LEMMA LeastSubset ==
  ASSUME NEW S, IsFiniteSet(S), NEW B, B \subseteq SUBSET S, B # {}
  PROVE  \E T \in B : \A U \in B : U \subseteq T => U = T
<1>1. IsWellFoundedOn(StrictSubsetOrdering(S), SUBSET S)
  BY FS_StrictSubsetOrderingWellFounded, FS_FiniteSubsetsOfFinite
<1>2. PICK T \in B : \A U \in B : ~(<<U, T>> \in StrictSubsetOrdering(S))
  BY <1>1, WFMin
<1> QED
  BY <1>2 DEF StrictSubsetOrdering

-----------------------------------------------------------------------------
(* The recursive function in the definition of a sum exists: take what is  *)
(* left to define as small as possible, and nothing is left.               *)

OneOf(s) == CHOOSE x \in s : TRUE
Others(s) == s \ {OneOf(s)}
SumStep(f, g, s) == IF s = {} THEN 0 ELSE f[OneOf(s)] + g[Others(s)]
IsSums(f, g, S) == g = [s \in SUBSET S |-> SumStep(f, g, s)]
Sums(f, S) == CHOOSE g : IsSums(f, g, S)

LEMMA SumIsSum ==
  ASSUME NEW f, NEW S
  PROVE  SumFunctionOnSet(f, S) = Sums(f, S)[S]
BY DEF SumFunctionOnSet, FoldFunctionOnSet, MapThenFoldSet, Sums, IsSums, SumStep, Others, OneOf

LEMMA RestIsSmaller ==
  ASSUME NEW s, s # {}
  PROVE  OneOf(s) \in s /\ Others(s) \subseteq s /\ Others(s) # s
BY DEF OneOf, Others

LEMMA SumExists ==
  ASSUME NEW f, NEW S, IsFiniteSet(S)
  PROVE  \E g : IsSums(f, g, S)
<1> DEFINE Known(D, g) == \A s \in D : g[s] = SumStep(f, g, s) /\ (s # {} => Others(s) \in D)
           Left == {H \in SUBSET (SUBSET S) : \E g : /\ g = [s \in SUBSET S |-> g[s]]
                                                    /\ Known((SUBSET S) \ H, g)}
<1>1. IsFiniteSet(SUBSET S)
  BY FS_SUBSET
<1>2. SUBSET S \in Left
  <2> DEFINE g == [s \in SUBSET S |-> 0]
  <2>1. g = [s \in SUBSET S |-> g[s]]
    OBVIOUS
  <2> QED
    BY <2>1
<1>3. Left \subseteq SUBSET (SUBSET S) /\ Left # {}
  BY <1>2
<1>8. \E H \in Left : \A K \in Left : K \subseteq H => K = H
  <2> HIDE DEF Left
  <2> QED
    BY <1>1, <1>3, LeastSubset
<1>9. PICK H \in Left : \A K \in Left : K \subseteq H => K = H
  BY <1>8
<1>4. PICK g : g = [s \in SUBSET S |-> g[s]] /\ Known((SUBSET S) \ H, g)
  OBVIOUS
<1>5. H = {}
  <2> SUFFICES ASSUME H # {} PROVE FALSE
    OBVIOUS
  <2>1. H \subseteq SUBSET S
    OBVIOUS
  <2>2. PICK t \in H : \A u \in H : u \subseteq t => u = t
    <3> HIDE DEF Left, Known
    <3>1. \E t \in H : \A u \in H : u \subseteq t => u = t
      BY <2>1, LeastSubset
    <3> QED
      BY <3>1
  <2>3. t \in SUBSET S /\ (t # {} => Others(t) \in (SUBSET S) \ H /\ Others(t) # t)
    BY <2>1, <2>2, RestIsSmaller
  <2> DEFINE h == [s \in SUBSET S |-> IF s = t THEN SumStep(f, g, t) ELSE g[s]]
  <2>4. \A s \in SUBSET S : s # t => h[s] = g[s]
    OBVIOUS
  <2>5. h[t] = SumStep(f, g, t)
    BY <2>3
  <2>6. h = [s \in SUBSET S |-> h[s]]
    OBVIOUS
  <2> HIDE DEF h
  <2>7. ASSUME NEW s \in (SUBSET S) \ (H \ {t})
        PROVE  h[s] = SumStep(f, h, s) /\ (s # {} => Others(s) \in (SUBSET S) \ (H \ {t}))
    <3>1. CASE s = t
      <4>1. t # {} => h[Others(t)] = g[Others(t)]
        BY <2>3, <2>4
      <4>2. SumStep(f, h, t) = SumStep(f, g, t)
        BY <4>1 DEF SumStep
      <4>3. t # {} => Others(t) \in (SUBSET S) \ (H \ {t})
        BY <2>3
      <4> QED
        BY <2>5, <3>1, <4>2, <4>3
    <3>2. CASE s # t
      <4>1. s \in (SUBSET S) \ H
        BY <3>2
      <4>2. g[s] = SumStep(f, g, s) /\ (s # {} => Others(s) \in (SUBSET S) \ H)
        BY <4>1, <1>4
      <4>3. s # {} => Others(s) # t
        BY <4>2, <2>2
      <4>4. s # {} => h[Others(s)] = g[Others(s)]
        BY <2>4, <4>2, <4>3
      <4>5. SumStep(f, h, s) = SumStep(f, g, s)
        BY <4>4 DEF SumStep
      <4>6. h[s] = g[s]
        BY <2>4, <3>2
      <4> QED
        BY <4>2, <4>5, <4>6
    <3> QED
      BY <3>1, <3>2
  <2>8. Known((SUBSET S) \ (H \ {t}), h)
    BY <2>7
  <2>9. H \ {t} \in Left
    BY <2>1, <2>6, <2>8
  <2> QED
    BY <2>2, <2>9, <1>9
<1>6. \A s \in SUBSET S : g[s] = SumStep(f, g, s)
  BY <1>4, <1>5
<1>7. g = [s \in SUBSET S |-> SumStep(f, g, s)]
  BY <1>4, <1>6
<1> QED
  BY <1>7 DEF IsSums

LEMMA SumIsDefined ==
  ASSUME NEW f, NEW S, IsFiniteSet(S), NEW T \in SUBSET S
  PROVE  Sums(f, S)[T] = SumStep(f, Sums(f, S), T)
<1>1. IsSums(f, Sums(f, S), S)
  BY SumExists DEF Sums
<1> QED
  BY <1>1 DEF IsSums

\* What is summed up over a part does not depend on the whole.
LEMMA SumIsLocal ==
  ASSUME NEW f, NEW S, IsFiniteSet(S), NEW T \in SUBSET S
  PROVE  Sums(f, S)[T] = SumFunctionOnSet(f, T)
<1> DEFINE Wrong == {U \in SUBSET T : Sums(f, S)[U] # Sums(f, T)[U]}
<1>1. IsFiniteSet(T)
  BY FS_Subset
<1>2. Wrong = {}
  <2> SUFFICES ASSUME Wrong # {} PROVE FALSE
    OBVIOUS
  <2>1. PICK U \in Wrong : \A V \in Wrong : V \subseteq U => V = U
    <3>1. Wrong \subseteq SUBSET T
      OBVIOUS
    <3> HIDE DEF Wrong
    <3> QED
      BY <1>1, <3>1, LeastSubset
  <2>2. U # {} => Sums(f, S)[Others(U)] = Sums(f, T)[Others(U)]
    BY <2>1, RestIsSmaller
  <2>3. Sums(f, S)[U] = SumStep(f, Sums(f, S), U) /\ Sums(f, T)[U] = SumStep(f, Sums(f, T), U)
    BY <1>1, SumIsDefined
  <2> QED
    BY <2>1, <2>2, <2>3 DEF SumStep
<1> QED
  BY <1>2, SumIsSum

-----------------------------------------------------------------------------
(* What the models use.                                                    *)

LEMMA SumEmpty ==
  ASSUME NEW f
  PROVE  SumFunctionOnSet(f, {}) = 0
<1>1. IsFiniteSet({}) /\ {} \in SUBSET {}
  BY FS_EmptySet
<1> QED
  BY <1>1, SumIsSum, SumIsDefined DEF SumStep

LEMMA SumPick ==
  ASSUME NEW f, NEW S, IsFiniteSet(S), S # {}
  PROVE  SumFunctionOnSet(f, S) = f[OneOf(S)] + SumFunctionOnSet(f, Others(S))
<1>1. S \in SUBSET S /\ Others(S) \in SUBSET S
  BY RestIsSmaller
<1>2. Sums(f, S)[S] = f[OneOf(S)] + Sums(f, S)[Others(S)]
  BY <1>1, SumIsDefined DEF SumStep
<1> QED
  BY <1>1, <1>2, SumIsSum, SumIsLocal

LEMMA SumType ==
  ASSUME NEW f, NEW S, IsFiniteSet(S), \A s \in S : f[s] \in Int
  PROVE  SumFunctionOnSet(f, S) \in Int
<1> DEFINE Wrong == {T \in SUBSET S : SumFunctionOnSet(f, T) \notin Int}
<1> SUFFICES ASSUME Wrong # {} PROVE FALSE
  OBVIOUS
<1>1. PICK T \in Wrong : \A U \in Wrong : U \subseteq T => U = T
  <2>1. Wrong \subseteq SUBSET S
    OBVIOUS
  <2> HIDE DEF Wrong
  <2> QED
    BY <2>1, LeastSubset
<1>2. T # {} /\ IsFiniteSet(T)
  <2>1. SumFunctionOnSet(f, {}) = 0
    BY SumEmpty
  <2>2. T \in SUBSET S /\ SumFunctionOnSet(f, T) \notin Int
    BY <1>1
  <2> HIDE DEF Wrong
  <2>3. 0 \in Int
    OBVIOUS
  <2>4. T # {}
    BY <2>1, <2>2, <2>3
  <2> QED
    BY <2>2, <2>4, FS_Subset
<1>3. SumFunctionOnSet(f, Others(T)) \in Int /\ f[OneOf(T)] \in Int
  BY <1>1, <1>2, RestIsSmaller
<1> QED
  BY <1>2, <1>3, SumPick

\* Any member may be taken out first.
LEMMA SumRemove ==
  ASSUME NEW f, NEW S, IsFiniteSet(S), \A s \in S : f[s] \in Int, NEW x \in S
  PROVE  SumFunctionOnSet(f, S) = f[x] + SumFunctionOnSet(f, S \ {x})
<1> DEFINE Sm(T) == SumFunctionOnSet(f, T)
           Wrong == {T \in SUBSET S : \E y \in T : Sm(T) # f[y] + Sm(T \ {y})}
<1> SUFFICES ASSUME Wrong # {} PROVE FALSE
  OBVIOUS
<1>1. PICK T \in Wrong : \A U \in Wrong : U \subseteq T => U = T
  <2>1. Wrong \subseteq SUBSET S
    OBVIOUS
  <2> HIDE DEF Wrong
  <2> QED
    BY <2>1, LeastSubset
<1>2. PICK y \in T : Sm(T) # f[y] + Sm(T \ {y})
  OBVIOUS
<1>3. \A U \in SUBSET S : IsFiniteSet(U) /\ Sm(U) \in Int
  BY FS_Subset, SumType
<1> DEFINE z == OneOf(T)
<1>4. z \in T /\ Sm(T) = f[z] + Sm(T \ {z})
  BY <1>2, <1>3, SumPick, RestIsSmaller DEF Others
<1> HIDE DEF z, Sm
<1>5. z # y
  BY <1>2, <1>4
<1>6. \A U \in SUBSET S : U \subseteq T /\ U # T => \A v \in U : Sm(U) = f[v] + Sm(U \ {v})
  BY <1>1
<1>7. Sm(T \ {z}) = f[y] + Sm((T \ {z}) \ {y})
  BY <1>2, <1>4, <1>5, <1>6
<1>8. Sm(T \ {y}) = f[z] + Sm((T \ {y}) \ {z})
  BY <1>2, <1>4, <1>5, <1>6
<1>9. (T \ {z}) \ {y} = (T \ {y}) \ {z}
  OBVIOUS
<1>10. f[y] \in Int /\ f[z] \in Int /\ Sm((T \ {y}) \ {z}) \in Int
  BY <1>3, <1>4
<1>11. Sm(T) = f[z] + (f[y] + Sm((T \ {y}) \ {z}))
  BY <1>4, <1>7, <1>9
<1>12. f[y] + Sm(T \ {y}) = f[y] + (f[z] + Sm((T \ {y}) \ {z}))
  BY <1>8
<1>13. Sm(T) = f[y] + Sm(T \ {y})
  <2> HIDE DEF Wrong
  <2> DEFINE n == Sm((T \ {y}) \ {z})
  <2>1. n \in Int
    BY <1>10
  <2> HIDE DEF n
  <2>2. f[z] + (f[y] + n) = f[y] + (f[z] + n)
    BY <1>10, <2>1
  <2> QED
    BY <1>11, <1>12, <2>2 DEF n
<1> QED
  BY <1>2, <1>13

LEMMA SumAdd ==
  ASSUME NEW f, NEW S, IsFiniteSet(S), NEW x, x \notin S, \A s \in S \cup {x} : f[s] \in Int
  PROVE  SumFunctionOnSet(f, S \cup {x}) = SumFunctionOnSet(f, S) + f[x]
<1>1. IsFiniteSet(S \cup {x}) /\ (S \cup {x}) \ {x} = S
  BY FS_AddElement
<1>2. SumFunctionOnSet(f, S) \in Int /\ f[x] \in Int
  BY SumType
<1>3. SumFunctionOnSet(f, S \cup {x}) = f[x] + SumFunctionOnSet(f, S)
  BY <1>1, SumRemove
<1> QED
  BY <1>2, <1>3

\* Only the values on the set count.
LEMMA SumSame ==
  ASSUME NEW f, NEW g, NEW S, IsFiniteSet(S), \A s \in S : f[s] = g[s]
  PROVE  SumFunctionOnSet(f, S) = SumFunctionOnSet(g, S)
<1> DEFINE Wrong == {T \in SUBSET S : SumFunctionOnSet(f, T) # SumFunctionOnSet(g, T)}
<1> SUFFICES ASSUME Wrong # {} PROVE FALSE
  OBVIOUS
<1>1. PICK T \in Wrong : \A U \in Wrong : U \subseteq T => U = T
  <2>1. Wrong \subseteq SUBSET S
    OBVIOUS
  <2> HIDE DEF Wrong
  <2> QED
    BY <2>1, LeastSubset
<1>2. T # {} /\ IsFiniteSet(T)
  <2>1. SumFunctionOnSet(f, {}) = 0 /\ SumFunctionOnSet(g, {}) = 0
    BY SumEmpty
  <2> QED
    BY <2>1, FS_Subset
<1>3. SumFunctionOnSet(f, Others(T)) = SumFunctionOnSet(g, Others(T)) /\ f[OneOf(T)] = g[OneOf(T)]
  BY <1>1, <1>2, RestIsSmaller
<1> QED
  BY <1>2, <1>3, SumPick

\* A part of a sum of natural numbers is at most the whole.
LEMMA SumOfPart ==
  ASSUME NEW f, NEW S, IsFiniteSet(S), \A s \in S : f[s] \in Nat, NEW T, T \subseteq S
  PROVE  SumFunctionOnSet(f, T) <= SumFunctionOnSet(f, S)
<1> DEFINE Sm(U) == SumFunctionOnSet(f, T \cup U)
           Wrong == {U \in SUBSET (S \ T) : ~(Sm({}) <= Sm(U))}
<1>1. IsFiniteSet(S \ T) /\ Sm({}) = SumFunctionOnSet(f, T) /\ Sm(S \ T) = SumFunctionOnSet(f, S)
  <2>1. T \cup {} = T /\ T \cup (S \ T) = S
    OBVIOUS
  <2> QED
    BY <2>1, FS_Subset
<1>2. \A U \in SUBSET (S \ T) : Sm(U) \in Int
  <2> SUFFICES ASSUME NEW U \in SUBSET (S \ T) PROVE Sm(U) \in Int
    OBVIOUS
  <2>1. IsFiniteSet(T \cup U) /\ \A s \in T \cup U : f[s] \in Int
    BY FS_Subset
  <2> QED
    BY <2>1, SumType
<1>3. Wrong = {}
  <2> SUFFICES ASSUME Wrong # {} PROVE FALSE
    OBVIOUS
  <2>1. PICK U \in Wrong : \A V \in Wrong : V \subseteq U => V = U
    <3>1. Wrong \subseteq SUBSET (S \ T)
      OBVIOUS
    <3> HIDE DEF Wrong
    <3> QED
      BY <1>1, <3>1, LeastSubset
  <2>2. U \in SUBSET (S \ T) /\ ~(Sm({}) <= Sm(U))
    OBVIOUS
  <2> HIDE DEF Sm
  <2>3. U # {}
    BY <1>2, <2>2
  <2> DEFINE x == OneOf(U)
             V == Others(U)
  <2>4. x \in U /\ V \subseteq U /\ V # U /\ V = U \ {x}
    BY <2>3, RestIsSmaller DEF Others
  <2> HIDE DEF x, V
  <2>5. Sm({}) <= Sm(V)
    BY <2>1, <2>2, <2>4
  <2>6. Sm(U) = Sm(V) + f[x]
    <3>1. IsFiniteSet(T \cup V) /\ x \notin T \cup V /\ (T \cup V) \cup {x} = T \cup U
      BY <2>2, <2>4, FS_Subset
    <3>2. \A s \in (T \cup V) \cup {x} : f[s] \in Int
      BY <2>2, <2>4
    <3> QED
      BY <3>1, <3>2, SumAdd DEF Sm
  <2>7. Sm(V) \in Int /\ Sm({}) \in Int /\ f[x] \in Nat
    BY <1>2, <2>2, <2>4
  <2> QED
    BY <2>2, <2>5, <2>6, <2>7
<1>4. S \ T \in SUBSET (S \ T)
  OBVIOUS
<1> HIDE DEF Sm
<1> QED
  BY <1>1, <1>3, <1>4

=============================================================================
