----------------------------- MODULE SumLemmas -----------------------------
(***************************************************************************)
(* Sums over finite sets: what SumFunctionOnSet of the community modules,  *)
(* a recursive fold, computes.  The counters of the models are such sums   *)
(* over logs and messages.                                                 *)
(*                                                                         *)
(* Each induction is the choice of a least counterexample among the        *)
(* subsets of a finite set.  The fold picks some member and adds it to the *)
(* sum of the rest; that it is well defined is proved first (AllUnfold),   *)
(* then that the choice of the member makes no difference (SumRemove).     *)
(***************************************************************************)
EXTENDS FiniteSetsExt, FiniteSetTheorems, TLAPS

\* A nonempty set of finite subsets has a least one.
LEMMA LeastSubset ==
    ASSUME NEW S, IsFiniteSet(S), NEW F, F \subseteq SUBSET S, F # {}
    PROVE  \E T \in F : \A U \in F : U \subseteq T => U = T
<1>1. IsWellFoundedOn(StrictSubsetOrdering(S), SUBSET S)
  BY FS_StrictSubsetOrderingWellFounded, FS_FiniteSubsetsOfFinite
<1>2. PICK T \in F : \A U \in F : <<U, T>> \notin StrictSubsetOrdering(S)
  BY <1>1, WFMin
<1>3. \A U \in F : U \subseteq T => U = T
  BY <1>2 DEF StrictSubsetOrdering
<1>. QED  BY <1>2, <1>3

Chosen(s) == CHOOSE x \in s : TRUE
SumStep(f, g, s) == IF s = {} THEN 0 ELSE f[Chosen(s)] + g[s \ {Chosen(s)}]
Sums(f, S) == CHOOSE g : g = [s \in SUBSET S |-> SumStep(f, g, s)]

LEMMA SumIsSums == \A f, S : SumFunctionOnSet(f, S) = Sums(f, S)[S]
BY DEF SumFunctionOnSet, FoldFunctionOnSet, MapThenFoldSet, Sums, SumStep, Chosen

Unfolds(f, S) == \E g : g = [s \in SUBSET S |-> SumStep(f, g, s)]

LEMMA ChosenIn == \A s : s # {} => Chosen(s) \in s
  BY DEF Chosen

LEMMA SumsUnfold ==
    ASSUME NEW f, NEW S, Unfolds(f, S)
    PROVE  \A s \in SUBSET S : Sums(f, S)[s] = SumStep(f, Sums(f, S), s)
<1>1. Sums(f, S) = [s \in SUBSET S |-> SumStep(f, Sums(f, S), s)]
  BY DEF Unfolds, Sums
<1>. QED  BY <1>1

\* Two unfoldings agree where both are defined.
LEMMA SumsUnique ==
    ASSUME NEW f, NEW S, NEW T, IsFiniteSet(S), IsFiniteSet(T), Unfolds(f, S), Unfolds(f, T), T \subseteq S
    PROVE  Sums(f, S)[T] = Sums(f, T)[T]
<1> DEFINE g == Sums(f, S)
           h == Sums(f, T)
           F == {s \in SUBSET T : g[s] # h[s]}
<1>1. \A s \in SUBSET T : g[s] = SumStep(f, g, s) /\ h[s] = SumStep(f, h, s)
  BY SumsUnfold
<1> HIDE DEF g, h
<1>2. SUFFICES ASSUME F # {} PROVE FALSE
  BY DEF g, h
<1>3. PICK s \in F : \A u \in F : u \subseteq s => u = s
  <2>1. F \subseteq SUBSET T
    OBVIOUS
  <2> HIDE DEF F
  <2>. QED  BY <1>2, <2>1, LeastSubset
<1>4. s # {}
  BY <1>1, <1>3 DEF SumStep
<1>5. g[s \ {Chosen(s)}] = h[s \ {Chosen(s)}]
  BY <1>3, <1>4, ChosenIn
<1>. QED  BY <1>1, <1>3, <1>5 DEF SumStep

LEMMA AllUnfold == ASSUME NEW f, NEW S, IsFiniteSet(S) PROVE Unfolds(f, S)
<1> DEFINE F == {T \in SUBSET S : ~Unfolds(f, T)}
<1>1. SUFFICES ASSUME F # {} PROVE FALSE
  OBVIOUS
<1>2. PICK T \in F : \A U \in F : U \subseteq T => U = T
  <2>1. F \subseteq SUBSET S
    OBVIOUS
  <2> HIDE DEF F
  <2>. QED  BY <1>1, <2>1, LeastSubset
<1>3. \A U \in SUBSET T : U # T => Unfolds(f, U)
  BY <1>2
<1>4. \A U \in SUBSET T : IsFiniteSet(U)
  BY <1>2, FS_Subset
<1> DEFINE at(s) == Sums(f, s)[s]
<1> DEFINE g == [s \in SUBSET T |-> IF s = {} THEN 0 ELSE f[Chosen(s)] + at(s \ {Chosen(s)})]
<1>5. \A s \in SUBSET T : s # T => g[s] = at(s)
  <2> SUFFICES ASSUME NEW s \in SUBSET T, s # T PROVE g[s] = at(s)
    OBVIOUS
  <2>1. at(s) = SumStep(f, Sums(f, s), s)
    BY <1>3, SumsUnfold
  <2>2. CASE s = {}
    BY <2>1, <2>2 DEF SumStep
  <2>3. CASE s # {}
    <3> DEFINE u == s \ {Chosen(s)}
    <3>1. u \subseteq s /\ u # T /\ u \in SUBSET T
      BY <2>3, ChosenIn
    <3>2. Sums(f, s)[u] = at(u)
      BY <1>3, <1>4, <3>1, SumsUnique
    <3>. QED  BY <2>1, <2>3, <3>2 DEF SumStep
  <2>. QED  BY <2>2, <2>3
<1>6. \A s \in SUBSET T : s # {} => g[s \ {Chosen(s)}] = at(s \ {Chosen(s)})
  <2> SUFFICES ASSUME NEW s \in SUBSET T, s # {} PROVE g[s \ {Chosen(s)}] = at(s \ {Chosen(s)})
    OBVIOUS
  <2>1. s \ {Chosen(s)} \in SUBSET T /\ s \ {Chosen(s)} # T
    BY ChosenIn
  <2>. QED  BY <1>5, <2>1
<1>7. \A s \in SUBSET T : g[s] = SumStep(f, g, s)
  BY <1>6 DEF SumStep
<1>8. g = [s \in SUBSET T |-> SumStep(f, g, s)]
  BY <1>7
<1>9. Unfolds(f, T)
  BY <1>8 DEF Unfolds
<1>. QED  BY <1>2, <1>9

LEMMA SumUnfold ==
    ASSUME NEW f, NEW S, IsFiniteSet(S)
    PROVE  SumFunctionOnSet(f, S) =
             IF S = {} THEN 0 ELSE f[Chosen(S)] + SumFunctionOnSet(f, S \ {Chosen(S)})
<1>1. SumFunctionOnSet(f, S) = SumStep(f, Sums(f, S), S)
  BY AllUnfold, SumsUnfold, SumIsSums
<1>2. CASE S # {}
  <2> DEFINE U == S \ {Chosen(S)}
  <2>1. U \subseteq S /\ IsFiniteSet(U)
    BY FS_Subset
  <2>2. Sums(f, S)[U] = Sums(f, U)[U]
    BY <2>1, AllUnfold, SumsUnique
  <2>. QED  BY <1>1, <1>2, <2>2, SumIsSums DEF SumStep
<1>. QED  BY <1>1, <1>2 DEF SumStep

\* A sum of natural numbers is one.
LEMMA SumType ==
    ASSUME NEW f, NEW S, IsFiniteSet(S), \A x \in S : f[x] \in Nat
    PROVE  SumFunctionOnSet(f, S) \in Nat
<1> DEFINE Sum(U) == SumFunctionOnSet(f, U)
           F == {T \in SUBSET S : Sum(T) \notin Nat}
<1>1. SUFFICES ASSUME F # {} PROVE FALSE
  OBVIOUS
<1>2. PICK T \in F : \A U \in F : U \subseteq T => U = T
  <2>1. F \subseteq SUBSET S
    OBVIOUS
  <2> HIDE DEF F
  <2>. QED  BY <1>1, <2>1, LeastSubset
<1>3. Sum(T) = IF T = {} THEN 0 ELSE f[Chosen(T)] + Sum(T \ {Chosen(T)})
  BY FS_Subset, SumUnfold
<1> HIDE DEF Sum
<1>4. T # {}
  BY <1>2, <1>3
<1>5. Chosen(T) \in T
  BY <1>4, ChosenIn
<1>6. Sum(T \ {Chosen(T)}) \in Nat
  BY <1>2, <1>5
<1>. QED  BY <1>2, <1>3, <1>5, <1>6

\* Any member may be the one a sum adds last.
LEMMA SumRemove ==
    ASSUME NEW f, NEW S, IsFiniteSet(S), \A x \in S : f[x] \in Nat, NEW y \in S
    PROVE  SumFunctionOnSet(f, S) = f[y] + SumFunctionOnSet(f, S \ {y})
<1> DEFINE Sum(U) == SumFunctionOnSet(f, U)
           F == {T \in SUBSET S : \E z \in T : Sum(T) # f[z] + Sum(T \ {z})}
<1>1. SUFFICES ASSUME F # {} PROVE FALSE
  OBVIOUS
<1>2. PICK T \in F : \A U \in F : U \subseteq T => U = T
  <2>1. F \subseteq SUBSET S
    OBVIOUS
  <2> HIDE DEF F
  <2>. QED  BY <1>1, <2>1, LeastSubset
<1>3. PICK z \in T : Sum(T) # f[z] + Sum(T \ {z})
  BY <1>2
<1> DEFINE c == Chosen(T)
           U == (T \ {c}) \ {z}
<1>4. c \in T
  BY <1>3, ChosenIn
<1>5. Sum(T) = f[c] + Sum(T \ {c})
  BY <1>3, FS_Subset, SumUnfold
<1>6. Sum(U) \in Nat
  BY FS_Subset, SumType
<1> HIDE DEF Sum
<1>7. CASE c = z
  BY <1>3, <1>5, <1>7
<1>8. CASE c # z
  <2>1. T \ {c} \notin F /\ T \ {z} \notin F
    BY <1>2, <1>3, <1>4
  <2>2. Sum(T \ {c}) = f[z] + Sum(U)
    BY <1>3, <1>8, <2>1
  <2>3. (T \ {z}) \ {c} = U
    OBVIOUS
  <2>4. Sum(T \ {z}) = f[c] + Sum(U)
    BY <1>4, <1>8, <2>1, <2>3
  <2>5. f[c] \in Nat /\ f[z] \in Nat
    BY <1>3, <1>4
  <2> HIDE DEF U
  <2>. QED  BY <1>3, <1>5, <1>6, <2>2, <2>4, <2>5
<1>. QED  BY <1>7, <1>8

LEMMA SumEmpty == \A f : SumFunctionOnSet(f, {}) = 0
  BY FS_EmptySet, SumUnfold

\* The sum over one element more.
LEMMA SumAdd ==
    ASSUME NEW f, NEW S, IsFiniteSet(S), NEW y, y \notin S,
           \A x \in S \cup {y} : f[x] \in Nat
    PROVE  SumFunctionOnSet(f, S \cup {y}) = f[y] + SumFunctionOnSet(f, S)
<1>1. IsFiniteSet(S \cup {y})
  BY FS_AddElement
<1>2. (S \cup {y}) \ {y} = S
  OBVIOUS
<1>3. y \in S \cup {y}
  OBVIOUS
<1>4. SumFunctionOnSet(f, S \cup {y}) = f[y] + SumFunctionOnSet(f, (S \cup {y}) \ {y})
  BY <1>1, <1>3, SumRemove
<1>. QED  BY <1>2, <1>4

\* The sum depends on the function's values in the set alone.
LEMMA SumAgree ==
    ASSUME NEW f, NEW g, NEW S, IsFiniteSet(S), \A x \in S : f[x] = g[x]
    PROVE  SumFunctionOnSet(f, S) = SumFunctionOnSet(g, S)
<1> DEFINE F == {T \in SUBSET S : SumFunctionOnSet(f, T) # SumFunctionOnSet(g, T)}
<1>1. SUFFICES ASSUME F # {} PROVE FALSE
  OBVIOUS
<1>2. PICK T \in F : \A U \in F : U \subseteq T => U = T
  <2>1. F \subseteq SUBSET S
    OBVIOUS
  <2> HIDE DEF F
  <2>. QED  BY <1>1, <2>1, LeastSubset
<1>3. IsFiniteSet(T)
  BY FS_Subset
<1>4. T # {}
  BY <1>2, SumEmpty
<1>5. Chosen(T) \in T
  BY <1>4, ChosenIn
<1>6. SumFunctionOnSet(f, T \ {Chosen(T)}) = SumFunctionOnSet(g, T \ {Chosen(T)})
  BY <1>2, <1>5
<1>. QED  BY <1>2, <1>3, <1>5, <1>6, SumUnfold

\* The sum over two sets without a common element.
LEMMA SumDisjoint ==
    ASSUME NEW f, NEW S, NEW T, IsFiniteSet(S), IsFiniteSet(T), S \cap T = {},
           \A x \in S \cup T : f[x] \in Nat
    PROVE  SumFunctionOnSet(f, S \cup T) = SumFunctionOnSet(f, S) + SumFunctionOnSet(f, T)
<1> DEFINE Sum(U) == SumFunctionOnSet(f, U)
           F == {V \in SUBSET T : Sum(S \cup V) # Sum(S) + Sum(V)}
<1>1. SUFFICES ASSUME F # {} PROVE FALSE
  OBVIOUS
<1>2. PICK V \in F : \A U \in F : U \subseteq V => U = V
  <2>1. F \subseteq SUBSET T
    OBVIOUS
  <2> HIDE DEF F
  <2>. QED  BY <1>1, <2>1, LeastSubset
<1>3. Sum(S) \in Nat /\ Sum({}) = 0
  BY SumType, SumEmpty
<1>4. V # {}
  <2>1. S \cup {} = S
    OBVIOUS
  <2>2. Sum(S \cup {}) = Sum(S)
    BY <2>1, Zenon
  <2>3. Sum(S \cup {}) = Sum(S) + Sum({})
    BY <1>3, <2>2
  <2> HIDE DEF Sum
  <2>. QED  BY <1>2, <2>3
<1>5. PICK v \in V : TRUE
  BY <1>4
<1> DEFINE U == V \ {v}
<1>6. U \subseteq T /\ v \notin S \cup U
  OBVIOUS
<1>7. IsFiniteSet(U) /\ IsFiniteSet(S \cup U)
  BY <1>6, FS_Subset, FS_Union
<1>8. Sum(U) \in Nat
  BY <1>6, <1>7, SumType
<1>9. Sum(U \cup {v}) = f[v] + Sum(U) /\ Sum((S \cup U) \cup {v}) = f[v] + Sum(S \cup U)
  <2>1. (\A x \in U \cup {v} : f[x] \in Nat) /\ (\A x \in (S \cup U) \cup {v} : f[x] \in Nat)
    BY <1>6
  <2> HIDE DEF U
  <2>. QED  BY <1>6, <1>7, <2>1, SumAdd
<1>10. U \cup {v} = V /\ (S \cup U) \cup {v} = S \cup V
  OBVIOUS
<1>11. Sum(S \cup U) = Sum(S) + Sum(U)
  BY <1>2, <1>5
<1>12. f[v] \in Nat
  OBVIOUS
<1>13. Sum(V) = f[v] + Sum(U) /\ Sum(S \cup V) = f[v] + Sum(S \cup U)
  BY <1>9, <1>10, Zenon
<1>14. Sum(S \cup V) # Sum(S) + Sum(V)
  BY <1>2
<1> HIDE DEF Sum, U, F
<1>. QED  BY <1>3, <1>8, <1>11, <1>12, <1>13, <1>14

\* A part sums to no more than the whole.
LEMMA SumPart ==
    ASSUME NEW f, NEW S, IsFiniteSet(S), \A x \in S : f[x] \in Nat, NEW T \in SUBSET S
    PROVE  SumFunctionOnSet(f, T) <= SumFunctionOnSet(f, S)
<1>1. IsFiniteSet(T) /\ IsFiniteSet(S \ T) /\ T \cap (S \ T) = {} /\ T \cup (S \ T) = S
  BY FS_Subset
<1>2. SumFunctionOnSet(f, T \cup (S \ T)) = SumFunctionOnSet(f, T) + SumFunctionOnSet(f, S \ T)
  BY <1>1, SumDisjoint
<1>3. SumFunctionOnSet(f, T) \in Nat /\ SumFunctionOnSet(f, S \ T) \in Nat
  BY <1>1, SumType
<1>4. SumFunctionOnSet(f, S) = SumFunctionOnSet(f, T) + SumFunctionOnSet(f, S \ T)
  BY <1>1, <1>2, Zenon
<1>. QED  BY <1>3, <1>4
\* A function that exceeds another by one on a part of the set.
LEMMA SumIncrement ==
    ASSUME NEW f, NEW g, NEW S, IsFiniteSet(S), NEW R \in SUBSET S,
           \A x \in S : f[x] \in Nat /\ g[x] = IF x \in R THEN f[x] + 1 ELSE f[x]
    PROVE  SumFunctionOnSet(g, S) = SumFunctionOnSet(f, S) + Cardinality(R)
<1> DEFINE Sf(U) == SumFunctionOnSet(f, U)
           Sg(U) == SumFunctionOnSet(g, U)
           F == {T \in SUBSET S : Sg(T) # Sf(T) + Cardinality(T \cap R)}
<1>1. ASSUME F # {} PROVE FALSE
  <2>1. PICK T \in F : \A U \in F : U \subseteq T => U = T
    <3>1. F \subseteq SUBSET S
      OBVIOUS
    <3> HIDE DEF F
    <3>. QED  BY <1>1, <3>1, LeastSubset
  <2>2. T # {}
    <3>1. Sf({}) = 0 /\ Sg({}) = 0 /\ Cardinality({}) = 0 /\ {} \cap R = {}
      BY SumEmpty, FS_EmptySet
    <3>2. Sg({}) = Sf({}) + Cardinality({} \cap R)
      BY <3>1
    <3>. QED  BY <2>1, <3>2
  <2>3. PICK t \in T : TRUE
    BY <2>2
  <2> DEFINE U == T \ {t}
  <2>4. IsFiniteSet(T) /\ IsFiniteSet(U) /\ IsFiniteSet(U \cap R)
    BY FS_Subset
  <2>5. (\A x \in T : f[x] \in Nat) /\ (\A x \in T : g[x] \in Nat)
    OBVIOUS
  <2>6. Sf(T) = f[t] + Sf(U) /\ Sg(T) = g[t] + Sg(U)
    BY <2>4, <2>5, SumRemove
  <2>7. Sf(U) \in Nat /\ Cardinality(U \cap R) \in Nat
    BY <2>4, <2>5, SumType, FS_CardinalityType
  <2>8. Sg(U) = Sf(U) + Cardinality(U \cap R)
    BY <2>1, <2>3
  <2>9. f[t] \in Nat /\ g[t] = IF t \in R THEN f[t] + 1 ELSE f[t]
    OBVIOUS
  <2>10. Cardinality(T \cap R) = Cardinality(U \cap R) + (IF t \in R THEN 1 ELSE 0)
    <3>1. CASE t \in R
      <4>1. t \notin U \cap R /\ (U \cap R) \cup {t} = T \cap R
        BY <3>1
      <4>2. Cardinality((U \cap R) \cup {t}) = Cardinality(U \cap R) + 1
        BY <2>4, <4>1, FS_AddElement
      <4>3. Cardinality(T \cap R) = Cardinality(U \cap R) + 1
        BY <4>1, <4>2, Zenon
      <4>. QED  BY <3>1, <4>3
    <3>2. CASE t \notin R
      <4>1. U \cap R = T \cap R
        BY <3>2
      <4>2. Cardinality(T \cap R) = Cardinality(U \cap R)
        BY <4>1, Zenon
      <4>. QED  BY <2>7, <3>2, <4>2
    <3>. QED  BY <3>1, <3>2
  <2>11. Sg(T) # Sf(T) + Cardinality(T \cap R)
    BY <2>1
  <2> HIDE DEF Sf, Sg, U, F
  <2>. QED  BY <2>6, <2>7, <2>8, <2>9, <2>10, <2>11
<1>2. Sg(S) = Sf(S) + Cardinality(S \cap R)
  BY <1>1
<1>3. S \cap R = R
  OBVIOUS
<1>. QED  BY <1>2, <1>3, Zenon
=============================================================================
