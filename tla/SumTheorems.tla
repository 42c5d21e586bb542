----------------------------- MODULE SumTheorems -----------------------------
(***************************************************************************)
(* What the sum of a function over a finite set satisfies, for the          *)
(* operators SumFunctionOnSet and SumFunction of module Functions, by which *)
(* the invariants state what an account holds.  The sum is a fold in an     *)
(* unspecified order; the proofs go by the well-foundedness of strict       *)
(* inclusion among the subsets of a finite set.                             *)
(***************************************************************************)
EXTENDS Integers, FiniteSets, Functions, FiniteSetTheorems, TLAPS

LOCAL Pick(s) == CHOOSE x \in s : TRUE

(* g computes the fold of f on every subset of S.                           *)
FoldsTo(f, S, g) ==
    g = [s \in SUBSET S |-> IF s = {} THEN 0 ELSE f[Pick(s)] + g[s \ {Pick(s)}]]

(* Among the subsets of a finite set with some property there is one none   *)
(* of whose strict subsets has it.                                          *)
LEMMA MinimalSubset ==
  ASSUME NEW S, IsFiniteSet(S), NEW B, B \subseteq SUBSET S, B # {}
  PROVE  \E t \in B : \A u \in B : u \subseteq t => u = t
<1>1. IsWellFoundedOn(StrictSubsetOrdering(S), SUBSET S)
  BY FS_StrictSubsetOrderingWellFounded, FS_FiniteSubsetsOfFinite
<1>2. PICK t \in B : \A u \in B : ~ (<<u, t>> \in StrictSubsetOrdering(S))
  BY <1>1, WFMin
<1> QED
  BY <1>2 DEF StrictSubsetOrdering

(* A nonempty set has the element it picks. *)
LEMMA PickIn == ASSUME NEW s, s # {} PROVE Pick(s) \in s
  BY DEF Pick

(* The fold is unique. *)
LEMMA FoldUnique ==
  ASSUME NEW S, IsFiniteSet(S), NEW f, NEW g, NEW h, FoldsTo(f, S, g), FoldsTo(f, S, h)
  PROVE  g = h
<1> DEFINE B == {s \in SUBSET S : g[s] # h[s]}
<1>1. CASE B # {}
  <2>0. B \subseteq SUBSET S
    OBVIOUS
  <2>1. PICK t \in B : \A u \in B : u \subseteq t => u = t
    <3> HIDE DEF B
    <3> QED
      BY <1>1, <2>0, MinimalSubset
  <2>2. CASE t = {}
    BY <2>1, <2>2 DEF FoldsTo
  <2>3. CASE t # {}
    <3>1. Pick(t) \in t
      BY <2>3, PickIn
    <3>2. t \ {Pick(t)} \in SUBSET S /\ t \ {Pick(t)} \notin B
      BY <2>1, <3>1
    <3>3. g[t \ {Pick(t)}] = h[t \ {Pick(t)}]
      BY <3>2
    <3> QED
      BY <2>1, <2>3, <3>3 DEF FoldsTo
  <2> QED
    BY <2>2, <2>3
<1>2. CASE B = {}
  <2>1. \A s \in SUBSET S : g[s] = h[s]
    BY <1>2
  <2> QED
    BY <2>1 DEF FoldsTo
<1> QED
  BY <1>1, <1>2

(* The library's sum is the fold, whenever there is one. *)
LEMMA SumIsFold ==
  ASSUME NEW S, IsFiniteSet(S), NEW f, NEW g, FoldsTo(f, S, g)
  PROVE  SumFunctionOnSet(f, S) = g[S]
<1> DEFINE h == CHOOSE k : FoldsTo(f, S, k)
<1>1. FoldsTo(f, S, h)
  OBVIOUS
<1>2. h = g
  BY <1>1, FoldUnique
<1>3. SumFunctionOnSet(f, S) = h[S]
  BY DEF SumFunctionOnSet, FoldFunctionOnSet, MapThenFoldSet, FoldsTo, Pick
<1> QED
  BY <1>2, <1>3

(* The fold exists: it is the library's sum itself. *)
LEMMA FoldExists ==
  ASSUME NEW S, IsFiniteSet(S), NEW f
  PROVE  FoldsTo(f, S, [s \in SUBSET S |-> SumFunctionOnSet(f, s)])
<1> DEFINE G(T) == [s \in SUBSET T |-> SumFunctionOnSet(f, s)]
           B == {T \in SUBSET S : ~FoldsTo(f, T, G(T))}
<1>1. CASE B # {}
  <2>0. B \subseteq SUBSET S
    OBVIOUS
  <2>1. PICK T \in B : \A u \in B : u \subseteq T => u = T
    <3> HIDE DEF B
    <3> QED
      BY <1>1, <2>0, MinimalSubset
  <2>2. \A u \in SUBSET T : u # T => FoldsTo(f, u, G(u))
    BY <2>1
  <2>3. \A u \in SUBSET T : IsFiniteSet(u)
    BY FS_Subset
  <2> DEFINE h == [s \in SUBSET T |-> IF s = {} THEN 0
                                    ELSE f[Pick(s)] + SumFunctionOnSet(f, s \ {Pick(s)})]
  <2>4. \A u \in SUBSET T : u # T => SumFunctionOnSet(f, u) = h[u]
    <3> SUFFICES ASSUME NEW u \in SUBSET T, u # T PROVE SumFunctionOnSet(f, u) = h[u]
      OBVIOUS
    <3>1. FoldsTo(f, u, G(u))
      BY <2>2
    <3>2. SumFunctionOnSet(f, u) = G(u)[u]
      BY <2>3, <3>1, SumIsFold
    <3>3. G(u)[u] = IF u = {} THEN 0 ELSE f[Pick(u)] + G(u)[u \ {Pick(u)}]
      BY <3>1 DEF FoldsTo
    <3>4. u # {} => u \ {Pick(u)} \in SUBSET u
      OBVIOUS
    <3> QED
      BY <3>2, <3>3, <3>4
  <2>5. FoldsTo(f, T, h)
    <3>1. \A s \in SUBSET T : s # {} => h[s \ {Pick(s)}] = SumFunctionOnSet(f, s \ {Pick(s)})
      <4> SUFFICES ASSUME NEW s \in SUBSET T, s # {}
                   PROVE  h[s \ {Pick(s)}] = SumFunctionOnSet(f, s \ {Pick(s)})
        OBVIOUS
      <4>1. Pick(s) \in s
        BY PickIn
      <4>2. s \ {Pick(s)} \in SUBSET T /\ s \ {Pick(s)} # T
        BY <4>1
      <4> HIDE DEF h
      <4> QED
        BY <2>4, <4>2
    <3> QED
      BY <3>1 DEF FoldsTo
  <2>6. SumFunctionOnSet(f, T) = h[T]
    BY <2>3, <2>5, SumIsFold
  <2>7. G(T) = h
    <3> HIDE DEF h
    <3>1. h = [s \in SUBSET T |-> h[s]]
      BY DEF h
    <3> QED
      BY <2>4, <2>6, <3>1
  <2> QED
    BY <2>1, <2>5, <2>7
<1>2. CASE B = {}
  BY <1>2
<1> QED
  BY <1>1, <1>2

(* The recursive equation the sum satisfies. *)
LEMMA SumUnfold ==
  ASSUME NEW S, IsFiniteSet(S), NEW f
  PROVE  SumFunctionOnSet(f, S)
           = IF S = {} THEN 0 ELSE f[Pick(S)] + SumFunctionOnSet(f, S \ {Pick(S)})
<1> DEFINE g == [s \in SUBSET S |-> SumFunctionOnSet(f, s)]
<1>1. FoldsTo(f, S, g)
  BY FoldExists
<1>2. g[S] = IF S = {} THEN 0 ELSE f[Pick(S)] + g[S \ {Pick(S)}]
  BY <1>1 DEF FoldsTo
<1>3. S \in SUBSET S /\ S \ {Pick(S)} \in SUBSET S
  OBVIOUS
<1> QED
  BY <1>2, <1>3

(* A set that holds 0 and is closed under addition holds every sum of its   *)
(* elements.                                                                *)
LEMMA SumIn ==
  ASSUME NEW S, IsFiniteSet(S), NEW f, NEW V, 0 \in V, \A m, n \in V : m + n \in V,
         \A x \in S : f[x] \in V
  PROVE  SumFunctionOnSet(f, S) \in V
<1> DEFINE B == {T \in SUBSET S : SumFunctionOnSet(f, T) \notin V}
<1>1. CASE B # {}
  <2>0. B \subseteq SUBSET S
    OBVIOUS
  <2>1. PICK T \in B : \A u \in B : u \subseteq T => u = T
    <3> HIDE DEF B
    <3> QED
      BY <1>1, <2>0, MinimalSubset
  <2>2. IsFiniteSet(T)
    BY <2>1, FS_Subset
  <2>3. CASE T = {}
    BY <2>1, <2>2, <2>3, SumUnfold
  <2>4. CASE T # {}
    <3>1. Pick(T) \in T
      BY <2>4, PickIn
    <3>2. T \ {Pick(T)} \in SUBSET S /\ T \ {Pick(T)} \notin B
      BY <2>1, <3>1
    <3>3. SumFunctionOnSet(f, T \ {Pick(T)}) \in V /\ f[Pick(T)] \in V
      BY <2>1, <3>1, <3>2
    <3>4. SumFunctionOnSet(f, T) = f[Pick(T)] + SumFunctionOnSet(f, T \ {Pick(T)})
      BY <2>2, <2>4, SumUnfold
    <3>5. SumFunctionOnSet(f, T) \in V
      BY <3>3, <3>4
    <3> QED
      BY <2>1, <3>5
  <2> QED
    BY <2>3, <2>4
<1>2. CASE B = {}
  BY <1>2
<1> QED
  BY <1>1, <1>2

(* A sum of integers is an integer. *)
LEMMA SumInt ==
  ASSUME NEW S, IsFiniteSet(S), NEW f, \A x \in S : f[x] \in Int
  PROVE  SumFunctionOnSet(f, S) \in Int
<1>1. 0 \in Int /\ \A m, n \in Int : m + n \in Int
  OBVIOUS
<1> QED
  BY <1>1, SumIn

(* The order does not matter: any element can be taken out first. *)
LEMMA SumRemove ==
  ASSUME NEW S, IsFiniteSet(S), NEW f, \A x \in S : f[x] \in Int, NEW e \in S
  PROVE  SumFunctionOnSet(f, S) = f[e] + SumFunctionOnSet(f, S \ {e})
<1> DEFINE Bad(T) == \E x \in T : SumFunctionOnSet(f, T) # f[x] + SumFunctionOnSet(f, T \ {x})
           B == {T \in SUBSET S : Bad(T)}
<1>1. CASE B # {}
  <2>0. B \subseteq SUBSET S
    OBVIOUS
  <2>1. PICK T \in B : \A u \in B : u \subseteq T => u = T
    <3> HIDE DEF B
    <3> QED
      BY <1>1, <2>0, MinimalSubset
  <2>2. PICK x \in T : SumFunctionOnSet(f, T) # f[x] + SumFunctionOnSet(f, T \ {x})
    BY <2>1
  <2> DEFINE c == Pick(T)
  <2>3. c \in T
    BY <2>2, PickIn
  <2> HIDE DEF c
  <2>4. T \subseteq S /\ IsFiniteSet(T) /\ \A u \in SUBSET T : IsFiniteSet(u)
    BY <2>1, FS_Subset
  <2>5. SumFunctionOnSet(f, T) = f[c] + SumFunctionOnSet(f, T \ {c})
    BY <2>3, <2>4, SumUnfold DEF c
  <2>6. x # c
    BY <2>2, <2>5
  <2>7. T \ {c} \in SUBSET S /\ T \ {x} \in SUBSET S /\ T \ {c} # T /\ T \ {x} # T
    BY <2>2, <2>3, <2>4
  <2>8. ~Bad(T \ {c}) /\ ~Bad(T \ {x})
    <3> HIDE DEF Bad
    <3> QED
      BY <2>1, <2>7
  <2>9. /\ SumFunctionOnSet(f, T \ {c}) = f[x] + SumFunctionOnSet(f, (T \ {c}) \ {x})
        /\ SumFunctionOnSet(f, T \ {x}) = f[c] + SumFunctionOnSet(f, (T \ {x}) \ {c})
    BY <2>2, <2>3, <2>6, <2>8
  <2>10. (T \ {c}) \ {x} = (T \ {x}) \ {c}
    OBVIOUS
  <2>11. /\ f[x] \in Int /\ f[c] \in Int
         /\ SumFunctionOnSet(f, (T \ {c}) \ {x}) \in Int
    <3>1. (T \ {c}) \ {x} \in SUBSET T
      OBVIOUS
    <3> QED
      BY <2>2, <2>3, <2>4, <3>1, SumInt
  <2> DEFINE p == f[x]
             q == f[c]
             r == SumFunctionOnSet(f, (T \ {c}) \ {x})
             t == SumFunctionOnSet(f, T)
             u == SumFunctionOnSet(f, T \ {x})
  <2>12. /\ t = q + (p + r) /\ u = q + r /\ t # p + u
         /\ p \in Int /\ q \in Int /\ r \in Int
    BY <2>2, <2>5, <2>9, <2>10, <2>11
  <2> HIDE DEF p, q, r, t, u
  <2> QED
    BY <2>12
<1>2. CASE B = {}
  <2>1. S \in SUBSET S /\ ~Bad(S)
    <3> HIDE DEF Bad
    <3> QED
      BY <1>2
  <2> QED
    BY <2>1
<1> QED
  BY <1>1, <1>2

(* The sum depends on nothing but the values on the set. *)
LEMMA SumSame ==
  ASSUME NEW S, IsFiniteSet(S), NEW f, NEW g, \A x \in S : f[x] = g[x]
  PROVE  SumFunctionOnSet(f, S) = SumFunctionOnSet(g, S)
<1> DEFINE B == {T \in SUBSET S : SumFunctionOnSet(f, T) # SumFunctionOnSet(g, T)}
<1>1. CASE B # {}
  <2>0. B \subseteq SUBSET S
    OBVIOUS
  <2>1. PICK T \in B : \A u \in B : u \subseteq T => u = T
    <3> HIDE DEF B
    <3> QED
      BY <1>1, <2>0, MinimalSubset
  <2>2. IsFiniteSet(T)
    BY <2>1, FS_Subset
  <2>3. CASE T = {}
    BY <2>1, <2>2, <2>3, SumUnfold
  <2>4. CASE T # {}
    <3>1. Pick(T) \in T
      BY <2>4, PickIn
    <3>2. T \ {Pick(T)} \in SUBSET S /\ T \ {Pick(T)} \notin B
      BY <2>1, <3>1
    <3>3. /\ SumFunctionOnSet(f, T \ {Pick(T)}) = SumFunctionOnSet(g, T \ {Pick(T)})
          /\ f[Pick(T)] = g[Pick(T)]
      BY <2>1, <3>1, <3>2
    <3>4. /\ SumFunctionOnSet(f, T) = f[Pick(T)] + SumFunctionOnSet(f, T \ {Pick(T)})
          /\ SumFunctionOnSet(g, T) = g[Pick(T)] + SumFunctionOnSet(g, T \ {Pick(T)})
      BY <2>2, <2>4, SumUnfold
    <3> QED
      BY <2>1, <3>3, <3>4
  <2> QED
    BY <2>3, <2>4
<1>2. CASE B = {}
  BY <1>2
<1> QED
  BY <1>1, <1>2

-----------------------------------------------------------------------------
(* What the proofs about the components use. *)

(* A step that changes one value changes the sum by the difference. *)
LEMMA SumChange ==
  ASSUME NEW S, IsFiniteSet(S), NEW f \in [S -> Int], NEW g \in [S -> Int], NEW e \in S,
         \A x \in S : x # e => f[x] = g[x]
  PROVE  SumFunction(g) = SumFunction(f) - f[e] + g[e] /\ SumFunction(f) \in Int
<1>1. IsFiniteSet(S \ {e})
  BY FS_RemoveElement
<1>2. SumFunctionOnSet(f, S \ {e}) = SumFunctionOnSet(g, S \ {e})
  BY <1>1, SumSame
<1>3. /\ SumFunctionOnSet(f, S) = f[e] + SumFunctionOnSet(f, S \ {e})
      /\ SumFunctionOnSet(g, S) = g[e] + SumFunctionOnSet(g, S \ {e})
  BY SumRemove
<1>4. SumFunctionOnSet(f, S \ {e}) \in Int
  BY <1>1, SumInt
<1> QED
  BY <1>2, <1>3, <1>4 DEF SumFunction

(* A sum of naturals is a natural number, and no part exceeds it. *)
LEMMA SumNat ==
  ASSUME NEW S, IsFiniteSet(S), NEW f \in [S -> Nat]
  PROVE  SumFunction(f) \in Nat /\ \A x \in S : f[x] <= SumFunction(f)
<1>1. 0 \in Nat /\ \A m, n \in Nat : m + n \in Nat
  OBVIOUS
<1>2. SumFunctionOnSet(f, S) \in Nat
  BY <1>1, SumIn
<1>3. ASSUME NEW x \in S PROVE f[x] <= SumFunctionOnSet(f, S)
  <2>1. IsFiniteSet(S \ {x})
    BY FS_RemoveElement
  <2>2. SumFunctionOnSet(f, S \ {x}) \in Nat
    BY <1>1, <2>1, SumIn
  <2>3. SumFunctionOnSet(f, S) = f[x] + SumFunctionOnSet(f, S \ {x})
    BY SumRemove
  <2> QED
    BY <2>2, <2>3
<1> QED
  BY <1>2, <1>3 DEF SumFunction

(* A sum of zeros is zero. *)
LEMMA SumZero ==
  ASSUME NEW S, IsFiniteSet(S), NEW f \in [S -> Int], \A x \in S : f[x] = 0
  PROVE  SumFunction(f) = 0
<1>1. 0 \in {0} /\ \A m, n \in {0} : m + n \in {0}
  OBVIOUS
<1>2. SumFunctionOnSet(f, S) \in {0}
  BY <1>1, SumIn
<1> QED
  BY <1>2 DEF SumFunction
=============================================================================
