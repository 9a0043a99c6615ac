----------------------------- MODULE SumTheorems -----------------------------
(***************************************************************************)
(* Facts about SumFunctionOnSet(f, S), the sum of f[x] for the x of a      *)
(* finite set S.  An induction over a finite set is made with WFMin: a     *)
(* non-empty collection of its subsets has a minimal member.               *)
(***************************************************************************)
EXTENDS Integers, FiniteSets, FiniteSetsExt, FiniteSetTheorems, TLAPS

Pick(s) == CHOOSE x \in s : TRUE

(* g tabulates the sums of f over the subsets of S. *)
Tabulates(g, f, S) ==
  g = [s \in SUBSET S |-> IF s = {} THEN 0 ELSE f[Pick(s)] + g[s \ {Pick(s)}]]

Table(f, S) == CHOOSE g : Tabulates(g, f, S)

(* What the library's definition unfolds to. *)
LEMMA SumIsTable ==
  ASSUME NEW f, NEW S
  PROVE  SumFunctionOnSet(f, S) = Table(f, S)[S]
BY DEF SumFunctionOnSet, FoldFunctionOnSet, MapThenFoldSet, Table, Tabulates, Pick

(* A non-empty collection of subsets of a finite set has a member none of
   whose proper subsets is in it. *)
LEMMA MinimalSubset ==
  ASSUME NEW S, IsFiniteSet(S), NEW B \in SUBSET (SUBSET S), B # {}
  PROVE  \E T \in B : \A U \in SUBSET T : U # T => U \notin B
<1>1. IsWellFoundedOn(StrictSubsetOrdering(S), SUBSET S)
  BY FS_StrictSubsetOrderingWellFounded, FS_FiniteSubsetsOfFinite
<1>2. PICK T \in B : \A U \in B : <<U, T>> \notin StrictSubsetOrdering(S)
  BY <1>1, WFMin
<1>3. ASSUME NEW U \in SUBSET T, U # T, U \in B
      PROVE  FALSE
  BY <1>2, <1>3 DEF StrictSubsetOrdering
<1> QED
  BY <1>2, <1>3

(* Two tables agree where both are defined. *)
LEMMA TablesAgree ==
  ASSUME NEW f, NEW S, IsFiniteSet(S), NEW R \in SUBSET S, NEW Q \in SUBSET S,
         NEW g, NEW h, Tabulates(g, f, R), Tabulates(h, f, Q)
  PROVE  \A s \in SUBSET R : s \in SUBSET Q => g[s] = h[s]
<1> DEFINE B == {s \in SUBSET R : s \in SUBSET Q /\ g[s] # h[s]}
<1> SUFFICES ASSUME B # {}
             PROVE  FALSE
  OBVIOUS
<1>1. PICK T \in B : \A U \in SUBSET T : U # T => U \notin B
  <2>1. B \in SUBSET (SUBSET S)
    OBVIOUS
  <2> HIDE DEF B
  <2> QED
    BY <2>1, MinimalSubset
<1>2. CASE T = {}
  BY <1>1, <1>2 DEF Tabulates
<1>3. CASE T # {}
  <2>1. Pick(T) \in T
    BY <1>3 DEF Pick
  <2>2. g[T \ {Pick(T)}] = h[T \ {Pick(T)}]
    BY <1>1, <2>1
  <2>3. g[T] = f[Pick(T)] + g[T \ {Pick(T)}]
    BY <1>1, <1>3 DEF Tabulates
  <2>4. h[T] = f[Pick(T)] + h[T \ {Pick(T)}]
    BY <1>1, <1>3 DEF Tabulates
  <2>5. g[T] # h[T]
    BY <1>1
  <2> QED
    BY <2>2, <2>3, <2>4, <2>5
<1> QED
  BY <1>2, <1>3

(* The sums over the subsets of a finite set have a table. *)
LEMMA TableExists ==
  ASSUME NEW f, NEW S, IsFiniteSet(S)
  PROVE  \A T \in SUBSET S : Tabulates(Table(f, T), f, T)
<1> DEFINE B == {T \in SUBSET S : ~ Tabulates(Table(f, T), f, T)}
<1> SUFFICES ASSUME B # {}
             PROVE  FALSE
  OBVIOUS
<1>1. PICK T \in B : \A U \in SUBSET T : U # T => U \notin B
  <2>1. B \in SUBSET (SUBSET S)
    OBVIOUS
  <2> HIDE DEF B
  <2> QED
    BY <2>1, MinimalSubset
<1> DEFINE Of(u) == Table(f, u)[u]
           h == [s \in SUBSET T |-> IF s = {} THEN 0 ELSE f[Pick(s)] + Of(s \ {Pick(s)})]
<1>2. ASSUME NEW s \in SUBSET T, s # {}
      PROVE  h[s \ {Pick(s)}] = Of(s \ {Pick(s)})
  <2> DEFINE u == s \ {Pick(s)}
             v == u \ {Pick(u)}
  <2>1. Pick(s) \in s
    BY <1>2 DEF Pick
  <2>2. u \in SUBSET T /\ u # T
    BY <2>1
  <2>3. Tabulates(Table(f, u), f, u)
    BY <1>1, <2>2
  <2>4. CASE u = {}
    <3>1. Table(f, u)[u] = 0
      BY <2>3, <2>4 DEF Tabulates
    <3> QED
      BY <3>1, <2>2, <2>4
  <2>5. CASE u # {}
    <3>1. Pick(u) \in u
      BY <2>5 DEF Pick
    <3>2. v \in SUBSET T /\ v # T /\ v \in SUBSET u
      BY <2>2
    <3>3. Tabulates(Table(f, v), f, v)
      BY <1>1, <3>2
    <3>4. Table(f, u)[v] = Table(f, v)[v]
      <4> HIDE DEF u, v
      <4>1. IsFiniteSet(S) /\ u \in SUBSET S /\ v \in SUBSET S
        BY <2>2, <3>2, <1>1
      <4>2. v \in SUBSET u /\ v \in SUBSET v
        BY <3>2
      <4> QED
        BY <4>1, <4>2, <2>3, <3>3, TablesAgree
    <3>5. Table(f, u)[u] = f[Pick(u)] + Table(f, u)[v]
      <4> HIDE DEF u
      <4> QED
        BY <2>3, <2>5 DEF Tabulates
    <3>6. h[u] = f[Pick(u)] + Table(f, v)[v]
      <4> HIDE DEF u
      <4> QED
        BY <2>2, <2>5
    <3> QED
      BY <3>4, <3>5, <3>6
  <2> QED
    BY <2>4, <2>5
<1>3. h = [s \in SUBSET T |-> IF s = {} THEN 0 ELSE f[Pick(s)] + h[s \ {Pick(s)}]]
  <2>1. \A s \in SUBSET T : (IF s = {} THEN 0 ELSE f[Pick(s)] + Of(s \ {Pick(s)}))
                              = (IF s = {} THEN 0 ELSE f[Pick(s)] + h[s \ {Pick(s)}])
    <3> HIDE DEF h, Of
    <3> QED
      BY <1>2
  <2> HIDE DEF Of
  <2> QED
    BY <2>1
<1>4. Tabulates(h, f, T)
  <2> HIDE DEF h
  <2> QED
    BY <1>3 DEF Tabulates
<1>5. Tabulates(Table(f, T), f, T)
  <2> HIDE DEF h
  <2> QED
    BY <1>4 DEF Table
<1> QED
  BY <1>1, <1>5

(* The recursion that defines the sum. *)
LEMMA SumRecursion ==
  ASSUME NEW f, NEW S, IsFiniteSet(S)
  PROVE  SumFunctionOnSet(f, S) =
           IF S = {} THEN 0
           ELSE f[Pick(S)] + SumFunctionOnSet(f, S \ {Pick(S)})
<1> DEFINE u == S \ {Pick(S)}
<1>1. Tabulates(Table(f, S), f, S) /\ Tabulates(Table(f, u), f, u)
  BY TableExists
<1>2. Table(f, S)[S] = IF S = {} THEN 0 ELSE f[Pick(S)] + Table(f, S)[u]
  BY <1>1 DEF Tabulates
<1>3. Table(f, S)[u] = Table(f, u)[u]
  <2>1. u \in SUBSET S
    OBVIOUS
  <2>2. S \in SUBSET S /\ u \in SUBSET u
    OBVIOUS
  <2> HIDE DEF u
  <2> QED
    BY <1>1, <2>1, <2>2, TablesAgree
<1>4. SumFunctionOnSet(f, S) = Table(f, S)[S] /\ SumFunctionOnSet(f, u) = Table(f, u)[u]
  BY SumIsTable
<1> QED
  BY <1>2, <1>3, <1>4

LEMMA SumOfNone ==
  ASSUME NEW f
  PROVE  SumFunctionOnSet(f, {}) = 0
BY SumRecursion, FS_EmptySet

(* The sum of integers is an integer, and any of the elements may be the
   one that is taken out first. *)
LEMMA SumTakesOut ==
  ASSUME NEW S, IsFiniteSet(S), NEW f, \A x \in S : f[x] \in Int
  PROVE  /\ SumFunctionOnSet(f, S) \in Int
         /\ \A x \in S : SumFunctionOnSet(f, S) = f[x] + SumFunctionOnSet(f, S \ {x})
<1> DEFINE Sum(s) == SumFunctionOnSet(f, s)
           Good(s) == Sum(s) \in Int /\ \A x \in s : Sum(s) = f[x] + Sum(s \ {x})
           B == {T \in SUBSET S : ~ Good(T)}
<1> SUFFICES ASSUME B # {}
             PROVE  FALSE
  OBVIOUS
<1>1. PICK T \in B : \A U \in SUBSET T : U # T => U \notin B
  <2>1. B \in SUBSET (SUBSET S)
    OBVIOUS
  <2> HIDE DEF B
  <2> QED
    BY <2>1, MinimalSubset
<1>2. T \in SUBSET S /\ ~ Good(T) /\ \A U \in SUBSET T : U # T => Good(U)
  <2> HIDE DEF Good
  <2> QED
    BY <1>1
<1>3. \A s \in SUBSET S : Sum(s) = IF s = {} THEN 0 ELSE f[Pick(s)] + Sum(s \ {Pick(s)})
  BY SumRecursion, FS_Subset
<1> HIDE DEF Sum
<1>4. CASE T = {}
  BY <1>2, <1>3, <1>4
<1>5. CASE T # {}
  <2> DEFINE p == Pick(T)
  <2>1. p \in T
    BY <1>5 DEF Pick
  <2>2. Sum(T) = f[p] + Sum(T \ {p})
    BY <1>2, <1>3, <1>5
  <2> HIDE DEF p
  <2>3. Good(T \ {p}) /\ f[p] \in Int
    BY <1>2, <2>1
  <2>4. Sum(T) \in Int
    BY <2>2, <2>3
  <2>5. ASSUME NEW x \in T
        PROVE  Sum(T) = f[x] + Sum(T \ {x})
    <3>1. CASE x = p
      BY <2>2, <3>1
    <3>2. CASE x # p
      <4> DEFINE V == (T \ {p}) \ {x}
      <4>1. Good(T \ {x}) /\ V = (T \ {x}) \ {p} /\ f[x] \in Int
        BY <1>2, <2>5
      <4>2. Sum(T \ {p}) = f[x] + Sum(V)
        BY <2>3, <3>2
      <4>3. Sum(T \ {x}) = f[p] + Sum(V)
        BY <4>1, <2>1, <3>2
      <4>4. V \in SUBSET T /\ V # T
        BY <2>1
      <4>5. Sum(V) \in Int
        BY <1>2, <4>4
      <4>6. f[p] \in Int /\ f[x] \in Int
        BY <2>3, <4>1
      <4> HIDE DEF V, Good
      <4> QED
        BY <2>2, <4>2, <4>3, <4>5, <4>6
    <3> QED
      BY <3>1, <3>2
  <2> QED
    BY <1>2, <2>4, <2>5
<1> QED
  BY <1>4, <1>5

LEMMA SumInt ==
  ASSUME NEW S, IsFiniteSet(S), NEW f, \A x \in S : f[x] \in Int
  PROVE  SumFunctionOnSet(f, S) \in Int
BY SumTakesOut

(* Two functions that agree on the set have the same sum. *)
LEMMA SumAgrees ==
  ASSUME NEW S, IsFiniteSet(S), NEW f, NEW g,
         \A x \in S : f[x] \in Int, \A x \in S : g[x] = f[x]
  PROVE  SumFunctionOnSet(g, S) = SumFunctionOnSet(f, S)
<1> DEFINE B == {T \in SUBSET S : SumFunctionOnSet(g, T) # SumFunctionOnSet(f, T)}
<1> SUFFICES ASSUME B # {}
             PROVE  FALSE
  OBVIOUS
<1>1. PICK T \in B : \A U \in SUBSET T : U # T => U \notin B
  <2>1. B \in SUBSET (SUBSET S)
    OBVIOUS
  <2> HIDE DEF B
  <2> QED
    BY <2>1, MinimalSubset
<1>2. T \in SUBSET S /\ IsFiniteSet(T)
  BY <1>1, FS_Subset
<1>3. T # {}
  BY <1>1, SumOfNone
<1>4. Pick(T) \in T
  BY <1>3 DEF Pick
<1>5. SumFunctionOnSet(g, T \ {Pick(T)}) = SumFunctionOnSet(f, T \ {Pick(T)})
  BY <1>1, <1>4
<1>6. /\ SumFunctionOnSet(g, T) = g[Pick(T)] + SumFunctionOnSet(g, T \ {Pick(T)})
      /\ SumFunctionOnSet(f, T) = f[Pick(T)] + SumFunctionOnSet(f, T \ {Pick(T)})
  BY <1>2, <1>3, SumRecursion
<1>7. g[Pick(T)] = f[Pick(T)]
  BY <1>2, <1>4
<1>8. SumFunctionOnSet(g, T) # SumFunctionOnSet(f, T)
  BY <1>1
<1> QED
  BY <1>5, <1>6, <1>7, <1>8

(* One element changes: the sum changes by as much. *)
LEMMA SumChanges ==
  ASSUME NEW S, IsFiniteSet(S), NEW f, NEW g, NEW x \in S,
         \A y \in S : f[y] \in Int, g[x] \in Int,
         \A y \in S : y # x => g[y] = f[y]
  PROVE  SumFunctionOnSet(g, S) = SumFunctionOnSet(f, S) + g[x] - f[x]
<1> DEFINE U == S \ {x}
<1>1. IsFiniteSet(U) /\ \A y \in U : f[y] \in Int /\ g[y] = f[y]
  BY FS_RemoveElement
<1>2. SumFunctionOnSet(g, U) = SumFunctionOnSet(f, U) /\ SumFunctionOnSet(f, U) \in Int
  <2> HIDE DEF U
  <2> QED
    BY <1>1, SumAgrees, SumInt
<1>3. \A y \in S : g[y] \in Int
  OBVIOUS
<1>4. /\ SumFunctionOnSet(f, S) = f[x] + SumFunctionOnSet(f, U)
      /\ SumFunctionOnSet(g, S) = g[x] + SumFunctionOnSet(g, U)
  BY <1>3, SumTakesOut
<1> HIDE DEF U
<1> QED
  BY <1>2, <1>4

(* An element joins the set. *)
LEMMA SumAdds ==
  ASSUME NEW S, IsFiniteSet(S), NEW x, x \notin S, NEW f,
         \A y \in S \cup {x} : f[y] \in Int
  PROVE  SumFunctionOnSet(f, S \cup {x}) = f[x] + SumFunctionOnSet(f, S)
<1> DEFINE T == S \cup {x}
<1>1. IsFiniteSet(T) /\ x \in T /\ T \ {x} = S
  BY FS_AddElement
<1>2. \A y \in T : f[y] \in Int
  OBVIOUS
<1> HIDE DEF T
<1>3. SumFunctionOnSet(f, T) = f[x] + SumFunctionOnSet(f, T \ {x})
  BY <1>1, <1>2, SumTakesOut
<1> QED
  BY <1>1, <1>3 DEF T

LEMMA SumOfZeros ==
  ASSUME NEW S, IsFiniteSet(S), NEW f, \A x \in S : f[x] = 0
  PROVE  SumFunctionOnSet(f, S) = 0
<1> DEFINE B == {T \in SUBSET S : SumFunctionOnSet(f, T) # 0}
<1> SUFFICES ASSUME B # {}
             PROVE  FALSE
  OBVIOUS
<1>1. PICK T \in B : \A U \in SUBSET T : U # T => U \notin B
  <2>1. B \in SUBSET (SUBSET S)
    OBVIOUS
  <2> HIDE DEF B
  <2> QED
    BY <2>1, MinimalSubset
<1>2. T \in SUBSET S /\ IsFiniteSet(T) /\ T # {}
  BY <1>1, FS_Subset, SumOfNone
<1>3. Pick(T) \in T
  BY <1>2 DEF Pick
<1>4. SumFunctionOnSet(f, T) = f[Pick(T)] + SumFunctionOnSet(f, T \ {Pick(T)})
  BY <1>2, SumRecursion
<1>5. f[Pick(T)] = 0 /\ SumFunctionOnSet(f, T \ {Pick(T)}) = 0
  BY <1>1, <1>2, <1>3
<1> QED
  BY <1>1, <1>4, <1>5

(* A sum of naturals is a natural, no smaller than any of its terms. *)
LEMMA SumNat ==
  ASSUME NEW S, IsFiniteSet(S), NEW f, \A x \in S : f[x] \in Nat
  PROVE  /\ SumFunctionOnSet(f, S) \in Nat
         /\ \A x \in S : f[x] <= SumFunctionOnSet(f, S)
<1> DEFINE B == {T \in SUBSET S : SumFunctionOnSet(f, T) \notin Nat}
<1>1. B = {}
  <2> SUFFICES ASSUME B # {}
               PROVE  FALSE
    OBVIOUS
  <2>1. PICK T \in B : \A U \in SUBSET T : U # T => U \notin B
    <3>1. B \in SUBSET (SUBSET S)
      OBVIOUS
    <3> HIDE DEF B
    <3> QED
      BY <3>1, MinimalSubset
  <2>2. T \in SUBSET S /\ IsFiniteSet(T) /\ T # {}
    <3>1. SumFunctionOnSet(f, {}) \in Nat
      BY SumOfNone
    <3> QED
      BY <2>1, <3>1, FS_Subset
  <2>3. Pick(T) \in T
    BY <2>2 DEF Pick
  <2>4. SumFunctionOnSet(f, T) = f[Pick(T)] + SumFunctionOnSet(f, T \ {Pick(T)})
    BY <2>2, SumRecursion
  <2>5. f[Pick(T)] \in Nat /\ SumFunctionOnSet(f, T \ {Pick(T)}) \in Nat
    BY <2>1, <2>2, <2>3
  <2> QED
    BY <2>1, <2>4, <2>5
<1>2. \A T \in SUBSET S : SumFunctionOnSet(f, T) \in Nat
  BY <1>1
<1>3. ASSUME NEW x \in S
      PROVE  f[x] <= SumFunctionOnSet(f, S)
  <2>1. SumFunctionOnSet(f, S) = f[x] + SumFunctionOnSet(f, S \ {x})
    BY SumTakesOut
  <2>2. SumFunctionOnSet(f, S \ {x}) \in Nat
    BY <1>2
  <2> QED
    BY <2>1, <2>2
<1> QED
  BY <1>2, <1>3

(* The larger the terms the larger the sum. *)
LEMMA SumMonotonic ==
  ASSUME NEW S, IsFiniteSet(S), NEW f, NEW g,
         \A x \in S : f[x] \in Int /\ g[x] \in Int /\ f[x] <= g[x]
  PROVE  SumFunctionOnSet(f, S) <= SumFunctionOnSet(g, S)
<1> DEFINE B == {T \in SUBSET S : ~ (SumFunctionOnSet(f, T) <= SumFunctionOnSet(g, T))}
<1> SUFFICES ASSUME B # {}
             PROVE  FALSE
  OBVIOUS
<1>1. PICK T \in B : \A U \in SUBSET T : U # T => U \notin B
  <2>1. B \in SUBSET (SUBSET S)
    OBVIOUS
  <2> HIDE DEF B
  <2> QED
    BY <2>1, MinimalSubset
<1>2. T \in SUBSET S /\ IsFiniteSet(T) /\ T # {}
  <2>1. SumFunctionOnSet(f, {}) <= SumFunctionOnSet(g, {})
    BY SumOfNone
  <2> QED
    BY <1>1, <2>1, FS_Subset
<1> DEFINE x == Pick(T)
           U == T \ {x}
<1>3. x \in T /\ IsFiniteSet(U)
  BY <1>2, FS_RemoveElement DEF Pick
<1>4. /\ SumFunctionOnSet(f, T) = f[x] + SumFunctionOnSet(f, U)
      /\ SumFunctionOnSet(g, T) = g[x] + SumFunctionOnSet(g, U)
  BY <1>2, SumRecursion
<1>5. SumFunctionOnSet(f, U) <= SumFunctionOnSet(g, U)
  BY <1>1, <1>3
<1>6. SumFunctionOnSet(f, U) \in Int /\ SumFunctionOnSet(g, U) \in Int
  <2>1. \A y \in U : f[y] \in Int /\ g[y] \in Int
    BY <1>2
  <2> HIDE DEF U
  <2> QED
    BY <1>3, <2>1, SumInt
<1>7. f[x] \in Int /\ g[x] \in Int /\ f[x] <= g[x]
  BY <1>2, <1>3
<1>8. ~ (SumFunctionOnSet(f, T) <= SumFunctionOnSet(g, T))
  BY <1>1
<1> HIDE DEF x, U
<1> QED
  BY <1>4, <1>5, <1>6, <1>7, <1>8

(* Elements that add nothing may be left out. *)
LEMMA SumRestricts ==
  ASSUME NEW S, IsFiniteSet(S), NEW T \in SUBSET S, NEW f, NEW g,
         \A x \in S : f[x] \in Int, \A x \in S \ T : f[x] = 0,
         \A x \in T : g[x] = f[x]
  PROVE  SumFunctionOnSet(g, T) = SumFunctionOnSet(f, S)
<1> DEFINE Same(U) == SumFunctionOnSet(f, U) = SumFunctionOnSet(f, U \cap T)
           B == {U \in SUBSET S : ~ Same(U)}
<1>1. B = {}
  <2> SUFFICES ASSUME B # {}
               PROVE  FALSE
    OBVIOUS
  <2>1. PICK U \in B : \A V \in SUBSET U : V # U => V \notin B
    <3>1. B \in SUBSET (SUBSET S)
      OBVIOUS
    <3> HIDE DEF B
    <3> QED
      BY <3>1, MinimalSubset
  <2>2. U \in SUBSET S /\ ~ Same(U) /\ \A V \in SUBSET U : V # U => Same(V)
    BY <2>1
  <2>3. U # {}
    <3>1. {} \cap T = {}
      OBVIOUS
    <3> QED
      BY <2>2, <3>1
  <2>4. PICK x \in U : TRUE
    BY <2>3
  <2> DEFINE V == U \ {x}
             W == U \cap T
  <2>5. /\ IsFiniteSet(U) /\ IsFiniteSet(W)
        /\ \A y \in U : f[y] \in Int
        /\ \A y \in W : f[y] \in Int
    BY <2>2, FS_Subset, FS_Intersection
  <2>6. SumFunctionOnSet(f, U) = f[x] + SumFunctionOnSet(f, V) /\ SumFunctionOnSet(f, U) \in Int
    BY <2>4, <2>5, SumTakesOut
  <2>7. SumFunctionOnSet(f, V) = SumFunctionOnSet(f, V \cap T)
    BY <2>2, <2>4
  <2>8. CASE x \in T
    <3>1. x \in W /\ W \ {x} = V \cap T
      BY <2>4, <2>8
    <3> HIDE DEF V, W
    <3>2. SumFunctionOnSet(f, W) = f[x] + SumFunctionOnSet(f, V \cap T)
      BY <2>5, <3>1, SumTakesOut
    <3> QED
      BY <2>2, <2>6, <2>7, <3>2 DEF W
  <2>9. CASE x \notin T
    <3>1. W = V \cap T /\ f[x] = 0
      BY <2>2, <2>4, <2>9
    <3>2. SumFunctionOnSet(f, V) \in Int
      <4>1. IsFiniteSet(V) /\ \A y \in V : f[y] \in Int
        BY <2>5, FS_RemoveElement
      <4> HIDE DEF V
      <4> QED
        BY <4>1, SumInt
    <3> HIDE DEF V, W
    <3> QED
      BY <2>2, <2>6, <2>7, <3>1, <3>2 DEF W
  <2> QED
    BY <2>8, <2>9
<1>2. SumFunctionOnSet(f, S) = SumFunctionOnSet(f, T)
  <2>1. S \cap T = T /\ S \in SUBSET S
    OBVIOUS
  <2>2. Same(S)
    BY <1>1, <2>1
  <2> QED
    BY <2>1, <2>2
<1>3. SumFunctionOnSet(g, T) = SumFunctionOnSet(f, T)
  BY SumAgrees, FS_Subset
<1> QED
  BY <1>2, <1>3
==============================================================================
