-------------------------------- MODULE Sums --------------------------------
(***************************************************************************)
(* Sums over a finite set, as MapThenFoldSet of the community modules      *)
(* computes them: one element after the other, in an order that CHOOSE     *)
(* fixes.  The conservation laws of the models are about such sums.  What  *)
(* they need is that the order does not matter, so that a step which       *)
(* changes one of the terms changes the sum by as much.                    *)
(***************************************************************************)
EXTENDS TLAPS, FiniteSetTheorems

Picked(s) == CHOOSE x \in s : TRUE

\* t holds the sums of f over the subsets of S.
SumsUp(t, f, S) ==
  t = [s \in SUBSET S |-> IF s = {} THEN 0 ELSE LET x == Picked(s) IN f[x] + t[s \ {x}]]

-----------------------------------------------------------------------------
(* Finite sets                                                             *)

\* Induction over the subsets of a finite set: a least one has the property.
LEMMA FiniteMinimal ==
  ASSUME NEW S, IsFiniteSet(S), NEW B \in SUBSET SUBSET S, B # {}
  PROVE  \E s \in B : \A t \in B : t \subseteq s => t = s
<1>1. IsWellFoundedOn(StrictSubsetOrdering(S), SUBSET S)
  BY FS_StrictSubsetOrderingWellFounded, FS_FiniteSubsetsOfFinite, Zenon
<1>2. \E s \in B : \A t \in B : <<t, s>> \notin StrictSubsetOrdering(S)
  BY <1>1, WFMin, Zenon
<1>3. \A s, t \in B : t \subseteq s /\ t # s => <<t, s>> \in StrictSubsetOrdering(S)
  BY DEF StrictSubsetOrdering
<1> QED
  BY <1>2, <1>3

LEMMA PickedIn ==
  ASSUME NEW s, s # {}
  PROVE  Picked(s) \in s
BY DEF Picked

-----------------------------------------------------------------------------
(* The sum is well defined                                                 *)

LEMMA SumsUpAt ==
  ASSUME NEW t, NEW f, NEW S, SumsUp(t, f, S), NEW s \in SUBSET S
  PROVE  t[s] = IF s = {} THEN 0 ELSE f[Picked(s)] + t[s \ {Picked(s)}]
<1>1. t = [u \in SUBSET S |-> IF u = {} THEN 0 ELSE f[Picked(u)] + t[u \ {Picked(u)}]]
  BY DEF SumsUp
<1> DEFINE e(u) == IF u = {} THEN 0 ELSE f[Picked(u)] + t[u \ {Picked(u)}]
<1>2. t = [u \in SUBSET S |-> e(u)]
  BY <1>1
<1> HIDE DEF e
<1>3. t[s] = e(s)
  BY <1>2
<1> QED
  BY <1>3 DEF e

\* Two tables agree wherever both are defined.
LEMMA SumsAgree ==
  ASSUME NEW f, NEW g, NEW S, NEW T, NEW t, NEW u, NEW w, IsFiniteSet(w), w \subseteq S, w \subseteq T,
         SumsUp(t, f, S), SumsUp(u, g, T), \A x \in w : f[x] = g[x]
  PROVE  t[w] = u[w]
<1> DEFINE B == {s \in SUBSET w : t[s] # u[s]}
<1>1. SUFFICES ASSUME B # {}
               PROVE  FALSE
  OBVIOUS
<1>2. PICK s \in B : \A v \in B : v \subseteq s => v = s
  <2>1. B \in SUBSET SUBSET w
    OBVIOUS
  <2> HIDE DEF B
  <2> QED
    BY <1>1, <2>1, FiniteMinimal
<1>3. /\ t[s] = IF s = {} THEN 0 ELSE f[Picked(s)] + t[s \ {Picked(s)}]
      /\ u[s] = IF s = {} THEN 0 ELSE g[Picked(s)] + u[s \ {Picked(s)}]
  BY SumsUpAt
<1>4. CASE s = {}
  BY <1>2, <1>3, <1>4
<1>5. CASE s # {}
  <2>1. Picked(s) \in s
    BY <1>5, PickedIn
  <2> DEFINE v == s \ {Picked(s)}
  <2>2. v \notin B /\ v \in SUBSET w
    BY <1>2, <2>1
  <2>3. t[v] = u[v]
    BY <2>2
  <2>4. f[Picked(s)] = g[Picked(s)]
    BY <2>1
  <2> QED
    BY <1>2, <1>3, <1>5, <2>3, <2>4
<1> QED
  BY <1>4, <1>5

LEMMA SumsExist ==
  ASSUME NEW f, NEW S, IsFiniteSet(S)
  PROVE  \E t : SumsUp(t, f, S)
<1> DEFINE B == {s \in SUBSET S : ~\E t : SumsUp(t, f, s)}
<1>1. SUFFICES ASSUME B # {}
               PROVE  FALSE
  OBVIOUS
<1>2. PICK s \in B : \A v \in B : v \subseteq s => v = s
  <2>1. B \in SUBSET SUBSET S
    OBVIOUS
  <2> HIDE DEF B
  <2> QED
    BY <1>1, <2>1, FiniteMinimal
<1> DEFINE table(v) == CHOOSE t : SumsUp(t, f, v)
           sum(v) == table(v)[v]
           t == [v \in SUBSET s |-> IF v = {} THEN 0 ELSE f[Picked(v)] + sum(v \ {Picked(v)})]
<1>3. ASSUME NEW v \in SUBSET s, v # s
      PROVE  SumsUp(table(v), f, v)
  <2>1. v \notin B /\ v \in SUBSET S
    BY <1>2, <1>3
  <2>2. \E q : SumsUp(q, f, v)
    BY <2>1
  <2> HIDE DEF B
  <2> QED
    BY <2>2
<1> HIDE DEF table
<1>4. ASSUME NEW v \in SUBSET s, v # s
      PROVE  t[v] = sum(v)
  <2>1. t[v] = IF v = {} THEN 0 ELSE f[Picked(v)] + sum(v \ {Picked(v)})
    OBVIOUS
  <2>2. SumsUp(table(v), f, v)
    BY <1>3, <1>4
  <2>3. table(v)[v] = IF v = {} THEN 0 ELSE f[Picked(v)] + table(v)[v \ {Picked(v)}]
    BY <2>2, SumsUpAt
  <2>4. CASE v = {}
    BY <2>1, <2>3, <2>4
  <2>5. CASE v # {}
    <3> DEFINE w == v \ {Picked(v)}
    <3>1. Picked(v) \in v /\ w \in SUBSET s /\ w # s /\ w \subseteq v
      BY <1>4, <2>5, PickedIn
    <3>2. SumsUp(table(w), f, w)
      BY <1>3, <3>1
    <3>3. IsFiniteSet(w)
      BY <3>1, FS_Subset
    <3> HIDE DEF w
    <3>4. table(w)[w] = table(v)[w]
      BY <2>2, <3>1, <3>2, <3>3, SumsAgree
    <3> QED
      BY <2>1, <2>3, <2>5, <3>4 DEF w
  <2> QED
    BY <2>4, <2>5
<1>5. ASSUME NEW v \in SUBSET s, v # {}
      PROVE  t[v \ {Picked(v)}] = sum(v \ {Picked(v)})
  <2>1. Picked(v) \in v
    BY <1>5, PickedIn
  <2>2. v \ {Picked(v)} \in SUBSET s /\ v \ {Picked(v)} # s
    BY <2>1
  <2> HIDE DEF t, sum
  <2> QED
    BY <1>4, <2>2
<1>6. SumsUp(t, f, s)
  <2> DEFINE q == [v \in SUBSET s |-> IF v = {} THEN 0 ELSE f[Picked(v)] + t[v \ {Picked(v)}]]
  <2>1. \A v \in SUBSET s : t[v] = q[v]
    BY <1>5
  <2>2. t = q
    BY <2>1
  <2> HIDE DEF t
  <2> QED
    BY <2>2 DEF SumsUp
<1>7. \E q : SumsUp(q, f, s)
  <2> HIDE DEF t
  <2> QED
    BY <1>6
<1> QED
  BY <1>2, <1>7

-----------------------------------------------------------------------------
(* What SumFunctionOnSet computes                                          *)

LEMMA SumIs ==
  ASSUME NEW f, NEW S, IsFiniteSet(S)
  PROVE  \E t : SumsUp(t, f, S) /\ SumFunctionOnSet(f, S) = t[S]
<1> DEFINE t == CHOOSE u : SumsUp(u, f, S)
<1>1. SumsUp(t, f, S)
  BY SumsExist
<1>2. SumFunctionOnSet(f, S) = t[S]
  BY DEF SumFunctionOnSet, FoldFunctionOnSet, MapThenFoldSet, SumsUp, Picked
<1> HIDE DEF t
<1> QED
  BY <1>1, <1>2

LEMMA SumEmpty ==
  ASSUME NEW f
  PROVE  SumFunctionOnSet(f, {}) = 0
<1>1. IsFiniteSet({})
  BY FS_EmptySet
<1>2. PICK t : SumsUp(t, f, {}) /\ SumFunctionOnSet(f, {}) = t[{}]
  BY <1>1, SumIs
<1> QED
  BY <1>2, SumsUpAt

LEMMA SumPicked ==
  ASSUME NEW f, NEW S, IsFiniteSet(S), S # {}
  PROVE  /\ Picked(S) \in S
         /\ SumFunctionOnSet(f, S) = f[Picked(S)] + SumFunctionOnSet(f, S \ {Picked(S)})
<1> DEFINE R == S \ {Picked(S)}
<1>1. Picked(S) \in S /\ R \subseteq S /\ IsFiniteSet(R)
  BY PickedIn, FS_Subset
<1> HIDE DEF R
<1>2. PICK t : SumsUp(t, f, S) /\ SumFunctionOnSet(f, S) = t[S]
  BY SumIs
<1>3. PICK u : SumsUp(u, f, R) /\ SumFunctionOnSet(f, R) = u[R]
  BY <1>1, SumIs
<1>4. t[R] = u[R]
  BY <1>1, <1>2, <1>3, SumsAgree
<1>5. t[S] = f[Picked(S)] + t[S \ {Picked(S)}]
  BY <1>2, SumsUpAt
<1> QED
  BY <1>1, <1>2, <1>3, <1>4, <1>5 DEF R

\* Only the terms matter.
LEMMA SumSame ==
  ASSUME NEW f, NEW g, NEW S, IsFiniteSet(S), \A x \in S : f[x] = g[x]
  PROVE  SumFunctionOnSet(f, S) = SumFunctionOnSet(g, S)
<1>1. PICK t : SumsUp(t, f, S) /\ SumFunctionOnSet(f, S) = t[S]
  BY SumIs
<1>2. PICK u : SumsUp(u, g, S) /\ SumFunctionOnSet(g, S) = u[S]
  BY SumIs
<1>3. t[S] = u[S]
  <2> DEFINE w == S
  <2>1. w \subseteq S /\ IsFiniteSet(w) /\ \A x \in w : f[x] = g[x]
    OBVIOUS
  <2> HIDE DEF w
  <2>2. t[w] = u[w]
    BY <1>1, <1>2, <2>1, SumsAgree
  <2> QED
    BY <2>2 DEF w
<1> QED
  BY <1>1, <1>2, <1>3

LEMMA SumInt ==
  ASSUME NEW f, NEW S, IsFiniteSet(S), \A x \in S : f[x] \in Int
  PROVE  SumFunctionOnSet(f, S) \in Int
<1> DEFINE B == {s \in SUBSET S : SumFunctionOnSet(f, s) \notin Int}
<1>1. SUFFICES ASSUME B # {}
               PROVE  FALSE
  OBVIOUS
<1>2. PICK s \in B : \A v \in B : v \subseteq s => v = s
  <2>1. B \in SUBSET SUBSET S
    OBVIOUS
  <2> HIDE DEF B
  <2> QED
    BY <1>1, <2>1, FiniteMinimal
<1>3. s # {} /\ IsFiniteSet(s)
  <2>1. SumFunctionOnSet(f, s) \notin Int /\ IsFiniteSet(s)
    BY <1>2, FS_Subset
  <2>2. SumFunctionOnSet(f, {}) \in Int
    BY SumEmpty
  <2> QED
    BY <2>1, <2>2
<1>4. /\ Picked(s) \in s
      /\ SumFunctionOnSet(f, s) = f[Picked(s)] + SumFunctionOnSet(f, s \ {Picked(s)})
  BY <1>3, SumPicked
<1>5. SumFunctionOnSet(f, s \ {Picked(s)}) \in Int
  BY <1>2, <1>4
<1> QED
  BY <1>2, <1>4, <1>5

LEMMA SumNat ==
  ASSUME NEW f, NEW S, IsFiniteSet(S), \A x \in S : f[x] \in Nat
  PROVE  SumFunctionOnSet(f, S) \in Nat
<1> DEFINE B == {s \in SUBSET S : SumFunctionOnSet(f, s) \notin Nat}
<1>1. SUFFICES ASSUME B # {}
               PROVE  FALSE
  OBVIOUS
<1>2. PICK s \in B : \A v \in B : v \subseteq s => v = s
  <2>1. B \in SUBSET SUBSET S
    OBVIOUS
  <2> HIDE DEF B
  <2> QED
    BY <1>1, <2>1, FiniteMinimal
<1>3. s # {} /\ IsFiniteSet(s)
  <2>1. SumFunctionOnSet(f, s) \notin Nat /\ IsFiniteSet(s)
    BY <1>2, FS_Subset
  <2>2. SumFunctionOnSet(f, {}) \in Nat
    BY SumEmpty
  <2> QED
    BY <2>1, <2>2
<1>4. /\ Picked(s) \in s
      /\ SumFunctionOnSet(f, s) = f[Picked(s)] + SumFunctionOnSet(f, s \ {Picked(s)})
  BY <1>3, SumPicked
<1>5. SumFunctionOnSet(f, s \ {Picked(s)}) \in Nat
  BY <1>2, <1>4
<1> QED
  BY <1>2, <1>4, <1>5

\* The order does not matter: any element can be the first.
LEMMA SumSplit ==
  ASSUME NEW f, NEW S, IsFiniteSet(S), \A x \in S : f[x] \in Int, NEW y \in S
  PROVE  SumFunctionOnSet(f, S) = f[y] + SumFunctionOnSet(f, S \ {y})
<1> DEFINE Splits(s, x) == SumFunctionOnSet(f, s) = f[x] + SumFunctionOnSet(f, s \ {x})
           B == {s \in SUBSET S : \E x \in s : ~Splits(s, x)}
<1>1. SUFFICES ASSUME B # {}
               PROVE  FALSE
  OBVIOUS
<1>2. PICK s \in B : \A v \in B : v \subseteq s => v = s
  <2>1. B \in SUBSET SUBSET S
    OBVIOUS
  <2> HIDE DEF B
  <2> QED
    BY <1>1, <2>1, FiniteMinimal
<1>3. PICK x \in s : ~Splits(s, x)
  OBVIOUS
<1> DEFINE z == Picked(s)
<1>4. s \subseteq S /\ IsFiniteSet(s) /\ z \in s /\ Splits(s, z)
  <2>1. s \subseteq S /\ IsFiniteSet(s) /\ s # {}
    BY FS_Subset
  <2> QED
    BY <2>1, SumPicked
<1>5. ASSUME NEW v \in SUBSET s, v # s, NEW u \in v
      PROVE  Splits(v, u)
  <2>1. v \notin B /\ v \in SUBSET S
    BY <1>2, <1>5
  <2> HIDE DEF Splits
  <2> QED
    BY <2>1
<1> HIDE DEF z, B
<1>6. x # z
  BY <1>3, <1>4
<1>7. Splits(s \ {z}, x) /\ Splits(s \ {x}, z)
  <2>1. x \in s \ {z} /\ z \in s \ {x} /\ s \ {z} # s /\ s \ {x} # s
    BY <1>4, <1>6
  <2> HIDE DEF Splits
  <2> QED
    BY <1>5, <2>1
<1>8. (s \ {z}) \ {x} = (s \ {x}) \ {z}
  OBVIOUS
<1>9. SumFunctionOnSet(f, (s \ {x}) \ {z}) \in Int
  <2>1. IsFiniteSet((s \ {x}) \ {z})
    BY <1>4, FS_Subset
  <2> QED
    BY <1>4, <2>1, SumInt
<1>10. f[x] \in Int /\ f[z] \in Int
  BY <1>4
<1> DEFINE v == SumFunctionOnSet(f, (s \ {x}) \ {z})
<1>11. SumFunctionOnSet(f, s) = f[z] + (f[x] + v)
  BY <1>4, <1>7, <1>8
<1>12. SumFunctionOnSet(f, s \ {x}) = f[z] + v
  BY <1>7
<1>13. SumFunctionOnSet(f, s) # f[x] + SumFunctionOnSet(f, s \ {x})
  BY <1>3
<1> HIDE DEF v, Splits
<1>14. v \in Int
  BY <1>9 DEF v
<1> QED
  BY <1>10, <1>11, <1>12, <1>13, <1>14

\* A step that changes one term.
LEMMA SumChange ==
  ASSUME NEW f, NEW g, NEW S, IsFiniteSet(S), \A x \in S : f[x] \in Int, NEW y \in S, g[y] \in Int,
         \A x \in S \ {y} : g[x] = f[x]
  PROVE  SumFunctionOnSet(g, S) = SumFunctionOnSet(f, S) - f[y] + g[y]
<1> DEFINE R == S \ {y}
<1>1. IsFiniteSet(R) /\ \A x \in R : f[x] \in Int
  BY FS_Subset
<1>2. \A x \in S : g[x] \in Int
  OBVIOUS
<1>3. SumFunctionOnSet(f, S) = f[y] + SumFunctionOnSet(f, R)
  BY SumSplit
<1>4. SumFunctionOnSet(g, S) = g[y] + SumFunctionOnSet(g, R)
  BY <1>2, SumSplit
<1>5. SumFunctionOnSet(f, R) = SumFunctionOnSet(g, R) /\ SumFunctionOnSet(f, R) \in Int
  BY <1>1, SumSame, SumInt
<1> HIDE DEF R
<1> QED
  BY <1>3, <1>4, <1>5

\* A term that is added.
LEMMA SumAdd ==
  ASSUME NEW f, NEW S, IsFiniteSet(S), NEW y, y \notin S, \A x \in S \cup {y} : f[x] \in Int
  PROVE  SumFunctionOnSet(f, S \cup {y}) = SumFunctionOnSet(f, S) + f[y]
<1>1. IsFiniteSet(S \cup {y}) /\ (S \cup {y}) \ {y} = S
  BY FS_AddElement
<1>2. SumFunctionOnSet(f, S \cup {y}) = f[y] + SumFunctionOnSet(f, S)
  BY <1>1, SumSplit
<1>3. SumFunctionOnSet(f, S) \in Int
  BY SumInt
<1> QED
  BY <1>2, <1>3

LEMMA SumConstant ==
  ASSUME NEW k \in Int, NEW f, NEW S, IsFiniteSet(S), \A x \in S : f[x] = k
  PROVE  SumFunctionOnSet(f, S) = k * Cardinality(S)
<1> DEFINE B == {s \in SUBSET S : SumFunctionOnSet(f, s) # k * Cardinality(s)}
<1>1. SUFFICES ASSUME B # {}
               PROVE  FALSE
  OBVIOUS
<1>2. PICK s \in B : \A v \in B : v \subseteq s => v = s
  <2>1. B \in SUBSET SUBSET S
    OBVIOUS
  <2> HIDE DEF B
  <2> QED
    BY <1>1, <2>1, FiniteMinimal
<1>3. s # {} /\ IsFiniteSet(s)
  <2>1. k * 0 = 0
    OBVIOUS
  <2> QED
    BY <1>2, <2>1, SumEmpty, FS_EmptySet, FS_Subset
<1> DEFINE r == s \ {Picked(s)}
<1>4. Picked(s) \in s /\ SumFunctionOnSet(f, s) = f[Picked(s)] + SumFunctionOnSet(f, r)
  BY <1>3, SumPicked
<1>5. SumFunctionOnSet(f, r) = k * Cardinality(r)
  BY <1>2, <1>4
<1>6. Cardinality(r) = Cardinality(s) - 1 /\ Cardinality(s) \in Nat
  BY <1>3, <1>4, FS_RemoveElement, FS_CardinalityType
<1> DEFINE n == Cardinality(s)
<1>7. k * (n - 1) = k * n - k
  <2> HIDE DEF n
  <2>1. \A m \in Int : k * (m - 1) = k * m - k
    OBVIOUS
  <2> QED
    BY <1>6, <2>1 DEF n
<1>8. f[Picked(s)] = k
  BY <1>4
<1>9. SumFunctionOnSet(f, s) = k + (k * n - k)
  BY <1>4, <1>5, <1>6, <1>7, <1>8
<1>10. k * n \in Int
  BY <1>6
<1> HIDE DEF n
<1>11. SumFunctionOnSet(f, s) = k * n
  BY <1>9, <1>10
<1> QED
  BY <1>2, <1>11 DEF n

LEMMA SumZero ==
  ASSUME NEW f, NEW S, IsFiniteSet(S), \A x \in S : f[x] = 0
  PROVE  SumFunctionOnSet(f, S) = 0
<1>1. SumFunctionOnSet(f, S) = 0 * Cardinality(S) /\ Cardinality(S) \in Nat
  BY SumConstant, FS_CardinalityType
<1> QED
  BY <1>1

\* A term is no more than the sum.
LEMMA SumCovers ==
  ASSUME NEW f, NEW S, IsFiniteSet(S), \A x \in S : f[x] \in Nat, NEW y \in S
  PROVE  f[y] <= SumFunctionOnSet(f, S)
<1>1. SumFunctionOnSet(f, S) = f[y] + SumFunctionOnSet(f, S \ {y})
  BY SumSplit
<1>2. SumFunctionOnSet(f, S \ {y}) \in Nat
  BY SumNat, FS_Subset
<1> QED
  BY <1>1, <1>2

\* A term that is zero can be left out.
LEMMA SumSkip ==
  ASSUME NEW f, NEW S, IsFiniteSet(S), \A x \in S : f[x] \in Int, NEW y, f[y] = 0
  PROVE  SumFunctionOnSet(f, S \ {y}) = SumFunctionOnSet(f, S)
<1>1. CASE y \in S
  <2>1. SumFunctionOnSet(f, S) = f[y] + SumFunctionOnSet(f, S \ {y})
    BY <1>1, SumSplit
  <2>2. SumFunctionOnSet(f, S \ {y}) \in Int
    BY FS_Subset, SumInt
  <2> QED
    BY <2>1, <2>2
<1>2. CASE y \notin S
  <2>1. S \ {y} = S
    BY <1>2
  <2> QED
    BY <2>1
<1> QED
  BY <1>1, <1>2

-----------------------------------------------------------------------------
(* The sum of a whole function                                             *)

LEMMA SumWhole ==
  ASSUME NEW D, NEW f, DOMAIN f = D
  PROVE  SumFunction(f) = SumFunctionOnSet(f, D)
BY DEF SumFunction, FoldFunction, SumFunctionOnSet

LEMMA SumWholeInt ==
  ASSUME NEW D, IsFiniteSet(D), NEW f \in [D -> Int]
  PROVE  SumFunction(f) \in Int
<1>1. SumFunctionOnSet(f, D) \in Int
  BY SumInt
<1> QED
  BY <1>1, SumWhole

LEMMA SumWholeChange ==
  ASSUME NEW D, IsFiniteSet(D), NEW f \in [D -> Int], NEW g \in [D -> Int], NEW y \in D,
         \A x \in D \ {y} : g[x] = f[x]
  PROVE  SumFunction(g) = SumFunction(f) - f[y] + g[y]
<1>1. SumFunctionOnSet(g, D) = SumFunctionOnSet(f, D) - f[y] + g[y]
  BY SumChange
<1> QED
  BY <1>1, SumWhole

LEMMA SumWholeConstant ==
  ASSUME NEW D, IsFiniteSet(D), NEW k \in Int, NEW f, DOMAIN f = D, \A x \in D : f[x] = k
  PROVE  SumFunction(f) = k * Cardinality(D)
<1>1. SumFunctionOnSet(f, D) = k * Cardinality(D)
  BY SumConstant
<1> QED
  BY <1>1, SumWhole
=============================================================================
