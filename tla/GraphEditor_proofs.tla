-------------------------- MODULE GraphEditor_proofs --------------------------
(***************************************************************************)
(* Proofs about the builder, for files and canvases of any size: every     *)
(* step is one of nine kinds (CanvasStep), and each keeps the ids, marks   *)
(* and edges of the canvas sound.  A removal filters a sequence, which is  *)
(* defined recursively: what it leaves is found from the shortest prefix   *)
(* that would leave something else.                                        *)
(***************************************************************************)
EXTENDS GraphEditor, WellFoundedInduction, FiniteSetTheorems, TLAPS

\* A set of places in a sequence that is not empty has a first one.
LEMMA Foremost ==
    ASSUME NEW n \in Nat, NEW X, X \subseteq 1..n, X # {}
    PROVE  \E i \in X : \A j \in 1..i-1 : j \notin X
<1>1. X \subseteq Nat
  OBVIOUS
<1>2. PICK i \in X : \A j \in X : <<j, i>> \notin OpToRel(<, Nat)
  BY <1>1, WFMin, NatLessThanWellFounded, Zenon
<1>3. \A j \in X : ~(j < i)
  BY <1>1, <1>2, Zenon DEF OpToRel
<1>4. \A j \in 1..i-1 : j < i
  BY <1>1
<1> QED  BY <1>3, <1>4

-------------------------------------------------------------------------------
\* What Without leaves of a sequence.

\* g is the function that Without defines, on the first n elements.
Leaves(g, s, S, n) ==
    g = [i \in 0..n |->
            IF i = 0 THEN << >> ELSE IF s[i] \in S THEN g[i-1] ELSE Append(g[i-1], s[i])]

\* There is one: the shortest prefix without it could be had from the prefix
\* that is shorter by one.
LEMMA LeavesExist ==
    ASSUME NEW s, NEW S, NEW n \in Nat
    PROVE  \E g : Leaves(g, s, S, n)
<1> DEFINE X == {m \in 1..n : ~\E g : Leaves(g, s, S, m)}
<1>1. \E g : Leaves(g, s, S, 0)
  <2> DEFINE g == [i \in 0..0 |-> << >>]
  <2>1. g = [i \in 0..0 |->
              IF i = 0 THEN << >> ELSE IF s[i] \in S THEN g[i-1] ELSE Append(g[i-1], s[i])]
    OBVIOUS
  <2> QED  BY <2>1 DEF Leaves
<1>2. CASE X = {}
  <2>1. n = 0 \/ n \in 1..n
    OBVIOUS
  <2> QED  BY <1>1, <1>2, <2>1
<1>3. CASE X # {}
  <2>1. PICK m \in X : \A j \in 1..m-1 : j \notin X
    BY <1>3, Foremost
  <2>2. m \in 1..n /\ (m-1 = 0 \/ m-1 \in 1..m-1)
    BY <2>1
  <2>3. \E g : Leaves(g, s, S, m-1)
    BY <1>1, <2>1, <2>2
  <2>4. PICK g : Leaves(g, s, S, m-1)
    BY <2>3
  <2> DEFINE h == [i \in 0..m |->
                     IF i = m THEN IF s[m] \in S THEN g[m-1] ELSE Append(g[m-1], s[m]) ELSE g[i]]
  <2>5. \A i \in 0..m-1 : h[i] = g[i]
    BY <2>2
  <2>6. \A i \in 0..m-1 : g[i] = IF i = 0 THEN << >>
                                ELSE IF s[i] \in S THEN g[i-1] ELSE Append(g[i-1], s[i])
    BY <2>4 DEF Leaves
  <2>7. ASSUME NEW i \in 0..m
        PROVE  h[i] = IF i = 0 THEN << >>
                      ELSE IF s[i] \in S THEN h[i-1] ELSE Append(h[i-1], s[i])
    <3>1. CASE i = m
      <4>1. h[m-1] = g[m-1] /\ m # 0
        BY <2>2, <2>5
      <4>2. h[m] = IF s[m] \in S THEN g[m-1] ELSE Append(g[m-1], s[m])
        BY <2>2
      <4> QED  BY <3>1, <4>1, <4>2
    <3>2. CASE i \in 0..m-1
      <4>1. i = 0 \/ i-1 \in 0..m-1
        BY <3>2
      <4> QED  BY <2>5, <2>6, <3>2, <4>1
    <3> QED  BY <2>2, <3>1, <3>2
  <2>8. h = [i \in 0..m |-> h[i]]
    OBVIOUS
  <2> HIDE DEF h
  <2>9. Leaves(h, s, S, m)
    BY <2>7, <2>8 DEF Leaves
  <2> QED  BY <2>1, <2>9
<1> QED  BY <1>2, <1>3

\* Without is the last value of that function.
LEMMA WithoutLeaves ==
    ASSUME NEW T, NEW s \in Seq(T), NEW S
    PROVE  \E g : Leaves(g, s, S, Len(s)) /\ Without(s, S) = g[Len(s)]
<1> DEFINE c == CHOOSE g : Leaves(g, s, S, Len(s))
<1>1. Leaves(c, s, S, Len(s))
  <2>1. Len(s) \in Nat
    OBVIOUS
  <2>2. \E g : Leaves(g, s, S, Len(s))
    BY <2>1, LeavesExist
  <2> QED  BY <2>2, Zenon
<1>2. Without(s, S) = c[Len(s)]
  BY Zenon DEF Without, Leaves
<1> QED  BY <1>1, <1>2

\* `at` tells at which of the first m places of s the elements of w are: those
\* that are not in S, in their order.
Picks(at, w, s, S, m) ==
    /\ at \in [1..Len(w) -> 1..m]
    /\ \A j \in 1..Len(w) : w[j] = s[at[j]] /\ s[at[j]] \notin S
    /\ \A i, j \in 1..Len(w) : i < j => at[i] < at[j]
    /\ \A i \in 1..m : s[i] \notin S => \E j \in 1..Len(w) : at[j] = i

\* One place more is picked or not.
LEMMA NextPick ==
    ASSUME NEW T, NEW s \in Seq(T), NEW S, NEW m \in 1..Len(s), NEW w \in Seq(T),
           NEW at, Picks(at, w, s, S, m-1)
    PROVE  /\ s[m] \in S => Picks(at, w, s, S, m)
           /\ s[m] \notin S => \E a : Picks(a, Append(w, s[m]), s, S, m)
<1>1. 1..m-1 \subseteq 1..m /\ \A i \in 1..m : i = m \/ i \in 1..m-1
  OBVIOUS
<1>2. s[m] \in S => Picks(at, w, s, S, m)
  BY <1>1 DEF Picks
<1>3. ASSUME s[m] \notin S PROVE \E a : Picks(a, Append(w, s[m]), s, S, m)
  <2> DEFINE v == Append(w, s[m])
             a == [j \in 1..Len(w)+1 |-> IF j = Len(w)+1 THEN m ELSE at[j]]
  <2>1. /\ Len(v) = Len(w)+1 /\ v[Len(w)+1] = s[m] /\ Len(w) \in Nat
        /\ \A j \in 1..Len(w) : v[j] = w[j]
    OBVIOUS
  <2>2. /\ \A j \in 1..Len(w) : a[j] = at[j] /\ at[j] \in 1..m-1
        /\ a[Len(w)+1] = m
    BY <2>1 DEF Picks
  <2>3. a \in [1..Len(v) -> 1..m]
    <3>1. \A j \in 1..Len(w)+1 : a[j] \in 1..m
      <4>1. \A j \in 1..Len(w)+1 : j = Len(w)+1 \/ j \in 1..Len(w)
        BY <2>1
      <4> HIDE DEF a
      <4> QED  BY <1>1, <2>2, <4>1
    <3>2. a = [j \in 1..Len(w)+1 |-> a[j]]
      OBVIOUS
    <3> HIDE DEF a, v
    <3> QED  BY <2>1, <3>1, <3>2
  <2>4. \A j \in 1..Len(v) : j = Len(w)+1 \/ j \in 1..Len(w)
    BY <2>1
  <2> HIDE DEF a, v
  <2>5. \A j \in 1..Len(v) : v[j] = s[a[j]] /\ s[a[j]] \notin S
    BY <1>3, <2>1, <2>2, <2>4 DEF Picks
  <2>6. \A i, j \in 1..Len(v) : i < j => a[i] < a[j]
    <3> SUFFICES ASSUME NEW i \in 1..Len(v), NEW j \in 1..Len(v), i < j PROVE a[i] < a[j]
      OBVIOUS
    <3>1. i \in 1..Len(w)
      BY <2>1
    <3>2. CASE j \in 1..Len(w)
      BY <2>2, <3>1, <3>2 DEF Picks
    <3>3. CASE j = Len(w)+1
      BY <2>2, <3>1, <3>3
    <3> QED  BY <2>4, <3>2, <3>3
  <2>7. \A i \in 1..m : s[i] \notin S => \E j \in 1..Len(v) : a[j] = i
    <3> SUFFICES ASSUME NEW i \in 1..m, s[i] \notin S PROVE \E j \in 1..Len(v) : a[j] = i
      OBVIOUS
    <3>1. CASE i = m
      BY <2>1, <2>2, <3>1
    <3>2. CASE i \in 1..m-1
      <4>1. PICK j \in 1..Len(w) : at[j] = i
        BY <3>2 DEF Picks
      <4> QED  BY <2>1, <2>2, <4>1
    <3> QED  BY <1>1, <3>1, <3>2
  <2> QED  BY <2>3, <2>5, <2>6, <2>7 DEF Picks, v
<1> QED  BY <1>2, <1>3

\* Without(s, S) picks from s what is not in S.
LEMMA WithoutPicks ==
    ASSUME NEW T, NEW s \in Seq(T), NEW S
    PROVE  /\ Without(s, S) \in Seq(T)
           /\ \E at : Picks(at, Without(s, S), s, S, Len(s))
<1>1. PICK g : Leaves(g, s, S, Len(s)) /\ Without(s, S) = g[Len(s)]
  BY WithoutLeaves
<1> DEFINE Good(m) == g[m] \in Seq(T) /\ \E at : Picks(at, g[m], s, S, m)
           X == {m \in 1..Len(s) : ~Good(m)}
<1>2. /\ g[0] = << >>
      /\ \A m \in 1..Len(s) : g[m] = IF s[m] \in S THEN g[m-1] ELSE Append(g[m-1], s[m])
  <2>1. \A m \in 0..Len(s) : g[m] = IF m = 0 THEN << >>
                         ELSE IF s[m] \in S THEN g[m-1] ELSE Append(g[m-1], s[m])
    BY <1>1 DEF Leaves
  <2>2. 0 \in 0..Len(s) /\ \A m \in 1..Len(s) : m \in 0..Len(s) /\ m # 0
    OBVIOUS
  <2> QED  BY <2>1, <2>2
<1>3. Good(0)
  <2>1. Len(g[0]) = 0 /\ g[0] \in Seq(T) /\ 1..0 = {}
    BY <1>2
  <2>2. << >> \in [{} -> {}]
    OBVIOUS
  <2>3. Picks(<< >>, g[0], s, S, 0)
    BY <2>1, <2>2 DEF Picks
  <2> QED  BY <2>1, <2>3
<1>4. ASSUME NEW m \in 1..Len(s), Good(m-1) PROVE Good(m)
  <2>1. PICK at : Picks(at, g[m-1], s, S, m-1)
    BY <1>4
  <2>2. g[m-1] \in Seq(T) /\ s[m] \in T
    BY <1>4
  <2>3. /\ s[m] \in S => Picks(at, g[m-1], s, S, m)
        /\ s[m] \notin S => \E a : Picks(a, Append(g[m-1], s[m]), s, S, m)
    BY <2>1, <2>2, NextPick
  <2>4. g[m] = IF s[m] \in S THEN g[m-1] ELSE Append(g[m-1], s[m])
    BY <1>2
  <2>5. CASE s[m] \in S
    BY <2>2, <2>3, <2>4, <2>5
  <2>6. CASE s[m] \notin S
    <3>1. g[m] = Append(g[m-1], s[m])
      BY <2>4, <2>6
    <3>2. Append(g[m-1], s[m]) \in Seq(T)
      BY <2>2
    <3> QED  BY <2>3, <2>6, <3>1, <3>2
  <2> QED  BY <2>5, <2>6
<1> HIDE DEF Good
<1>5. X = {}
  <2> SUFFICES ASSUME X # {} PROVE FALSE
    OBVIOUS
  <2>1. PICK m \in X : \A j \in 1..m-1 : j \notin X
    <3>1. Len(s) \in Nat /\ X \subseteq 1..Len(s)
      OBVIOUS
    <3> HIDE DEF X
    <3> QED  BY <3>1, Foremost
  <2>2. m \in 1..Len(s) /\ (m-1 = 0 \/ m-1 \in 1..m-1)
    BY <2>1
  <2>3. m-1 = 0 => Good(m-1)
    BY <1>3
  <2>4. m-1 \in 1..m-1 => m-1 \in 1..Len(s)
    BY <2>2
  <2>5. Good(m-1)
    BY <2>1, <2>2, <2>3, <2>4
  <2> QED  BY <1>4, <2>1, <2>2, <2>5
<1>6. Good(Len(s))
  <2>1. Len(s) = 0 \/ Len(s) \in 1..Len(s)
    OBVIOUS
  <2> QED  BY <1>3, <1>5, <2>1
<1> QED  BY <1>1, <1>6 DEF Good

-------------------------------------------------------------------------------
\* Sequences of nodes and edges.

\* What is left of s are the elements that are not in S.
LEMMA WithoutRange ==
    ASSUME NEW T, NEW s \in Seq(T), NEW S
    PROVE  Range(Without(s, S)) = Range(s) \ S
<1> DEFINE w == Without(s, S)
<1>1. PICK at : Picks(at, w, s, S, Len(s))
  BY WithoutPicks
<1>2. w \in Seq(T)
  BY WithoutPicks
<1>3. DOMAIN w = 1..Len(w) /\ DOMAIN s = 1..Len(s)
  BY <1>2
<1> HIDE DEF w
<1>4. \A j \in 1..Len(w) : at[j] \in 1..Len(s) /\ w[j] = s[at[j]] /\ w[j] \notin S
  BY <1>1 DEF Picks
<1>5. \A i \in 1..Len(s) : s[i] \notin S => \E j \in 1..Len(w) : w[j] = s[i]
  BY <1>1 DEF Picks
<1>6. \A x : (\E j \in 1..Len(w) : x = w[j]) <=> (\E i \in 1..Len(s) : x = s[i]) /\ x \notin S
  BY <1>4, <1>5
<1>7. Range(w) = Range(s) \ S
  BY <1>3, <1>6 DEF Range
<1> QED  BY <1>7 DEF w

\* Two places of what is left come from two places of s.
LEMMA WithoutPlaces ==
    ASSUME NEW T, NEW s \in Seq(T), NEW S,
           NEW i \in DOMAIN Without(s, S), NEW j \in DOMAIN Without(s, S), i # j
    PROVE  \E p, q \in DOMAIN s :
               p # q /\ Without(s, S)[i] = s[p] /\ Without(s, S)[j] = s[q]
<1> DEFINE w == Without(s, S)
<1>1. PICK at : Picks(at, w, s, S, Len(s))
  BY WithoutPicks
<1>2. w \in Seq(T)
  BY WithoutPicks
<1>3. DOMAIN w = 1..Len(w) /\ DOMAIN s = 1..Len(s) /\ Len(w) \in Nat /\ Len(s) \in Nat
  BY <1>2
<1>4. i \in 1..Len(w) /\ j \in 1..Len(w)
  BY <1>3
<1> HIDE DEF w
<1>5. /\ at[i] \in 1..Len(s) /\ at[j] \in 1..Len(s)
      /\ w[i] = s[at[i]] /\ w[j] = s[at[j]]
      /\ i < j => at[i] < at[j]
      /\ j < i => at[j] < at[i]
  BY <1>1, <1>4 DEF Picks
<1>6. i < j \/ j < i
  BY <1>3, <1>4
<1>7. at[i] # at[j]
  BY <1>3, <1>5, <1>6
<1> QED  BY <1>3, <1>5, <1>7 DEF w

\* A sequence with other elements in its places.
LEMMA Replaced ==
    ASSUME NEW T, NEW U, NEW s \in Seq(T), NEW g, g = [i \in DOMAIN s |-> g[i]],
           \A i \in DOMAIN s : g[i] \in U
    PROVE  g \in Seq(U) /\ DOMAIN g = DOMAIN s /\ Len(g) = Len(s)
<1>1. DOMAIN s = 1..Len(s) /\ Len(s) \in Nat
  OBVIOUS
<1>2. g \in [1..Len(s) -> U]
  BY <1>1
<1>3. \A f, n : n \in Nat /\ f \in [1..n -> U] => f \in Seq(U) /\ Len(f) = n
  OBVIOUS
<1> QED  BY <1>1, <1>2, <1>3

\* A sequence with one element more.
LEMMA Appended ==
    ASSUME NEW T, NEW s \in Seq(T), NEW e \in T
    PROVE  /\ Append(s, e) \in Seq(T)
           /\ DOMAIN Append(s, e) = DOMAIN s \cup {Len(s)+1}
           /\ Len(s)+1 \notin DOMAIN s
           /\ Append(s, e)[Len(s)+1] = e
           /\ \A i \in DOMAIN s : Append(s, e)[i] = s[i]
           /\ Range(Append(s, e)) = Range(s) \cup {e}
<1>1. /\ Append(s, e) \in Seq(T) /\ DOMAIN s = 1..Len(s) /\ Len(s) \in Nat
      /\ DOMAIN Append(s, e) = 1..Len(s)+1
      /\ Append(s, e)[Len(s)+1] = e
      /\ \A i \in DOMAIN s : Append(s, e)[i] = s[i]
  OBVIOUS
<1>2. 1..Len(s)+1 = 1..Len(s) \cup {Len(s)+1} /\ Len(s)+1 \notin 1..Len(s)
  BY <1>1
<1>3. Range(Append(s, e)) = Range(s) \cup {e}
  <2> DEFINE a == Append(s, e)
  <2>1. \A x : (\E i \in DOMAIN a : x = a[i]) <=> (\E i \in DOMAIN s : x = s[i]) \/ x = e
    <3> HIDE DEF a
    <3>1. /\ DOMAIN a = DOMAIN s \cup {Len(s)+1} /\ a[Len(s)+1] = e
          /\ \A i \in DOMAIN s : a[i] = s[i]
      BY <1>1, <1>2 DEF a
    <3> QED  BY <3>1
  <2> HIDE DEF a
  <2>2. Range(a) = Range(s) \cup {e}
    BY <2>1 DEF Range
  <2> QED  BY <2>2 DEF a
<1> QED  BY <1>1, <1>2, <1>3

\* Ids are unique if no two places have the same one.
LEMMA UniqueIdsTell ==
    ASSUME NEW T, NEW ns \in Seq(T)
    PROVE  UniqueIds(ns) <=> \A i, j \in DOMAIN ns : ns[i].id = ns[j].id => i = j
<1> DEFINE f == [i \in 1..Len(ns) |-> ns[i].id]
<1>1. DOMAIN ns = 1..Len(ns) /\ Len(ns) \in Nat
  OBVIOUS
<1>2. Ids(ns) = {ns[i].id : i \in 1..Len(ns)}
  BY <1>1 DEF Ids, Range
<1>3. f \in Surjection(1..Len(ns), Ids(ns))
  BY <1>2 DEF Surjection
<1>4. IsFiniteSet(1..Len(ns)) /\ Cardinality(1..Len(ns)) = Len(ns)
  BY <1>1, FS_Interval
<1>5. Cardinality(Ids(ns)) = Cardinality(1..Len(ns)) <=> f \in Injection(1..Len(ns), Ids(ns))
  BY <1>3, <1>4, FS_Surjection
<1>6. f \in Injection(1..Len(ns), Ids(ns))
        <=> \A i, j \in 1..Len(ns) : ns[i].id = ns[j].id => i = j
  <2>1. f \in [1..Len(ns) -> Ids(ns)] /\ \A i \in 1..Len(ns) : f[i] = ns[i].id
    BY <1>2
  <2> HIDE DEF f
  <2> QED  BY <2>1 DEF Injection, IsInjective
<1> QED  BY <1>1, <1>4, <1>5, <1>6 DEF UniqueIds

\* A canvas has at most as many ids as nodes.
LEMMA IdsAreFinite ==
    ASSUME NEW T, NEW ns \in Seq(T)
    PROVE  IsFiniteSet(Ids(ns)) /\ Cardinality(Ids(ns)) <= Len(ns)
<1> DEFINE f == [i \in 1..Len(ns) |-> ns[i].id]
<1>1. DOMAIN ns = 1..Len(ns) /\ Len(ns) \in Nat
  OBVIOUS
<1>2. Ids(ns) = {ns[i].id : i \in 1..Len(ns)}
  BY <1>1 DEF Ids, Range
<1>3. f \in Surjection(1..Len(ns), Ids(ns))
  BY <1>2 DEF Surjection
<1>4. IsFiniteSet(1..Len(ns)) /\ Cardinality(1..Len(ns)) = Len(ns)
  BY <1>1, FS_Interval
<1> QED  BY <1>3, <1>4, FS_Surjection

\* At most one place is marked if no two places are.
LEMMA AtMostOne ==
    ASSUME NEW T, NEW ns \in Seq(T), NEW X \in SUBSET DOMAIN ns
    PROVE  Cardinality(X) <= 1 <=> \A i, j \in X : i = j
<1>1. IsFiniteSet(X) /\ Cardinality(X) \in Nat
  <2>1. DOMAIN ns = 1..Len(ns) /\ Len(ns) \in Nat
    OBVIOUS
  <2>2. IsFiniteSet(DOMAIN ns)
    BY <2>1, FS_Interval
  <2>3. IsFiniteSet(X)
    BY <2>2, FS_Subset
  <2> QED  BY <2>3, FS_CardinalityType
<1>2. Cardinality(X) = 0 <=> X = {}
  BY <1>1, FS_EmptySet
<1>3. Cardinality(X) = 1 <=> \E x : X = {x}
  BY <1>1, FS_Singleton
<1>4. (\A i, j \in X : i = j) <=> (X = {} \/ \E x : X = {x})
  <2>1. ASSUME \A i, j \in X : i = j, X # {} PROVE \E x : X = {x}
    <3>1. PICK x \in X : TRUE
      BY <2>1
    <3>2. X = {x}
      BY <2>1, <3>1
    <3> QED  BY <3>2
  <2> QED  BY <2>1
<1> QED  BY <1>1, <1>2, <1>3, <1>4, SMTT(20)

\* nextNodeId: the id is new on the canvas.
LEMMA NextIdIsFresh ==
    ASSUME NEW ns \in Seq(NodeData), counter \in Nat
    PROVE  /\ NextNodeId(ns) \in Nat \ {NoId}
           /\ NextNodeId(ns) > counter
           /\ NextNodeId(ns) \notin Ids(ns)
<1> DEFINE n == Len(ns)+1
           X == {i \in 1..n : counter+i \notin Ids(ns)}
           Fits(k) == k \notin Ids(ns) /\ \A j \in counter+1..k-1 : j \in Ids(ns)
<1>1. Len(ns) \in Nat /\ n \in Nat /\ X \subseteq 1..n
  OBVIOUS
<1>2. X # {}
  <2> SUFFICES ASSUME X = {} PROVE FALSE
    OBVIOUS
  <2>1. counter+1..counter+n \subseteq Ids(ns)
    <3> SUFFICES ASSUME NEW k \in counter+1..counter+n PROVE k \in Ids(ns)
      OBVIOUS
    <3>1. k-counter \in 1..n /\ counter+(k-counter) = k
      BY <1>1
    <3> QED  BY <3>1
  <2>2. IsFiniteSet(Ids(ns)) /\ Cardinality(Ids(ns)) <= Len(ns) /\ Cardinality(Ids(ns)) \in Nat
    BY IdsAreFinite, FS_CardinalityType
  <2>3. Cardinality(counter+1..counter+n) <= Cardinality(Ids(ns))
    BY <2>1, <2>2, FS_Subset
  <2>4. Cardinality(counter+1..counter+n) = n
    BY <1>1, FS_Interval
  <2> QED  BY <1>1, <2>2, <2>3, <2>4
<1>3. PICK i \in X : \A j \in 1..i-1 : j \notin X
  <2> HIDE DEF X, n
  <2> QED  BY <1>1, <1>2, Foremost
<1>4. counter+i \in counter+1..counter+1+Len(ns) /\ counter+i \notin Ids(ns)
  BY <1>1, <1>3
<1>5. \A j \in counter+1..counter+i-1 : j \in Ids(ns)
  <2> SUFFICES ASSUME NEW j \in counter+1..counter+i-1 PROVE j \in Ids(ns)
    OBVIOUS
  <2>1. j-counter \in 1..i-1 /\ counter+(j-counter) = j /\ j-counter \in 1..n
    BY <1>1, <1>3
  <2> QED  BY <1>3, <2>1
<1>6. \E k \in counter+1..counter+1+Len(ns) : Fits(k)
  BY <1>4, <1>5
<1>7. /\ NextNodeId(ns) \in counter+1..counter+1+Len(ns)
      /\ NextNodeId(ns) \notin Ids(ns)
  BY <1>6 DEF NextNodeId
<1> QED  BY <1>1, <1>7 DEF NoId

\* A node of the canvas, made of its fields.
NodeOf(id, agent, entry, exit) == [id |-> id, agent |-> agent, entry |-> entry, exit |-> exit]

\* Its fields are those it was made of.
LEMMA NodeFields ==
    ASSUME NEW id, NEW agent, NEW entry \in BOOLEAN, NEW exit \in BOOLEAN
    PROVE  /\ NodeOf(id, agent, entry, exit).id = id
           /\ NodeOf(id, agent, entry, exit).agent = agent
           /\ NodeOf(id, agent, entry, exit).entry = entry
           /\ NodeOf(id, agent, entry, exit).exit = exit
           /\ id \in Nat \ {NoId} /\ agent \in Agents => NodeOf(id, agent, entry, exit) \in NodeData
BY DEF NodeOf, NodeData

-------------------------------------------------------------------------------
\* What a step does to the nodes and edges.

\* The elements of a sequence.
LEMMA Element ==
    ASSUME NEW T, NEW s \in Seq(T)
    PROVE  \A i \in DOMAIN s : s[i] \in T
OBVIOUS

\* A node with other marks or another agent.
LEMMA EntryChanged ==
    ASSUME NEW n \in NodeData, NEW b \in BOOLEAN
    PROVE  /\ [n EXCEPT !.entry = b] \in NodeData /\ [n EXCEPT !.entry = b].id = n.id
           /\ [n EXCEPT !.entry = b].entry = b /\ [n EXCEPT !.entry = b].exit = n.exit
BY DEF NodeData

\* The same with the mark of an exit.
LEMMA ExitChanged ==
    ASSUME NEW n \in NodeData, NEW b \in BOOLEAN
    PROVE  /\ [n EXCEPT !.exit = b] \in NodeData /\ [n EXCEPT !.exit = b].id = n.id
           /\ [n EXCEPT !.exit = b].exit = b /\ [n EXCEPT !.exit = b].entry = n.entry
BY DEF NodeData

\* The same with its agent.
LEMMA AgentChanged ==
    ASSUME NEW n \in NodeData, NEW a \in Agents
    PROVE  /\ [n EXCEPT !.agent = a] \in NodeData /\ [n EXCEPT !.agent = a].id = n.id
           /\ [n EXCEPT !.agent = a].entry = n.entry /\ [n EXCEPT !.agent = a].exit = n.exit
BY DEF NodeData

\* ms has the ids of ns, and its marks or one at the selected node.
NodesMarked(ns, ms) ==
    /\ ms \in Seq(NodeData)
    /\ DOMAIN ms = DOMAIN ns
    /\ \A i \in DOMAIN ns : ms[i].id = ns[i].id
    /\ \/ \A i \in DOMAIN ns : ms[i].entry = ns[i].entry
       \/ \A i \in DOMAIN ns : ms[i].entry = (ns[i].id = selNode)
    /\ \/ \A i \in DOMAIN ns : ms[i].exit = ns[i].exit
       \/ \A i \in DOMAIN ns : ms[i].exit = (ns[i].id = selNode)

\* setEntryNode.
LEMMA EntrySet ==
    ASSUME nodes \in Seq(NodeData), SetEntry
    PROVE  NodesMarked(nodes, nodes') /\ edges' = edges /\ base' = base
<1>1. nodes' = [i \in DOMAIN nodes |-> [nodes[i] EXCEPT !.entry = (nodes[i].id = selNode)]]
  BY DEF SetEntry, Edit, Each
<1>2. \A i \in DOMAIN nodes :
         /\ nodes'[i] \in NodeData /\ nodes'[i].id = nodes[i].id /\ nodes'[i].exit = nodes[i].exit
         /\ nodes'[i].entry = (nodes[i].id = selNode)
  <2> SUFFICES ASSUME NEW i \in DOMAIN nodes
               PROVE  /\ nodes'[i] \in NodeData /\ nodes'[i].id = nodes[i].id
                      /\ nodes'[i].exit = nodes[i].exit /\ nodes'[i].entry = (nodes[i].id = selNode)
    OBVIOUS
  <2> DEFINE b == nodes[i].id = selNode
  <2>0. nodes[i] \in NodeData
    BY Element
  <2>1. nodes'[i] = [nodes[i] EXCEPT !.entry = b] /\ b \in BOOLEAN
    BY <1>1
  <2> HIDE DEF b
  <2>2. /\ nodes'[i] \in NodeData /\ nodes'[i].id = nodes[i].id
        /\ nodes'[i].exit = nodes[i].exit /\ nodes'[i].entry = b
    BY <2>0, <2>1, EntryChanged
  <2> QED  BY <2>2 DEF b
<1>3. nodes' = [i \in DOMAIN nodes |-> nodes'[i]]
  BY <1>1
<1>4. nodes' \in Seq(NodeData) /\ DOMAIN nodes' = DOMAIN nodes
  BY <1>2, <1>3, Replaced
<1> QED  BY <1>2, <1>4 DEF NodesMarked, SetEntry, Edit

\* setExitNode.
LEMMA ExitSet ==
    ASSUME nodes \in Seq(NodeData), SetExit
    PROVE  NodesMarked(nodes, nodes') /\ edges' = edges /\ base' = base
<1>1. nodes' = [i \in DOMAIN nodes |-> [nodes[i] EXCEPT !.exit = (nodes[i].id = selNode)]]
  BY DEF SetExit, Edit, Each
<1>2. \A i \in DOMAIN nodes :
         /\ nodes'[i] \in NodeData /\ nodes'[i].id = nodes[i].id /\ nodes'[i].entry = nodes[i].entry
         /\ nodes'[i].exit = (nodes[i].id = selNode)
  <2> SUFFICES ASSUME NEW i \in DOMAIN nodes
               PROVE  /\ nodes'[i] \in NodeData /\ nodes'[i].id = nodes[i].id
                      /\ nodes'[i].entry = nodes[i].entry /\ nodes'[i].exit = (nodes[i].id = selNode)
    OBVIOUS
  <2> DEFINE b == nodes[i].id = selNode
  <2>0. nodes[i] \in NodeData
    BY Element
  <2>1. nodes'[i] = [nodes[i] EXCEPT !.exit = b] /\ b \in BOOLEAN
    BY <1>1
  <2> HIDE DEF b
  <2>2. /\ nodes'[i] \in NodeData /\ nodes'[i].id = nodes[i].id
        /\ nodes'[i].entry = nodes[i].entry /\ nodes'[i].exit = b
    BY <2>0, <2>1, ExitChanged
  <2> QED  BY <2>2 DEF b
<1>3. nodes' = [i \in DOMAIN nodes |-> nodes'[i]]
  BY <1>1
<1>4. nodes' \in Seq(NodeData) /\ DOMAIN nodes' = DOMAIN nodes
  BY <1>2, <1>3, Replaced
<1> QED  BY <1>2, <1>4 DEF NodesMarked, SetExit, Edit

\* updateSelectedNode.
LEMMA AgentSet ==
    ASSUME nodes \in Seq(NodeData), NEW a \in Agents, SetAgent(a)
    PROVE  NodesMarked(nodes, nodes') /\ edges' = edges /\ base' = base
<1>1. nodes' = [i \in DOMAIN nodes |->
                  IF nodes[i].id = selNode THEN [nodes[i] EXCEPT !.agent = a] ELSE nodes[i]]
  BY DEF SetAgent, Edit, Each
<1>2. \A i \in DOMAIN nodes :
         /\ nodes'[i] \in NodeData /\ nodes'[i].id = nodes[i].id
         /\ nodes'[i].entry = nodes[i].entry /\ nodes'[i].exit = nodes[i].exit
  <2> SUFFICES ASSUME NEW i \in DOMAIN nodes
               PROVE  /\ nodes'[i] \in NodeData /\ nodes'[i].id = nodes[i].id
                      /\ nodes'[i].entry = nodes[i].entry /\ nodes'[i].exit = nodes[i].exit
    OBVIOUS
  <2>1. nodes[i] \in NodeData
    BY Element
  <2>2. nodes'[i] = [nodes[i] EXCEPT !.agent = a] \/ nodes'[i] = nodes[i]
    BY <1>1
  <2>3. CASE nodes'[i] = [nodes[i] EXCEPT !.agent = a]
    BY <2>1, <2>3, AgentChanged
  <2>4. CASE nodes'[i] = nodes[i]
    BY <2>1, <2>4
  <2> QED  BY <2>2, <2>3, <2>4
<1>3. nodes' = [i \in DOMAIN nodes |-> nodes'[i]]
  BY <1>1
<1>4. nodes' \in Seq(NodeData) /\ DOMAIN nodes' = DOMAIN nodes
  BY <1>2, <1>3, Replaced
<1> QED  BY <1>2, <1>4 DEF NodesMarked, SetAgent, Edit

\* The agent that the panel shows.
LEMMA SelectedAgent ==
    ASSUME nodes \in Seq(NodeData), NodeShown
    PROVE  Selected.agent \in Agents /\ Selected \in Range(nodes)
<1> DEFINE X == {i \in DOMAIN nodes : nodes[i].id = selNode}
           k == CHOOSE i \in DOMAIN nodes :
                    nodes[i].id = selNode /\ \A j \in 1..i-1 : ~(nodes[j].id = selNode)
<1>1. X \subseteq 1..Len(nodes) /\ X # {} /\ Len(nodes) \in Nat
  BY DEF NodeShown, Ids, Range
<1>2. PICK i \in X : \A j \in 1..i-1 : j \notin X
  BY <1>1, Foremost
<1>3. i \in DOMAIN nodes /\ nodes[i].id = selNode /\ \A j \in 1..i-1 : ~(nodes[j].id = selNode)
  BY <1>1, <1>2
<1>4. k \in DOMAIN nodes
  BY <1>3
<1>5. Selected = nodes[k]
  BY DEF Selected, First
<1> HIDE DEF k
<1>6. nodes[k] \in NodeData
  BY <1>4
<1>7. nodes[k] \in Range(nodes)
  BY <1>4 DEF Range
<1> QED  BY <1>5, <1>6, <1>7 DEF NodeData

\* A new provider or another base_url leaves an agent, and its tools.
LEMMA PanelAgents ==
    ASSUME NEW a \in Agents, NEW p \in Providers, NEW u \in Urls
    PROVE  /\ [a EXCEPT !.provider = p, !.url = u] \in Agents
           /\ [a EXCEPT !.provider = p, !.url = u].provider # "foreign"
           /\ [a EXCEPT !.provider = p, !.url = u].tools = a.tools
           /\ [a EXCEPT !.url = u] \in Agents
           /\ [a EXCEPT !.url = u].provider = a.provider
           /\ [a EXCEPT !.url = u].tools = a.tools
<1>1. p # "foreign"
  BY DEF Providers
<1> QED  BY <1>1 DEF Agents

\* specToCanvas.
LEMMA LoadedNodes ==
    ASSUME NEW f \in Files
    PROVE  /\ CanvasNodes(f) \in Seq(NodeData)
           /\ f.nodes \in Seq([id : Nat \ {NoId}, agent : Agents])
           /\ DOMAIN CanvasNodes(f) = DOMAIN f.nodes
           /\ \A i \in DOMAIN f.nodes : /\ CanvasNodes(f)[i].id = f.nodes[i].id
                                        /\ CanvasNodes(f)[i].entry <=> f.nodes[i].id = f.entry
                                        /\ CanvasNodes(f)[i].exit <=> f.nodes[i].id = f.exit
           /\ Ids(CanvasNodes(f)) = Ids(f.nodes)
<1>1. f.nodes \in Seq([id : Nat \ {NoId}, agent : Agents])
  BY FilesAssumption DEF Specs
<1>2. CanvasNodes(f) = [i \in DOMAIN f.nodes |->
                          [id |-> f.nodes[i].id, agent |-> f.nodes[i].agent,
                           entry |-> f.nodes[i].id = f.entry, exit |-> f.nodes[i].id = f.exit]]
  BY DEF CanvasNodes
<1>3. ASSUME NEW i \in DOMAIN f.nodes
      PROVE  /\ CanvasNodes(f)[i] \in NodeData
             /\ CanvasNodes(f)[i].id = f.nodes[i].id
             /\ CanvasNodes(f)[i].entry <=> f.nodes[i].id = f.entry
             /\ CanvasNodes(f)[i].exit <=> f.nodes[i].id = f.exit
  <2> DEFINE b == f.nodes[i].id = f.entry
             c == f.nodes[i].id = f.exit
  <2>1. f.nodes[i] \in [id : Nat \ {NoId}, agent : Agents]
    BY <1>1, Element
  <2>2. f.nodes[i].id \in Nat \ {NoId} /\ f.nodes[i].agent \in Agents
    BY <2>1
  <2>3. CanvasNodes(f)[i] = NodeOf(f.nodes[i].id, f.nodes[i].agent, b, c)
    BY <1>2 DEF NodeOf
  <2>4. b \in BOOLEAN /\ c \in BOOLEAN
    OBVIOUS
  <2>5. (b <=> f.nodes[i].id = f.entry) /\ (c <=> f.nodes[i].id = f.exit)
    OBVIOUS
  <2> HIDE DEF b, c
  <2>6. /\ CanvasNodes(f)[i] \in NodeData
        /\ CanvasNodes(f)[i].id = f.nodes[i].id
        /\ CanvasNodes(f)[i].entry = b /\ CanvasNodes(f)[i].exit = c
    BY <2>2, <2>3, <2>4, NodeFields
  <2> QED  BY <2>4, <2>5, <2>6
<1>4. CanvasNodes(f) = [i \in DOMAIN f.nodes |-> CanvasNodes(f)[i]]
  BY <1>2
<1>5. CanvasNodes(f) \in Seq(NodeData) /\ DOMAIN CanvasNodes(f) = DOMAIN f.nodes
  <2> DEFINE g == CanvasNodes(f)
             s == f.nodes
             R == [id : Nat \ {NoId}, agent : Agents]
  <2>1. g = [i \in DOMAIN s |-> g[i]] /\ \A i \in DOMAIN s : g[i] \in NodeData
    BY <1>3, <1>4
  <2>2. s \in Seq(R)
    BY <1>1
  <2> HIDE DEF g, s, R
  <2>3. g \in Seq(NodeData) /\ DOMAIN g = DOMAIN s
    BY <2>1, <2>2, Replaced
  <2> QED  BY <2>3 DEF g, s
<1>6. Ids(CanvasNodes(f)) = Ids(f.nodes)
  BY <1>3, <1>5 DEF Ids, Range
<1>7. \A i \in DOMAIN f.nodes : /\ CanvasNodes(f)[i].id = f.nodes[i].id
                                /\ CanvasNodes(f)[i].entry <=> f.nodes[i].id = f.entry
                                /\ CanvasNodes(f)[i].exit <=> f.nodes[i].id = f.exit
  BY <1>3
<1> QED  BY <1>1, <1>5, <1>6, <1>7

\* The edges of a file, whose ids start with their places.
LEMMA LoadedEdges ==
    ASSUME NEW f \in Files
    PROVE  /\ CanvasEdges(f) \in Seq(EdgeData)
           /\ DOMAIN CanvasEdges(f) = DOMAIN f.edges
           /\ \A i \in DOMAIN f.edges : /\ CanvasEdges(f)[i].id = <<i, f.edges[i].src, f.edges[i].dst>>
                                        /\ CanvasEdges(f)[i].src = f.edges[i].src
                                        /\ CanvasEdges(f)[i].dst = f.edges[i].dst
                                        /\ CanvasEdges(f)[i].cond = f.edges[i].cond
<1>1. f.edges \in Seq([src : Nat \ {NoId}, dst : Nat \ {NoId}, cond : Conds])
  BY FilesAssumption DEF Specs
<1>2. CanvasEdges(f) = [i \in DOMAIN f.edges |->
                          [id |-> <<i, f.edges[i].src, f.edges[i].dst>>, src |-> f.edges[i].src,
                           dst |-> f.edges[i].dst, cond |-> f.edges[i].cond]]
  BY DEF CanvasEdges
<1>3. ASSUME NEW i \in DOMAIN f.edges
      PROVE  CanvasEdges(f)[i] \in EdgeData
  <2>1. f.edges[i] \in [src : Nat \ {NoId}, dst : Nat \ {NoId}, cond : Conds]
    BY <1>1, Element
  <2>0. i \in Nat
    BY <1>1
  <2>2. /\ f.edges[i].src \in Nat \ {NoId} /\ f.edges[i].dst \in Nat \ {NoId}
        /\ f.edges[i].cond \in Conds
    BY <2>1
  <2>3. <<i, f.edges[i].src, f.edges[i].dst>> \in Seq(Nat)
    BY <2>0, <2>2
  <2> QED  BY <1>2, <2>2, <2>3 DEF EdgeData
<1>4. CanvasEdges(f) = [i \in DOMAIN f.edges |-> CanvasEdges(f)[i]]
  BY <1>2
<1>5. CanvasEdges(f) \in Seq(EdgeData) /\ DOMAIN CanvasEdges(f) = DOMAIN f.edges
  <2> DEFINE g == CanvasEdges(f)
             s == f.edges
             R == [src : Nat \ {NoId}, dst : Nat \ {NoId}, cond : Conds]
  <2>1. g = [i \in DOMAIN s |-> g[i]] /\ \A i \in DOMAIN s : g[i] \in EdgeData
    BY <1>3, <1>4
  <2>2. s \in Seq(R)
    BY <1>1
  <2> HIDE DEF g, s, R
  <2>3. g \in Seq(EdgeData) /\ DOMAIN g = DOMAIN s
    BY <2>1, <2>2, Replaced
  <2> QED  BY <2>3 DEF g, s
<1>6. \A i \in DOMAIN f.edges : /\ CanvasEdges(f)[i].id = <<i, f.edges[i].src, f.edges[i].dst>>
                                /\ CanvasEdges(f)[i].src = f.edges[i].src
                                /\ CanvasEdges(f)[i].dst = f.edges[i].dst
                                /\ CanvasEdges(f)[i].cond = f.edges[i].cond
  BY <1>2
<1> QED  BY <1>5, <1>6

-------------------------------------------------------------------------------
\* What a step does to the canvas, one operator for each kind of step.

Untouched == UNCHANGED <<canvas, base>>

\* A node goes, with the edges at it.
Removed(k) ==
    /\ nodes' = Without(nodes, NodesWithId(k))
    /\ edges' = Without(edges, EdgesAt(k))
    /\ base' = base

\* A node with a new id comes; it is marked if it is the first one.
Dropped(n) ==
    /\ n.id \notin Ids(nodes)
    /\ n.entry => nodes = << >>
    /\ n.exit => nodes = << >>
    /\ nodes' = Append(nodes, n)
    /\ UNCHANGED <<edges, base>>

\* The first edge between two nodes comes.
Connected(s, t) ==
    /\ {s, t} \subseteq Ids(nodes)
    /\ \A e \in Range(edges) : <<e.src, e.dst>> # <<s, t>>
    /\ edges' = Append(edges, [id |-> <<0, s, t>>, src |-> s, dst |-> t, cond |-> "none"])
    /\ UNCHANGED <<nodes, base>>

\* The edges with an id go.
Cut(x) ==
    /\ edges' = Without(edges, EdgesWithId(x))
    /\ UNCHANGED <<nodes, base>>

Marked == NodesMarked(nodes, nodes') /\ edges' = edges /\ base' = base

\* Edges have other conditions, which are registered.
Recond ==
    /\ edges' \in Seq(EdgeData)
    /\ DOMAIN edges' = DOMAIN edges
    /\ \A i \in DOMAIN edges : /\ edges'[i].id = edges[i].id
                               /\ edges'[i].src = edges[i].src
                               /\ edges'[i].dst = edges[i].dst
                               /\ edges'[i].cond \in {edges[i].cond, "none", "registered"}
    /\ UNCHANGED <<nodes, base>>

Opened(f) == nodes' = CanvasNodes(f) /\ edges' = CanvasEdges(f) /\ base' = {f}

Emptied == nodes' = << >> /\ edges' = << >> /\ base' = {}

CanvasStep ==
    \/ Untouched
    \/ \E k \in Nat : Removed(k)
    \/ \E n \in NodeData : Dropped(n)
    \/ \E s, t \in Nat \ {NoId} : Connected(s, t)
    \/ \E x : Cut(x)
    \/ Marked
    \/ Recond
    \/ \E f \in Files : Opened(f)
    \/ Emptied

\* Ids are numbers.
LEMMA IdsAreNumbers ==
    ASSUME NEW ns \in Seq(NodeData)
    PROVE  Ids(ns) \subseteq Nat \ {NoId}
<1> SUFFICES ASSUME NEW i \in DOMAIN ns PROVE ns[i].id \in Nat \ {NoId}
  BY DEF Ids, Range
<1>1. ns[i] \in NodeData
  BY Element
<1> QED  BY <1>1 DEF NodeData

\* onDrop adds one node whose id is new.
LEMMA DropAdds ==
    ASSUME TypeOK, Drop
    PROVE  /\ \E n \in NodeData : Dropped(n) /\ n.agent = NewAgent
           /\ selNode' \in Nat /\ counter' \in 0..MaxDrops
<1> DEFINE k == NextNodeId(nodes)
           b == nodes = << >>
           n == NodeOf(k, NewAgent, b, b)
<1>1. nodes \in Seq(NodeData) /\ counter \in Nat /\ counter \in 0..MaxDrops /\ MaxDrops \in Nat
  BY BoundsAssumption DEF TypeOK
<1>2. k \in Nat \ {NoId} /\ k > counter /\ k \notin Ids(nodes)
  BY <1>1, NextIdIsFresh
<1>3. nodes' = Append(nodes, n) /\ k <= MaxDrops /\ counter' = k /\ selNode' = k
      /\ edges' = edges /\ base' = base
  BY DEF Drop, NodeOf
<1>4. NewAgent \in Agents
  BY DEF NewAgent, Agents, Providers, Urls
<1>5. b \in BOOLEAN /\ (b <=> nodes = << >>)
  OBVIOUS
<1> HIDE DEF b, k
<1>6. n \in NodeData /\ n.id = k /\ n.entry = b /\ n.exit = b /\ n.agent = NewAgent
  <2>1. b \in BOOLEAN /\ k \in Nat \ {NoId}
    BY <1>2, <1>5
  <2>2. \A x \in BOOLEAN : NodeOf(k, NewAgent, x, x) \in NodeData
    BY <1>4, <2>1 DEF NodeOf, NodeData
  <2>3. n \in NodeData
    BY <2>1, <2>2
  <2>4. n.id = k /\ n.entry = b /\ n.exit = b /\ n.agent = NewAgent
    BY DEF NodeOf
  <2> QED  BY <2>3, <2>4
<1> HIDE DEF n
<1>7. Dropped(n)
  BY <1>2, <1>3, <1>5, <1>6 DEF Dropped
<1> QED  BY <1>1, <1>2, <1>3, <1>6, <1>7

\* onConnect adds an edge or leaves an existing one alone.
LEMMA ConnectAdds ==
    ASSUME TypeOK, NEW s \in Ids(nodes), NEW t \in Ids(nodes), Connect(s, t)
    PROVE  Untouched \/ Connected(s, t)
BY DEF Connect, AddEdge, Untouched, Connected, canvas

\* updateSelectedEdgeCond changes conditions only.
LEMMA CondSet ==
    ASSUME TypeOK, NEW c \in {"none", "registered"}, SetCond(c)
    PROVE  Recond
<1>1. edges' = [i \in DOMAIN edges |->
                  IF edges[i].id = selEdge THEN [edges[i] EXCEPT !.cond = c] ELSE edges[i]]
  BY DEF SetCond
<1>2. ASSUME NEW i \in DOMAIN edges
      PROVE  /\ edges'[i] \in EdgeData
             /\ edges'[i].id = edges[i].id /\ edges'[i].src = edges[i].src
             /\ edges'[i].dst = edges[i].dst
             /\ edges'[i].cond \in {edges[i].cond, "none", "registered"}
  <2>1. edges[i] \in EdgeData
    BY Element DEF TypeOK
  <2>2. edges'[i] = [edges[i] EXCEPT !.cond = c] \/ edges'[i] = edges[i]
    BY <1>1
  <2>3. c \in Conds
    BY DEF Conds
  <2>4. CASE edges'[i] = [edges[i] EXCEPT !.cond = c]
    BY <2>1, <2>3, <2>4 DEF EdgeData
  <2>5. CASE edges'[i] = edges[i]
    BY <2>1, <2>5
  <2> QED  BY <2>2, <2>4, <2>5
<1>3. edges' = [i \in DOMAIN edges |-> edges'[i]]
  BY <1>1
<1>4. edges \in Seq(EdgeData)
  BY DEF TypeOK
<1>5. edges' \in Seq(EdgeData) /\ DOMAIN edges' = DOMAIN edges
  BY <1>2, <1>3, <1>4, Replaced
<1>6. \A i \in DOMAIN edges : /\ edges'[i].id = edges[i].id
                              /\ edges'[i].src = edges[i].src
                              /\ edges'[i].dst = edges[i].dst
                              /\ edges'[i].cond \in {edges[i].cond, "none", "registered"}
  BY <1>2
<1> QED  BY <1>5, <1>6 DEF Recond, SetCond

\* Each step of the builder is of one of these kinds.
LEMMA Steps ==
    ASSUME TypeOK, [Next]_vars
    PROVE  CanvasStep
<1>1. nodes \in Seq(NodeData) /\ Ids(nodes) \subseteq Nat \ {NoId} /\ selNode \in Nat
  BY IdsAreNumbers DEF TypeOK
<1>2. CASE Drop
  BY <1>2, DropAdds DEF CanvasStep
<1>3. CASE \E s, t \in Ids(nodes) : Connect(s, t)
  <2>1. PICK s \in Ids(nodes), t \in Ids(nodes) : Connect(s, t)
    BY <1>3
  <2>2. Untouched \/ Connected(s, t)
    BY <2>1, ConnectAdds
  <2> QED  BY <1>1, <2>2 DEF CanvasStep
<1>4. CASE \E k \in Ids(nodes) : ClickNode(k) \/ PressNode(k)
  <2>1. PICK k \in Ids(nodes) : ClickNode(k) \/ PressNode(k)
    BY <1>4
  <2>2. CASE ClickNode(k)
    BY <2>2 DEF ClickNode, Untouched, CanvasStep
  <2>3. CASE PressNode(k)
    <3>1. Removed(k)
      BY <2>3 DEF PressNode, Remove, Removed
    <3> QED  BY <1>1, <3>1 DEF CanvasStep
  <2> QED  BY <2>1, <2>2, <2>3
<1>5. CASE \E e \in Range(edges) : ClickEdge(e) \/ PressEdge(e)
  <2>1. PICK e \in Range(edges) : ClickEdge(e) \/ PressEdge(e)
    BY <1>5
  <2>2. CASE ClickEdge(e)
    BY <2>2 DEF ClickEdge, Untouched, CanvasStep
  <2>3. CASE PressEdge(e)
    <3>1. Cut(e.id)
      BY <2>3 DEF PressEdge, Cut
    <3> QED  BY <3>1 DEF CanvasStep
  <2> QED  BY <2>1, <2>2, <2>3
<1>6. CASE ClickPane
  BY <1>6 DEF ClickPane, Untouched, CanvasStep
<1>7. CASE SetEntry
  BY <1>1, <1>7, EntrySet DEF Marked, CanvasStep
<1>8. CASE SetExit
  BY <1>1, <1>8, ExitSet DEF Marked, CanvasStep
<1>9. CASE \E p \in Providers, default \in Urls \ {"refused"} : SetProvider(p, default)
  <2>1. PICK p \in Providers, default \in Urls : SetProvider(p, default)
    BY <1>9
  <2> DEFINE a == [Selected.agent EXCEPT !.provider = p, !.url = default]
  <2>2. SetAgent(a)
    BY <2>1 DEF SetProvider
  <2>3. a \in Agents
    <3>1. Selected.agent \in Agents
      BY <1>1, <2>2, SelectedAgent DEF SetAgent, Edit
    <3> QED  BY <3>1, PanelAgents
  <2> HIDE DEF a
  <2> QED  BY <1>1, <2>2, <2>3, AgentSet DEF Marked, CanvasStep
<1>10. CASE \E given \in Urls : SetUrl(given)
  <2>1. PICK given \in Urls : SetUrl(given)
    BY <1>10
  <2> DEFINE a == [Selected.agent EXCEPT !.url = given]
  <2>2. SetAgent(a)
    BY <2>1 DEF SetUrl
  <2>3. a \in Agents
    <3>1. Selected.agent \in Agents
      BY <1>1, <2>1, SelectedAgent DEF SetUrl
    <3> QED  BY <3>1, PanelAgents DEF Providers
  <2> HIDE DEF a
  <2> QED  BY <1>1, <2>2, <2>3, AgentSet DEF Marked, CanvasStep
<1>11. CASE DeleteNode
  <2>1. Removed(selNode)
    BY <1>11 DEF DeleteNode, Remove, Removed
  <2> QED  BY <1>1, <2>1 DEF CanvasStep
<1>12. CASE DeleteEdge
  <2>1. Cut(selEdge)
    BY <1>12 DEF DeleteEdge, Cut
  <2> QED  BY <2>1 DEF CanvasStep
<1>13. CASE \E c \in {"none", "registered"} : SetCond(c)
  BY <1>13, CondSet DEF CanvasStep
<1>14. CASE \E f \in Files : Choose(f)
  BY <1>14 DEF Choose, Untouched, CanvasStep
<1>15. CASE \E f \in reading : Loaded(f)
  <2>1. PICK f \in reading : Loaded(f)
    BY <1>15
  <2>2. Opened(f)
    BY <2>1 DEF Loaded, Opened
  <2> QED  BY <2>2 DEF TypeOK, CanvasStep
<1>16. CASE SwitchTab
  BY <1>16 DEF SwitchTab, Emptied, CanvasStep
<1>17. CASE UNCHANGED vars
  BY <1>17 DEF vars, canvas, Untouched, CanvasStep
<1> QED  BY <1>2, <1>3, <1>4, <1>5, <1>6, <1>7, <1>8, <1>9, <1>10, <1>11, <1>12, <1>13, <1>14,
            <1>15, <1>16, <1>17 DEF Next

-------------------------------------------------------------------------------
\* Nodes that have ids of their own and one mark of each kind at most.

Sound(ns) ==
    /\ \A i, j \in DOMAIN ns : ns[i].id = ns[j].id => i = j
    /\ \A i, j \in DOMAIN ns : ns[i].entry /\ ns[j].entry => i = j
    /\ \A i, j \in DOMAIN ns : ns[i].exit /\ ns[j].exit => i = j

\* Sound is the second disjunct of NodesAreSound, without counting.
LEMMA SoundTells ==
    ASSUME NEW T, NEW ns \in Seq(T)
    PROVE  Sound(ns) <=> /\ UniqueIds(ns)
                         /\ Cardinality({i \in DOMAIN ns : ns[i].entry}) <= 1
                         /\ Cardinality({i \in DOMAIN ns : ns[i].exit}) <= 1
<1> DEFINE E == {i \in DOMAIN ns : ns[i].entry}
           X == {i \in DOMAIN ns : ns[i].exit}
<1>1. UniqueIds(ns) <=> \A i, j \in DOMAIN ns : ns[i].id = ns[j].id => i = j
  BY UniqueIdsTell
<1>2. E \in SUBSET DOMAIN ns /\ X \in SUBSET DOMAIN ns
  OBVIOUS
<1>3. /\ (\A i, j \in E : i = j)
            <=> \A i, j \in DOMAIN ns : ns[i].entry /\ ns[j].entry => i = j
      /\ (\A i, j \in X : i = j)
            <=> \A i, j \in DOMAIN ns : ns[i].exit /\ ns[j].exit => i = j
  OBVIOUS
<1> HIDE DEF E, X
<1>4. /\ Cardinality(E) <= 1 <=> \A i, j \in E : i = j
      /\ Cardinality(X) <= 1 <=> \A i, j \in X : i = j
  BY <1>2, AtMostOne
<1>5. Sound(ns) <=> UniqueIds(ns) /\ Cardinality(E) <= 1 /\ Cardinality(X) <= 1
  BY <1>1, <1>3, <1>4 DEF Sound
<1> QED  BY <1>5 DEF E, X

\* Removing nodes keeps them sound.
LEMMA SoundWithout ==
    ASSUME NEW T, NEW ns \in Seq(T), NEW S, Sound(ns)
    PROVE  Sound(Without(ns, S))
<1> DEFINE w == Without(ns, S)
<1>1. ASSUME NEW i \in DOMAIN w, NEW j \in DOMAIN w, i # j
      PROVE  /\ w[i].id # w[j].id
             /\ ~(w[i].entry /\ w[j].entry)
             /\ ~(w[i].exit /\ w[j].exit)
  <2>1. \E p, q \in DOMAIN ns : p # q /\ w[i] = ns[p] /\ w[j] = ns[q]
    BY <1>1, WithoutPlaces
  <2> HIDE DEF w
  <2>2. PICK p \in DOMAIN ns, q \in DOMAIN ns : p # q /\ w[i] = ns[p] /\ w[j] = ns[q]
    BY <2>1
  <2> QED  BY <2>2 DEF Sound
<1> HIDE DEF w
<1>2. Sound(w)
  BY <1>1 DEF Sound
<1> QED  BY <1>2 DEF w

\* So does a new one that is marked only if it is the first.
LEMMA SoundAppended ==
    ASSUME NEW T, NEW ns \in Seq(T), NEW n \in T, Sound(ns), n.id \notin Ids(ns),
           n.entry => ns = << >>, n.exit => ns = << >>
    PROVE  Sound(Append(ns, n))
<1> DEFINE a == Append(ns, n)
           l == Len(ns)+1
<1>1. DOMAIN a = DOMAIN ns \cup {l} /\ a[l] = n /\ \A i \in DOMAIN ns : a[i] = ns[i]
  BY Appended
<1>2. \A i \in DOMAIN ns : n.id # ns[i].id /\ ~n.entry /\ ~n.exit
  BY DEF Ids, Range
<1> HIDE DEF a, l
<1>3. Sound(a)
  BY <1>1, <1>2 DEF Sound
<1> QED  BY <1>3 DEF a

\* So does marking the selected one.
LEMMA SoundMarked ==
    ASSUME NEW ns, NEW ms, Sound(ns), NodesMarked(ns, ms)
    PROVE  Sound(ms)
<1>1. \A i, j \in DOMAIN ms : ms[i].id = ms[j].id => i = j
  BY DEF Sound, NodesMarked
<1>2. ASSUME NEW i \in DOMAIN ms, NEW j \in DOMAIN ms, ms[i].entry, ms[j].entry PROVE i = j
  <2>1. (ns[i].entry /\ ns[j].entry) \/ (ns[i].id = selNode /\ ns[j].id = selNode)
    BY <1>2 DEF NodesMarked
  <2> QED  BY <2>1 DEF Sound, NodesMarked
<1>3. ASSUME NEW i \in DOMAIN ms, NEW j \in DOMAIN ms, ms[i].exit, ms[j].exit PROVE i = j
  <2>1. (ns[i].exit /\ ns[j].exit) \/ (ns[i].id = selNode /\ ns[j].id = selNode)
    BY <1>3 DEF NodesMarked
  <2> QED  BY <2>1 DEF Sound, NodesMarked
<1> QED  BY <1>1, <1>2, <1>3 DEF Sound

\* A file in which no id is used twice is sound.
LEMMA SoundOpened ==
    ASSUME NEW f \in Files, UniqueIds(f.nodes)
    PROVE  Sound(CanvasNodes(f))
<1> DEFINE ns == f.nodes
           ms == CanvasNodes(f)
<1>1. \A i, j \in DOMAIN ns : ns[i].id = ns[j].id => i = j
  BY LoadedNodes, UniqueIdsTell
<1>2. /\ DOMAIN ms = DOMAIN ns
      /\ \A i \in DOMAIN ns : /\ ms[i].id = ns[i].id
                              /\ ms[i].entry <=> ns[i].id = f.entry
                              /\ ms[i].exit <=> ns[i].id = f.exit
  BY LoadedNodes
<1> HIDE DEF ns, ms
<1>3. Sound(ms)
  BY <1>1, <1>2 DEF Sound
<1> QED  BY <1>3 DEF ms

\* NodesAreSound is kept.
LEMMA NodesStep ==
    ASSUME TypeOK, NodesAreSound, CanvasStep
    PROVE  NodesAreSound'
<1> DEFINE Odd == \E f \in base : ~UniqueIds(f.nodes)
           Tidy == Sound(nodes)
<1>1. nodes \in Seq(NodeData)
  BY DEF TypeOK
<1>2. Odd \/ Tidy
  BY <1>1, SoundTells DEF NodesAreSound
<1>3. ASSUME NEW T, nodes' \in Seq(T), Odd' \/ Tidy' PROVE NodesAreSound'
  BY <1>3, SoundTells DEF NodesAreSound
<1>4. CASE Untouched
  BY <1>4 DEF Untouched, canvas, NodesAreSound
<1>5. CASE \E k \in Nat : Removed(k)
  <2>1. PICK k \in Nat : Removed(k)
    BY <1>5
  <2>2. nodes' \in Seq(NodeData)
    BY <1>1, <2>1, WithoutPicks DEF Removed
  <2>3. Tidy => Tidy'
    BY <1>1, <2>1, SoundWithout DEF Removed
  <2>4. Odd => Odd'
    BY <2>1 DEF Removed
  <2> QED  BY <1>2, <1>3, <2>2, <2>3, <2>4
<1>6. CASE \E n \in NodeData : Dropped(n)
  <2>1. PICK n \in NodeData : Dropped(n)
    BY <1>6
  <2>2. nodes' \in Seq(NodeData)
    BY <1>1, <2>1, Appended DEF Dropped
  <2>3. Tidy => Tidy'
    BY <1>1, <2>1, SoundAppended DEF Dropped
  <2>4. Odd => Odd'
    BY <2>1 DEF Dropped
  <2> QED  BY <1>2, <1>3, <2>2, <2>3, <2>4
<1>7. CASE \E s, t \in Nat \ {NoId} : Connected(s, t)
  BY <1>7 DEF Connected, NodesAreSound
<1>8. CASE \E x : Cut(x)
  BY <1>8 DEF Cut, NodesAreSound
<1>9. CASE Marked
  <2>1. nodes' \in Seq(NodeData)
    BY <1>9 DEF Marked, NodesMarked
  <2>2. Tidy => Tidy'
    BY <1>9, SoundMarked DEF Marked
  <2>3. Odd => Odd'
    BY <1>9 DEF Marked
  <2> QED  BY <1>2, <1>3, <2>1, <2>2, <2>3
<1>10. CASE Recond
  BY <1>10 DEF Recond, NodesAreSound
<1>11. CASE \E f \in Files : Opened(f)
  <2>1. PICK f \in Files : Opened(f)
    BY <1>11
  <2>2. nodes' \in Seq(NodeData)
    BY <2>1, LoadedNodes DEF Opened
  <2>3. UniqueIds(f.nodes) => Tidy'
    BY <2>1, SoundOpened DEF Opened
  <2>4. ~UniqueIds(f.nodes) => Odd'
    BY <2>1 DEF Opened
  <2> QED  BY <1>3, <2>2, <2>3, <2>4
<1>12. CASE Emptied
  <2>1. nodes' \in Seq(NodeData) /\ DOMAIN nodes' = {}
    BY <1>12 DEF Emptied
  <2>2. Tidy'
    BY <2>1 DEF Sound
  <2> QED  BY <1>3, <2>1, <2>2
<1> QED  BY <1>4, <1>5, <1>6, <1>7, <1>8, <1>9, <1>10, <1>11, <1>12 DEF CanvasStep

-------------------------------------------------------------------------------
\* The edges.

\* A step keeps the types of nodes and edges.
LEMMA CanvasTypes ==
    ASSUME TypeOK, CanvasStep
    PROVE  nodes' \in Seq(NodeData) /\ edges' \in Seq(EdgeData) /\ base' \subseteq Files
<1>1. nodes \in Seq(NodeData) /\ edges \in Seq(EdgeData) /\ base \subseteq Files
  BY DEF TypeOK
<1>2. CASE Untouched
  BY <1>1, <1>2 DEF Untouched, canvas
<1>3. CASE \E k \in Nat : Removed(k)
  BY <1>1, <1>3, WithoutPicks DEF Removed
<1>4. CASE \E n \in NodeData : Dropped(n)
  BY <1>1, <1>4, Appended DEF Dropped
<1>5. CASE \E s, t \in Nat \ {NoId} : Connected(s, t)
  <2>1. PICK s \in Nat \ {NoId}, t \in Nat \ {NoId} : Connected(s, t)
    BY <1>5
  <2>2. [id |-> <<0, s, t>>, src |-> s, dst |-> t, cond |-> "none"] \in EdgeData
    BY <2>1 DEF EdgeData, Conds
  <2> QED  BY <1>1, <2>1, <2>2, Appended DEF Connected
<1>6. CASE \E x : Cut(x)
  BY <1>1, <1>6, WithoutPicks DEF Cut
<1>7. CASE Marked
  BY <1>1, <1>7 DEF Marked, NodesMarked
<1>8. CASE Recond
  BY <1>1, <1>8 DEF Recond
<1>9. CASE \E f \in Files : Opened(f)
  BY <1>9, LoadedNodes, LoadedEdges DEF Opened
<1>10. CASE Emptied
  BY <1>10 DEF Emptied
<1> QED  BY <1>2, <1>3, <1>4, <1>5, <1>6, <1>7, <1>8, <1>9, <1>10 DEF CanvasStep

\* Which ids a step takes from the canvas.
LEMMA RemovedIds ==
    ASSUME TypeOK, NEW k, Removed(k)
    PROVE  Ids(nodes') = Ids(nodes) \ {k}
<1>1. Range(nodes') = Range(nodes) \ NodesWithId(k)
  BY WithoutRange DEF TypeOK, Removed
<1> QED  BY <1>1 DEF Ids, NodesWithId

\* onDrop takes none.
LEMMA DroppedIds ==
    ASSUME TypeOK, NEW n \in NodeData, Dropped(n)
    PROVE  Ids(nodes) \subseteq Ids(nodes')
<1>1. Range(nodes') = Range(nodes) \cup {n}
  BY Appended DEF TypeOK, Dropped
<1> QED  BY <1>1 DEF Ids

\* Marking takes none.
LEMMA MarkedIds ==
    ASSUME Marked
    PROVE  Ids(nodes') = Ids(nodes)
BY DEF Marked, NodesMarked, Ids, Range

\* The nodes that an edge lacks were lacking in the file.
OfFile(k) ==
    \E f \in base : (\E x \in Range(f.edges) : k \in {x.src, x.dst}) /\ k \notin Ids(f.nodes)

LooseAreOfFile ==
    \A e \in Range(edges) : \A k \in {e.src, e.dst} \ Ids(nodes) : OfFile(k)

\* So they are if no edge lacks one that an edge did not lack before.
LEMMA LooseKept ==
    ASSUME LooseAreOfFile, base' = base,
           \A e \in Range(edges') : \A k \in {e.src, e.dst} \ Ids(nodes') :
               \E x \in Range(edges) : k \in {x.src, x.dst} \ Ids(nodes)
    PROVE  LooseAreOfFile'
<1> SUFFICES ASSUME NEW e \in Range(edges'), NEW k \in {e.src, e.dst} \ Ids(nodes')
             PROVE  OfFile(k)'
  BY DEF LooseAreOfFile
<1>1. OfFile(k)
  BY DEF LooseAreOfFile
<1> QED  BY <1>1 DEF OfFile

\* Each step keeps it.
LEMMA LooseStep ==
    ASSUME TypeOK, LooseAreOfFile, CanvasStep
    PROVE  LooseAreOfFile'
<1>1. CASE Untouched
  BY <1>1 DEF Untouched, canvas, LooseAreOfFile, OfFile
<1>2. CASE \E k \in Nat : Removed(k)
  <2>1. PICK k \in Nat : Removed(k)
    BY <1>2
  <2>2. Ids(nodes') = Ids(nodes) \ {k}
    BY <2>1, RemovedIds
  <2>3. Range(edges') = Range(edges) \ EdgesAt(k)
    BY <2>1, WithoutRange DEF TypeOK, Removed
  <2>4. base' = base
    BY <2>1 DEF Removed
  <2> QED  BY <2>2, <2>3, <2>4, LooseKept DEF EdgesAt
<1>3. CASE \E n \in NodeData : Dropped(n)
  <2>1. PICK n \in NodeData : Dropped(n)
    BY <1>3
  <2>2. Ids(nodes) \subseteq Ids(nodes') /\ edges' = edges /\ base' = base
    BY <2>1, DroppedIds DEF Dropped
  <2> QED  BY <2>2, LooseKept
<1>4. CASE \E s, t \in Nat \ {NoId} : Connected(s, t)
  <2>1. PICK s \in Nat \ {NoId}, t \in Nat \ {NoId} : Connected(s, t)
    BY <1>4
  <2> DEFINE n == [id |-> <<0, s, t>>, src |-> s, dst |-> t, cond |-> "none"]
  <2>2. n \in EdgeData /\ {n.src, n.dst} \subseteq Ids(nodes)
    BY <2>1 DEF EdgeData, Conds, Connected
  <2>3. edges' = Append(edges, n) /\ nodes' = nodes /\ base' = base
    BY <2>1 DEF Connected
  <2> HIDE DEF n
  <2>4. Range(edges') = Range(edges) \cup {n}
    BY <2>2, <2>3, Appended DEF TypeOK
  <2> QED  BY <2>2, <2>3, <2>4, LooseKept
<1>5. CASE \E x : Cut(x)
  <2>1. PICK x : Cut(x)
    BY <1>5
  <2>2. Range(edges') \subseteq Range(edges) /\ nodes' = nodes /\ base' = base
    BY <2>1, WithoutRange DEF TypeOK, Cut
  <2> QED  BY <2>2, LooseKept
<1>6. CASE Marked
  <2>1. Ids(nodes') = Ids(nodes) /\ edges' = edges /\ base' = base
    BY <1>6, MarkedIds DEF Marked
  <2> QED  BY <2>1, LooseKept
<1>7. CASE Recond
  <2>1. nodes' = nodes /\ base' = base
    BY <1>7 DEF Recond
  <2>2. \A e \in Range(edges') : \E x \in Range(edges) : e.src = x.src /\ e.dst = x.dst
    BY <1>7 DEF Recond, Range
  <2> QED  BY <2>1, <2>2, LooseKept
<1>8. CASE \E f \in Files : Opened(f)
  <2>1. PICK f \in Files : Opened(f)
    BY <1>8
  <2>2. Ids(nodes') = Ids(f.nodes) /\ base' = {f}
    BY <2>1, LoadedNodes DEF Opened
  <2>3. \A e \in Range(edges') : \E x \in Range(f.edges) : e.src = x.src /\ e.dst = x.dst
    BY <2>1, LoadedEdges DEF Opened, Range
  <2> QED  BY <2>2, <2>3 DEF LooseAreOfFile, OfFile
<1>9. CASE Emptied
  <2>1. Range(edges') = {}
    BY <1>9 DEF Emptied, Range
  <2> QED  BY <2>1 DEF LooseAreOfFile
<1> QED  BY <1>1, <1>2, <1>3, <1>4, <1>5, <1>6, <1>7, <1>8, <1>9 DEF CanvasStep

\* EdgeIdsTell and CondsAreLoaded are kept: both are about single edges.
Telling(e) == e.id = <<e.id[1], e.src, e.dst>>
Brought(e, b) == e.cond = "unknown" => \E f \in b : UnknownCond(f.edges)

\* Each step keeps both.
LEMMA SingleEdgesStep ==
    ASSUME TypeOK, EdgeIdsTell, CondsAreLoaded, CanvasStep
    PROVE  EdgeIdsTell' /\ CondsAreLoaded'
<1>1. edges \in Seq(EdgeData)
  BY DEF TypeOK
<1>2. \A e \in Range(edges) : Telling(e) /\ Brought(e, base)
  BY DEF EdgeIdsTell, CondsAreLoaded, UnknownCond, Telling, Brought
<1>3. ASSUME \A e \in Range(edges') : Telling(e) /\ Brought(e, base')
      PROVE  EdgeIdsTell' /\ CondsAreLoaded'
  BY <1>3 DEF EdgeIdsTell, CondsAreLoaded, UnknownCond, Telling, Brought
<1>4. CASE UNCHANGED <<edges, base>>
  BY <1>2, <1>3, <1>4
<1>5. CASE \E k \in Nat : Removed(k)
  <2>1. Range(edges') \subseteq Range(edges) /\ base' = base
    BY <1>1, <1>5, WithoutRange DEF Removed
  <2> QED  BY <1>2, <1>3, <2>1
<1>6. CASE \E s, t \in Nat \ {NoId} : Connected(s, t)
  <2>1. PICK s \in Nat \ {NoId}, t \in Nat \ {NoId} : Connected(s, t)
    BY <1>6
  <2> DEFINE n == [id |-> <<0, s, t>>, src |-> s, dst |-> t, cond |-> "none"]
  <2>2. n \in EdgeData
    BY <2>1 DEF EdgeData, Conds
  <2>3. edges' = Append(edges, n) /\ base' = base
    BY <2>1 DEF Connected
  <2>4. Telling(n) /\ Brought(n, base)
    BY DEF Telling, Brought
  <2> HIDE DEF n
  <2>5. Range(edges') = Range(edges) \cup {n}
    BY <1>1, <2>2, <2>3, Appended
  <2> QED  BY <1>2, <1>3, <2>3, <2>4, <2>5
<1>7. CASE \E x : Cut(x)
  <2>1. Range(edges') \subseteq Range(edges) /\ base' = base
    BY <1>1, <1>7, WithoutRange DEF Cut
  <2> QED  BY <1>2, <1>3, <2>1
<1>8. CASE Recond
  <2>1. ASSUME NEW e \in Range(edges') PROVE Telling(e) /\ Brought(e, base)
    <3>1. PICK x \in Range(edges) : /\ e.id = x.id /\ e.src = x.src /\ e.dst = x.dst
                                    /\ e.cond \in {x.cond, "none", "registered"}
      BY <1>8 DEF Recond, Range
    <3>2. Telling(x) /\ Brought(x, base)
      BY <1>2
    <3>3. Telling(e)
      BY <3>1, <3>2 DEF Telling
    <3>4. Brought(e, base)
      BY <3>1, <3>2 DEF Brought
    <3> QED  BY <3>3, <3>4
  <2>2. base' = base
    BY <1>8 DEF Recond
  <2> QED  BY <1>3, <2>1, <2>2
<1>9. CASE \E f \in Files : Opened(f)
  <2>1. PICK f \in Files : Opened(f)
    BY <1>9
  <2>2. ASSUME NEW e \in Range(edges') PROVE Telling(e) /\ Brought(e, {f})
    <3>1. PICK i \in DOMAIN f.edges : /\ e.id = <<i, f.edges[i].src, f.edges[i].dst>>
                                      /\ e.src = f.edges[i].src /\ e.dst = f.edges[i].dst
                                      /\ e.cond = f.edges[i].cond
      BY <2>1, LoadedEdges DEF Opened, Range
    <3>2. Telling(e)
      BY <3>1 DEF Telling
    <3>3. f.edges[i] \in Range(f.edges)
      BY <3>1 DEF Range
    <3>4. Brought(e, {f})
      BY <3>1, <3>3 DEF Brought, UnknownCond
    <3> QED  BY <3>2, <3>4
  <2>3. base' = {f}
    BY <2>1 DEF Opened
  <2> QED  BY <1>3, <2>2, <2>3
<1>10. CASE Emptied
  <2>1. Range(edges') = {}
    BY <1>10 DEF Emptied, Range
  <2> QED  BY <1>3, <2>1
<1> QED  BY <1>4, <1>5, <1>6, <1>7, <1>8, <1>9, <1>10
         DEF CanvasStep, Untouched, canvas, Dropped, Marked

\* What the server does not know of the agents ns is no news to ms.
Known(ns, ms) ==
    \A n \in Range(ns) : /\ n.agent.provider = "foreign" => ForeignProvider(ms)
                         /\ ~n.agent.tools => UnknownTool(ms)

\* A canvas whose agents are no news brings no unknown provider or tool.
LEMMA KnownKeeps ==
    ASSUME AgentsAreLoaded, Known(nodes', nodes), base' = base
    PROVE  AgentsAreLoaded'
<1>1. ForeignProvider(nodes') => ForeignProvider(nodes)
  BY DEF Known, ForeignProvider
<1>2. UnknownTool(nodes') => UnknownTool(nodes)
  BY DEF Known, UnknownTool
<1> QED  BY <1>1, <1>2 DEF AgentsAreLoaded

\* A node's agent is no news, nor is one that only has a provider of the panel or
\* another base_url.
LEMMA KnownAgents ==
    ASSUME NEW ns, NEW ms, DOMAIN ms = DOMAIN ns, NEW a,
           \A i \in DOMAIN ns : ms[i].agent = ns[i].agent \/ ms[i].agent = a,
           NEW n \in Range(ns), a.tools = n.agent.tools,
           a.provider = "foreign" => n.agent.provider = "foreign"
    PROVE  Known(ms, ns)
<1> SUFFICES ASSUME NEW i \in DOMAIN ns
             PROVE  /\ ms[i].agent.provider = "foreign" => ForeignProvider(ns)
                    /\ ~ms[i].agent.tools => UnknownTool(ns)
  BY DEF Known, Range
<1>1. ns[i] \in Range(ns)
  BY DEF Range
<1> QED  BY <1>1 DEF ForeignProvider, UnknownTool

\* updateSelectedNode with such an agent.
LEMMA KnownSet ==
    ASSUME TypeOK, NodeShown, NEW a, SetAgent(a), a.tools = Selected.agent.tools,
           a.provider = "foreign" => Selected.agent.provider = "foreign"
    PROVE  Known(nodes', nodes) /\ base' = base
<1>1. Selected \in Range(nodes)
  BY SelectedAgent DEF TypeOK
<1>2. nodes' = [i \in DOMAIN nodes |->
                  IF nodes[i].id = selNode THEN [nodes[i] EXCEPT !.agent = a] ELSE nodes[i]]
  BY DEF SetAgent, Edit, Each
<1>3. \A i \in DOMAIN nodes : nodes'[i].agent = nodes[i].agent \/ nodes'[i].agent = a
  <2> SUFFICES ASSUME NEW i \in DOMAIN nodes
               PROVE  nodes'[i].agent = nodes[i].agent \/ nodes'[i].agent = a
    OBVIOUS
  <2>1. nodes[i] \in NodeData
    BY Element DEF TypeOK
  <2>2. [nodes[i] EXCEPT !.agent = a].agent = a
    BY <2>1 DEF NodeData
  <2> QED  BY <1>2, <2>2
<1>4. DOMAIN nodes' = DOMAIN nodes
  BY <1>2
<1> QED  BY <1>1, <1>3, <1>4, KnownAgents DEF SetAgent, Edit

\* No step but the opening of a file brings a provider or a tool that the server
\* does not know.
LEMMA AgentsStep ==
    ASSUME TypeOK, AgentsAreLoaded, [Next]_vars
    PROVE  AgentsAreLoaded'
<1>1. nodes \in Seq(NodeData)
  BY DEF TypeOK
<1>2. Known(nodes, nodes)
  BY DEF Known, ForeignProvider, UnknownTool
<1>3. CASE UNCHANGED <<nodes, base>>
  BY <1>2, <1>3, KnownKeeps
<1>4. CASE Drop
  <2>1. PICK n \in NodeData : Dropped(n) /\ n.agent = NewAgent
    BY <1>4, DropAdds
  <2>2. Range(nodes') = Range(nodes) \cup {n} /\ base' = base
    BY <1>1, <2>1, Appended DEF Dropped
  <2>3. Known(nodes', nodes)
    BY <1>2, <2>1, <2>2 DEF Known, NewAgent
  <2> QED  BY <2>2, <2>3, KnownKeeps
<1>5. CASE (\E k \in Ids(nodes) : PressNode(k)) \/ DeleteNode
  <2>1. (\E S : nodes' = Without(nodes, S)) /\ base' = base
    BY <1>5 DEF PressNode, DeleteNode, Remove
  <2>2. Range(nodes') \subseteq Range(nodes)
    BY <1>1, <2>1, WithoutRange
  <2>3. Known(nodes', nodes)
    BY <1>2, <2>2 DEF Known
  <2> QED  BY <2>1, <2>3, KnownKeeps
<1>6. CASE SetEntry \/ SetExit
  <2>1. DOMAIN nodes' = DOMAIN nodes /\ base' = base
    BY <1>6 DEF SetEntry, SetExit, Edit, Each
  <2>2. \A i \in DOMAIN nodes : nodes'[i].agent = nodes[i].agent
    <3> SUFFICES ASSUME NEW i \in DOMAIN nodes PROVE nodes'[i].agent = nodes[i].agent
      OBVIOUS
    <3>1. nodes[i] \in NodeData
      BY <1>1, Element
    <3>2. \/ nodes'[i] = [nodes[i] EXCEPT !.entry = nodes[i].id = selNode]
          \/ nodes'[i] = [nodes[i] EXCEPT !.exit = nodes[i].id = selNode]
      BY <1>6 DEF SetEntry, SetExit, Edit, Each
    <3> QED  BY <3>1, <3>2 DEF NodeData
  <2>3. \A n \in Range(nodes') : \E m \in Range(nodes) : n.agent = m.agent
    BY <2>1, <2>2 DEF Range
  <2>4. Known(nodes', nodes)
    BY <1>2, <2>3 DEF Known
  <2> QED  BY <2>1, <2>4, KnownKeeps
<1>7. CASE \E p \in Providers, default \in Urls \ {"refused"} : SetProvider(p, default)
  <2>1. PICK p \in Providers, default \in Urls : SetProvider(p, default)
    BY <1>7
  <2> DEFINE a == [Selected.agent EXCEPT !.provider = p, !.url = default]
  <2>2. SetAgent(a) /\ NodeShown
    BY <2>1 DEF SetProvider, SetAgent, Edit
  <2>3. Selected.agent \in Agents
    BY <1>1, <2>2, SelectedAgent
  <2>4. a.provider # "foreign" /\ a.tools = Selected.agent.tools
    BY <2>3, PanelAgents
  <2> HIDE DEF a
  <2> QED  BY <2>2, <2>4, KnownSet, KnownKeeps
<1>8. CASE \E given \in Urls : SetUrl(given)
  <2>1. PICK given \in Urls : SetUrl(given)
    BY <1>8
  <2> DEFINE a == [Selected.agent EXCEPT !.url = given]
  <2>2. SetAgent(a) /\ NodeShown
    BY <2>1 DEF SetUrl
  <2>3. Selected.agent \in Agents
    BY <1>1, <2>2, SelectedAgent
  <2>4. a.provider = Selected.agent.provider /\ a.tools = Selected.agent.tools
    BY <2>3, PanelAgents DEF Providers
  <2> HIDE DEF a
  <2> QED  BY <2>2, <2>4, KnownSet, KnownKeeps
<1>9. CASE \E f \in reading : Loaded(f)
  <2>1. PICK f \in reading : Loaded(f)
    BY <1>9
  <2>2. nodes' = CanvasNodes(f) /\ base' = {f}
    BY <2>1 DEF Loaded
  <2>3. \A n \in Range(nodes') : \E m \in Range(f.nodes) : n.agent = m.agent
    BY <2>2 DEF CanvasNodes, Range
  <2>4. /\ ForeignProvider(nodes') => ForeignProvider(f.nodes)
        /\ UnknownTool(nodes') => UnknownTool(f.nodes)
    BY <2>3 DEF ForeignProvider, UnknownTool
  <2> QED  BY <2>2, <2>4 DEF AgentsAreLoaded
<1>10. CASE SwitchTab
  <2>1. Range(nodes') = {}
    BY <1>10 DEF SwitchTab, Range
  <2> QED  BY <2>1 DEF AgentsAreLoaded, ForeignProvider, UnknownTool
<1>11. CASE \/ \E s, t \in Ids(nodes) : Connect(s, t)
            \/ \E k \in Ids(nodes) : ClickNode(k)
            \/ \E e \in Range(edges) : ClickEdge(e) \/ PressEdge(e)
            \/ ClickPane \/ DeleteEdge
            \/ \E c \in {"none", "registered"} : SetCond(c)
            \/ \E f \in Files : Choose(f)
            \/ UNCHANGED vars
  <2>1. UNCHANGED <<nodes, base>>
    BY <1>11 DEF Connect, ClickNode, ClickEdge, PressEdge, ClickPane, DeleteEdge, SetCond,
                 Choose, vars, canvas
  <2> QED  BY <1>3, <2>1
<1> QED  BY <1>4, <1>5, <1>6, <1>7, <1>8, <1>9, <1>10, <1>11 DEF Next

\* No two edges have the same id.
Distinct(es) == \A i, j \in DOMAIN es : es[i].id = es[j].id => i = j

\* Removing edges keeps their ids distinct.
LEMMA DistinctWithout ==
    ASSUME NEW T, NEW es \in Seq(T), NEW S, Distinct(es)
    PROVE  Distinct(Without(es, S))
<1> DEFINE w == Without(es, S)
<1>1. ASSUME NEW i \in DOMAIN w, NEW j \in DOMAIN w, i # j
      PROVE  w[i].id # w[j].id
  <2>1. \E p, q \in DOMAIN es : p # q /\ w[i] = es[p] /\ w[j] = es[q]
    BY <1>1, WithoutPlaces
  <2> HIDE DEF w
  <2> QED  BY <2>1 DEF Distinct
<1> HIDE DEF w
<1>2. Distinct(w)
  BY <1>1 DEF Distinct
<1> QED  BY <1>2 DEF w

\* Each step keeps them distinct: the id of a connected edge tells its nodes.
LEMMA DistinctStep ==
    ASSUME TypeOK, EdgeIdsTell, Distinct(edges), CanvasStep
    PROVE  Distinct(edges')
<1>1. edges \in Seq(EdgeData)
  BY DEF TypeOK
<1>2. CASE UNCHANGED edges
  BY <1>2
<1>3. CASE \E k \in Nat : Removed(k)
  BY <1>1, <1>3, DistinctWithout DEF Removed
<1>4. CASE \E s, t \in Nat \ {NoId} : Connected(s, t)
  <2>1. PICK s \in Nat \ {NoId}, t \in Nat \ {NoId} : Connected(s, t)
    BY <1>4
  <2> DEFINE n == [id |-> <<0, s, t>>, src |-> s, dst |-> t, cond |-> "none"]
             l == Len(edges)+1
  <2>2. n \in EdgeData /\ n.id = <<0, s, t>>
    BY <2>1 DEF EdgeData, Conds
  <2>3. edges' = Append(edges, n)
    BY <2>1 DEF Connected
  <2>4. \A i \in DOMAIN edges : edges[i].id # n.id
    <3> SUFFICES ASSUME NEW i \in DOMAIN edges, edges[i].id = <<0, s, t>> PROVE FALSE
      BY <2>2
    <3>1. edges[i] \in Range(edges)
      BY DEF Range
    <3>2. edges[i].id = <<edges[i].id[1], edges[i].src, edges[i].dst>>
      BY <3>1 DEF EdgeIdsTell
    <3>3. edges[i].src = s /\ edges[i].dst = t
      BY <3>2
    <3> QED  BY <2>1, <3>1, <3>3 DEF Connected
  <2> HIDE DEF n, l
  <2>5. /\ DOMAIN edges' = DOMAIN edges \cup {l} /\ edges'[l] = n
        /\ \A i \in DOMAIN edges : edges'[i] = edges[i]
    BY <1>1, <2>2, <2>3, Appended DEF l
  <2> QED  BY <2>4, <2>5 DEF Distinct
<1>5. CASE \E x : Cut(x)
  BY <1>1, <1>5, DistinctWithout DEF Cut
<1>6. CASE Recond
  BY <1>6 DEF Recond, Distinct
<1>7. CASE \E f \in Files : Opened(f)
  <2>1. PICK f \in Files : Opened(f)
    BY <1>7
  <2>2. /\ DOMAIN edges' = DOMAIN f.edges
        /\ \A i \in DOMAIN f.edges : edges'[i].id = <<i, f.edges[i].src, f.edges[i].dst>>
    BY <2>1, LoadedEdges DEF Opened
  <2> QED  BY <2>2 DEF Distinct
<1>8. CASE Emptied
  BY <1>8 DEF Emptied, Distinct
<1> QED  BY <1>2, <1>3, <1>4, <1>5, <1>6, <1>7, <1>8
         DEF CanvasStep, Untouched, canvas, Dropped, Marked

-------------------------------------------------------------------------------
\* The selection, the counter and the files.

\* Each step keeps their types, and what is selected is of this canvas.
LEMMA SelectionStep ==
    ASSUME TypeOK, SelectionIsOfCanvas, [Next]_vars
    PROVE  /\ selNode' \in Nat /\ selEdge' \in Seq(Nat) /\ counter' \in 0..MaxDrops
           /\ reading' \subseteq Files /\ earlier' \subseteq {"node", "edge"}
           /\ SelectionIsOfCanvas'
<1> USE DEF SelectionIsOfCanvas
<1>1. /\ nodes \in Seq(NodeData) /\ Ids(nodes) \subseteq Nat /\ edges \in Seq(EdgeData)
      /\ selNode \in Nat /\ selEdge \in Seq(Nat) /\ counter \in 0..MaxDrops
      /\ reading \subseteq Files /\ earlier \subseteq {"node", "edge"}
  BY IdsAreNumbers DEF TypeOK
<1>2. NoId \in Nat /\ NoEdge \in Seq(Nat) /\ 0 \in 0..MaxDrops
  BY BoundsAssumption DEF NoId, NoEdge
<1>3. CASE Drop
  BY <1>1, <1>3, DropAdds DEF Drop
<1>4. CASE \E s, t \in Ids(nodes) : Connect(s, t)
  BY <1>1, <1>4 DEF Connect, selection
<1>5. CASE \E k \in Ids(nodes) : ClickNode(k) \/ PressNode(k)
  BY <1>1, <1>2, <1>5 DEF ClickNode, PressNode, selection
<1>6. CASE \E e \in Range(edges) : ClickEdge(e) \/ PressEdge(e)
  <2>1. PICK e \in Range(edges) : ClickEdge(e) \/ PressEdge(e)
    BY <1>6
  <2>2. e \in EdgeData
    BY <1>1, Element DEF Range
  <2>3. e.id \in Seq(Nat)
    BY <2>2 DEF EdgeData
  <2> QED  BY <1>1, <1>2, <2>1, <2>3 DEF ClickEdge, PressEdge, selection
<1>7. CASE ClickPane
  BY <1>1, <1>2, <1>7 DEF ClickPane
<1>8. CASE SetEntry \/ SetExit
  BY <1>1, <1>8 DEF SetEntry, SetExit, Edit, selection
<1>9. CASE \E p \in Providers, default \in Urls \ {"refused"} : SetProvider(p, default)
  BY <1>1, <1>9 DEF SetProvider, SetAgent, Edit, selection
<1>10. CASE \E given \in Urls : SetUrl(given)
  BY <1>1, <1>10 DEF SetUrl, SetAgent, Edit, selection
<1>11. CASE DeleteNode \/ DeleteEdge
  BY <1>1, <1>2, <1>11 DEF DeleteNode, DeleteEdge
<1>12. CASE \E c \in {"none", "registered"} : SetCond(c)
  BY <1>1, <1>12 DEF SetCond, selection
<1>13. CASE \E f \in Files : Choose(f)
  BY <1>1, <1>13 DEF Choose, selection
<1>14. CASE \E f \in reading : Loaded(f)
  BY <1>1, <1>2, <1>14 DEF Loaded
<1>15. CASE SwitchTab
  BY <1>2, <1>15 DEF SwitchTab
<1>16. CASE UNCHANGED vars
  BY <1>1, <1>16 DEF vars, selection
<1> QED  BY <1>3, <1>4, <1>5, <1>6, <1>7, <1>8, <1>9, <1>10, <1>11, <1>12, <1>13, <1>14, <1>15,
            <1>16 DEF Next

-------------------------------------------------------------------------------
\* The invariants of the builder.

\* The two halves of EdgesAreSound.
LEMMA EdgesAreSoundTells ==
    EdgesAreSound <=> Distinct(edges) /\ LooseAreOfFile
BY DEF EdgesAreSound, Distinct, LooseAreOfFile, OfFile

\* An empty canvas satisfies the invariant.
LEMMA InitHolds == Init => IInv
<1> SUFFICES ASSUME Init PROVE IInv
  OBVIOUS
<1>1. nodes = << >> /\ edges = << >> /\ base = {}
  BY DEF Init
<1>2. TypeOK
  BY BoundsAssumption DEF Init, TypeOK, NoId, NoEdge
<1>3. Sound(nodes)
  BY <1>1 DEF Sound
<1>4. nodes \in Seq(NodeData) /\ Range(edges) = {}
  BY <1>1 DEF Range
<1>5. NodesAreSound
  BY <1>3, <1>4, SoundTells DEF NodesAreSound
<1>6. EdgesAreSound
  BY <1>1, <1>4 DEF EdgesAreSound
<1>7. EdgeIdsTell /\ CondsAreLoaded
  BY <1>4 DEF EdgeIdsTell, CondsAreLoaded, UnknownCond
<1>8. AgentsAreLoaded
  BY <1>1 DEF AgentsAreLoaded, ForeignProvider, UnknownTool, Range
<1> QED  BY <1>2, <1>5, <1>6, <1>7, <1>8 DEF IInv, CanvasIsSound, SelectionIsOfCanvas, Init

\* Every step keeps the invariant.
LEMMA IInvStep == IInv /\ [Next]_vars => IInv'
<1> SUFFICES ASSUME IInv, [Next]_vars PROVE IInv'
  OBVIOUS
<1> USE DEF IInv, CanvasIsSound
<1>1. CanvasStep
  BY Steps
<1>2. TypeOK'
  <2>1. nodes' \in Seq(NodeData) /\ edges' \in Seq(EdgeData) /\ base' \subseteq Files
    BY <1>1, CanvasTypes
  <2>2. /\ selNode' \in Nat /\ selEdge' \in Seq(Nat) /\ counter' \in 0..MaxDrops
        /\ reading' \subseteq Files /\ earlier' \subseteq {"node", "edge"}
    BY SelectionStep
  <2> QED  BY <2>1, <2>2 DEF TypeOK
<1>3. NodesAreSound'
  BY <1>1, NodesStep
<1>4. EdgesAreSound'
  <2>1. Distinct(edges)' /\ LooseAreOfFile'
    BY <1>1, EdgesAreSoundTells, DistinctStep, LooseStep
  <2> QED  BY <2>1 DEF EdgesAreSound, Distinct, LooseAreOfFile, OfFile
<1>5. EdgeIdsTell' /\ CondsAreLoaded'
  BY <1>1, SingleEdgesStep
<1>6. SelectionIsOfCanvas' /\ AgentsAreLoaded'
  BY SelectionStep, AgentsStep
<1> QED  BY <1>2, <1>3, <1>4, <1>5, <1>6

\* The inductive invariant: the canvas is sound, edge ids tell their nodes, and
\* neither the selection nor a condition, a provider or a tool comes from where it
\* cannot.
THEOREM InvHolds == Spec => []IInv
BY InitHolds, IInvStep, PTL DEF Spec

\* The nodes, edges, selection and files are what the component's types say.
THEOREM TypesAreKept == Spec => []TypeOK
<1>1. IInv => TypeOK
  BY DEF IInv
<1> QED  BY <1>1, InvHolds, PTL

\* Whatever is dropped, connected, removed and opened, in any order: ids stay
\* unique, one node at most is the entry and one the exit, and an edge without its
\* node came so from a file.
THEOREM CanvasStaysSound == Spec => []CanvasIsSound
<1>1. IInv => CanvasIsSound
  BY DEF IInv
<1> QED  BY <1>1, InvHolds, PTL

\* The panel shows nothing that was selected on an earlier canvas, though ids
\* are used again.
THEOREM PanelShowsCanvas == Spec => []PanelIsOfCanvas
<1>1. IInv => PanelIsOfCanvas
  <2> SUFFICES ASSUME IInv PROVE PanelIsOfCanvas
    OBVIOUS
  <2>1. NodeShown => selNode # NoId
    BY IdsAreNumbers DEF IInv, TypeOK, NodeShown
  <2>2. EdgeShown => selEdge # NoEdge
    <3> SUFFICES ASSUME NEW e \in Range(edges), e.id = << >> PROVE FALSE
      BY DEF EdgeShown, NoEdge
    <3>1. << >> = <<e.id[1], e.src, e.dst>>
      BY DEF IInv, EdgeIdsTell
    <3>2. \A a, b, c : <<a, b, c>> # << >>
      <4> SUFFICES ASSUME NEW a, NEW b, NEW c PROVE <<a, b, c>> # << >>
        OBVIOUS
      <4>1. Len(<<a, b, c>>) = 3 /\ Len(<< >>) = 0
        OBVIOUS
      <4> QED  BY <4>1
    <3> QED  BY <3>1, <3>2
  <2> QED  BY <2>1, <2>2 DEF IInv, SelectionIsOfCanvas, PanelIsOfCanvas
<1> QED  BY <1>1, InvHolds, PTL

-------------------------------------------------------------------------------
\* What the builder hands out.

\* The nodes that nodes.find finds by their marks.
EntryOf(ns) == First(ns, LAMBDA n : n.entry)
ExitOf(ns) == First(ns, LAMBDA n : n.exit)

\* It finds one if there is one.
LEMMA FirstEntry ==
    ASSUME NEW S, NEW ns \in Seq(S), \E n \in Range(ns) : n.entry
    PROVE  EntryOf(ns) \in Range(ns) /\ EntryOf(ns).entry
<1> DEFINE X == {i \in DOMAIN ns : ns[i].entry}
           k == CHOOSE j \in DOMAIN ns : ns[j].entry /\ \A h \in 1..j-1 : ~ns[h].entry
<1>1. X \subseteq 1..Len(ns) /\ X # {} /\ Len(ns) \in Nat
  BY DEF Range
<1>2. PICK i \in X : \A j \in 1..i-1 : j \notin X
  BY <1>1, Foremost
<1>3. i \in DOMAIN ns /\ ns[i].entry /\ \A j \in 1..i-1 : ~ns[j].entry
  BY <1>1, <1>2
<1>4. k \in DOMAIN ns /\ ns[k].entry
  BY <1>3
<1>5. EntryOf(ns) = ns[k]
  BY DEF First, EntryOf
<1> QED  BY <1>4, <1>5 DEF Range

\* The same for the exit.
LEMMA FirstExit ==
    ASSUME NEW S, NEW ns \in Seq(S), \E n \in Range(ns) : n.exit
    PROVE  ExitOf(ns) \in Range(ns) /\ ExitOf(ns).exit
<1> DEFINE X == {i \in DOMAIN ns : ns[i].exit}
           k == CHOOSE j \in DOMAIN ns : ns[j].exit /\ \A h \in 1..j-1 : ~ns[h].exit
<1>1. X \subseteq 1..Len(ns) /\ X # {} /\ Len(ns) \in Nat
  BY DEF Range
<1>2. PICK i \in X : \A j \in 1..i-1 : j \notin X
  BY <1>1, Foremost
<1>3. i \in DOMAIN ns /\ ns[i].exit /\ \A j \in 1..i-1 : ~ns[j].exit
  BY <1>1, <1>2
<1>4. k \in DOMAIN ns /\ ns[k].exit
  BY <1>3
<1>5. ExitOf(ns) = ns[k]
  BY DEF First, ExitOf
<1> QED  BY <1>4, <1>5 DEF Range

\* What canvasToSpec returns.
LEMMA SpecFields ==
    ASSUME NEW ns, NEW es
    PROVE  CanvasToSpec(ns, es) =
               [nodes |-> [i \in DOMAIN ns |-> [id |-> ns[i].id, agent |-> ns[i].agent]],
                edges |-> [i \in DOMAIN es |-> [src |-> es[i].src, dst |-> es[i].dst, cond |-> es[i].cond]],
                entry |-> EntryOf(ns).id, exit |-> ExitOf(ns).id]
BY DEF CanvasToSpec, First, EntryOf, ExitOf

\* Opening what was saved gives back its nodes, with the marks where they were
\* found, and its edges.
LEMMA Reopened ==
    ASSUME NEW ns \in Seq(NodeData), NEW es \in Seq(EdgeData), NEW s, s = CanvasToSpec(ns, es)
    PROVE  /\ CanvasNodes(s) \in Seq(NodeData)
           /\ DOMAIN CanvasNodes(s) = DOMAIN ns /\ DOMAIN CanvasEdges(s) = DOMAIN es
           /\ Len(CanvasNodes(s)) = Len(ns)
           /\ \A i \in DOMAIN ns : /\ CanvasNodes(s)[i].id = ns[i].id
                                   /\ CanvasNodes(s)[i].agent = ns[i].agent
                                   /\ CanvasNodes(s)[i].entry <=> ns[i].id = s.entry
                                   /\ CanvasNodes(s)[i].exit <=> ns[i].id = s.exit
           /\ \A i \in DOMAIN es : /\ CanvasEdges(s)[i].src = es[i].src
                                   /\ CanvasEdges(s)[i].dst = es[i].dst
                                   /\ CanvasEdges(s)[i].cond = es[i].cond
<1>1. /\ s.nodes = [i \in DOMAIN ns |-> [id |-> ns[i].id, agent |-> ns[i].agent]]
      /\ s.edges = [i \in DOMAIN es |-> [src |-> es[i].src, dst |-> es[i].dst, cond |-> es[i].cond]]
  BY SpecFields
<1>2. /\ DOMAIN CanvasNodes(s) = DOMAIN ns
      /\ \A i \in DOMAIN ns : CanvasNodes(s)[i] = [id |-> ns[i].id, agent |-> ns[i].agent,
                                   entry |-> ns[i].id = s.entry, exit |-> ns[i].id = s.exit]
  BY <1>1 DEF CanvasNodes
<1>3. /\ DOMAIN CanvasEdges(s) = DOMAIN es
      /\ \A i \in DOMAIN es : /\ CanvasEdges(s)[i].src = es[i].src
                              /\ CanvasEdges(s)[i].dst = es[i].dst
                              /\ CanvasEdges(s)[i].cond = es[i].cond
  BY <1>1 DEF CanvasEdges
<1>4. ASSUME NEW i \in DOMAIN ns
      PROVE  /\ CanvasNodes(s)[i] \in NodeData
             /\ CanvasNodes(s)[i].id = ns[i].id /\ CanvasNodes(s)[i].agent = ns[i].agent
             /\ CanvasNodes(s)[i].entry <=> ns[i].id = s.entry
             /\ CanvasNodes(s)[i].exit <=> ns[i].id = s.exit
  <2> DEFINE b == ns[i].id = s.entry
             c == ns[i].id = s.exit
  <2>1. ns[i] \in NodeData
    OBVIOUS
  <2>2. ns[i].id \in Nat \ {NoId} /\ ns[i].agent \in Agents
    BY <2>1 DEF NodeData
  <2>3. CanvasNodes(s)[i] = NodeOf(ns[i].id, ns[i].agent, b, c)
    BY <1>2 DEF NodeOf
  <2>4. b \in BOOLEAN /\ c \in BOOLEAN
    OBVIOUS
  <2>5. (b <=> ns[i].id = s.entry) /\ (c <=> ns[i].id = s.exit)
    OBVIOUS
  <2> HIDE DEF b, c
  <2>6. /\ CanvasNodes(s)[i] \in NodeData
        /\ CanvasNodes(s)[i].id = ns[i].id /\ CanvasNodes(s)[i].agent = ns[i].agent
        /\ CanvasNodes(s)[i].entry = b /\ CanvasNodes(s)[i].exit = c
    BY <2>2, <2>3, <2>4, NodeFields
  <2> QED  BY <2>4, <2>5, <2>6
<1>5. CanvasNodes(s) \in [1..Len(ns) -> NodeData] /\ Len(ns) \in Nat
  <2>1. CanvasNodes(s) = [i \in DOMAIN CanvasNodes(s) |-> CanvasNodes(s)[i]]
    BY DEF CanvasNodes
  <2>2. DOMAIN ns = 1..Len(ns) /\ Len(ns) \in Nat
    OBVIOUS
  <2> HIDE DEF NodeData
  <2> QED  BY <1>2, <1>4, <2>1, <2>2
<1>6. \A f, n : n \in Nat /\ f \in [1..n -> NodeData] => f \in Seq(NodeData) /\ Len(f) = n
  OBVIOUS
<1>7. CanvasNodes(s) \in Seq(NodeData) /\ Len(CanvasNodes(s)) = Len(ns)
  BY <1>5, <1>6
<1>8. \A i \in DOMAIN ns : /\ CanvasNodes(s)[i].id = ns[i].id
                           /\ CanvasNodes(s)[i].agent = ns[i].agent
                           /\ CanvasNodes(s)[i].entry <=> ns[i].id = s.entry
                           /\ CanvasNodes(s)[i].exit <=> ns[i].id = s.exit
  BY <1>4
<1> QED  BY <1>2, <1>3, <1>7, <1>8

\* graphSpec.ts, canvasToSpec and specToCanvas: whatever the builder hands out
\* can be opened and saved again, and is the same.
LEMMA RoundTrips == TypeOK => RoundTrip
<1> SUFFICES ASSUME TypeOK, Exportable(nodes, edges), NEW s, s = CanvasToSpec(nodes, edges)
             PROVE  /\ Exportable(CanvasNodes(s), CanvasEdges(s))
                    /\ CanvasToSpec(CanvasNodes(s), CanvasEdges(s)) = s
  BY DEF RoundTrip, HandedOut
<1> DEFINE ns == CanvasNodes(s)
           es == CanvasEdges(s)
<1>1. nodes \in Seq(NodeData) /\ edges \in Seq(EdgeData)
  BY DEF TypeOK
<1>2. /\ ns \in Seq(NodeData) /\ Len(ns) = Len(nodes)
      /\ DOMAIN ns = DOMAIN nodes /\ DOMAIN es = DOMAIN edges
      /\ \A i \in DOMAIN nodes : /\ ns[i].id = nodes[i].id /\ ns[i].agent = nodes[i].agent
                                 /\ ns[i].entry <=> nodes[i].id = s.entry
                                 /\ ns[i].exit <=> nodes[i].id = s.exit
      /\ \A i \in DOMAIN edges : /\ es[i].src = edges[i].src /\ es[i].dst = edges[i].dst
                                 /\ es[i].cond = edges[i].cond
  BY <1>1, Reopened
<1> HIDE DEF ns, es
<1>3. s = [nodes |-> [i \in DOMAIN nodes |-> [id |-> nodes[i].id, agent |-> nodes[i].agent]],
           edges |-> [i \in DOMAIN edges |->
                        [src |-> edges[i].src, dst |-> edges[i].dst, cond |-> edges[i].cond]],
           entry |-> EntryOf(nodes).id, exit |-> ExitOf(nodes).id]
  BY SpecFields
<1>4. s.entry = EntryOf(nodes).id /\ s.exit = ExitOf(nodes).id
  BY <1>3
<1>5. \E i \in DOMAIN nodes : nodes[i].id = s.entry
  <2>1. EntryOf(nodes) \in Range(nodes)
    BY <1>1, FirstEntry DEF Exportable
  <2>2. PICK i \in DOMAIN nodes : EntryOf(nodes) = nodes[i]
    BY <2>1 DEF Range
  <2> QED  BY <1>4, <2>2
<1>6. \E i \in DOMAIN nodes : nodes[i].id = s.exit
  <2>1. ExitOf(nodes) \in Range(nodes)
    BY <1>1, FirstExit DEF Exportable
  <2>2. PICK i \in DOMAIN nodes : ExitOf(nodes) = nodes[i]
    BY <2>1 DEF Range
  <2> QED  BY <1>4, <2>2
<1>7. Exportable(ns, es)
  <2>1. (\E n \in Range(ns) : n.entry) /\ (\E n \in Range(ns) : n.exit)
    BY <1>2, <1>5, <1>6 DEF Range
  <2>2. Ids(ns) = Ids(nodes)
    BY <1>2 DEF Ids, Range
  <2>3. UniqueIds(ns)
    BY <1>2, <2>2 DEF UniqueIds, Exportable
  <2>4. Resolve(es, Ids(ns))
    BY <1>2, <2>2 DEF Resolve, Exportable, Range
  <2> QED  BY <2>1, <2>3, <2>4 DEF Exportable
<1>8. EntryOf(ns).id = s.entry
  <2>1. EntryOf(ns) \in Range(ns) /\ EntryOf(ns).entry
    BY <1>2, <1>7, FirstEntry DEF Exportable
  <2>2. PICK i \in DOMAIN nodes : EntryOf(ns) = ns[i]
    BY <1>2, <2>1 DEF Range
  <2>3. ns[i].entry
    BY <2>1, <2>2
  <2> QED  BY <1>2, <2>2, <2>3
<1>9. ExitOf(ns).id = s.exit
  <2>1. ExitOf(ns) \in Range(ns) /\ ExitOf(ns).exit
    BY <1>2, <1>7, FirstExit DEF Exportable
  <2>2. PICK i \in DOMAIN nodes : ExitOf(ns) = ns[i]
    BY <1>2, <2>1 DEF Range
  <2>3. ns[i].exit
    BY <2>1, <2>2
  <2> QED  BY <1>2, <2>2, <2>3
<1>10. CanvasToSpec(ns, es) = s
  <2>1. CanvasToSpec(ns, es) =
          [nodes |-> [i \in DOMAIN ns |-> [id |-> ns[i].id, agent |-> ns[i].agent]],
           edges |-> [i \in DOMAIN es |-> [src |-> es[i].src, dst |-> es[i].dst, cond |-> es[i].cond]],
           entry |-> EntryOf(ns).id, exit |-> ExitOf(ns).id]
    BY SpecFields
  <2>2. [i \in DOMAIN ns |-> [id |-> ns[i].id, agent |-> ns[i].agent]]
          = [i \in DOMAIN nodes |-> [id |-> nodes[i].id, agent |-> nodes[i].agent]]
    BY <1>2
  <2>3. [i \in DOMAIN es |-> [src |-> es[i].src, dst |-> es[i].dst, cond |-> es[i].cond]]
          = [i \in DOMAIN edges |-> [src |-> edges[i].src, dst |-> edges[i].dst, cond |-> edges[i].cond]]
    BY <1>2
  <2> QED  BY <1>3, <1>4, <1>8, <1>9, <2>1, <2>2, <2>3
<1> QED  BY <1>7, <1>10 DEF ns, es

\* A spec that is handed out has the canvas's ids and edges.
LEMMA HandedOutFields ==
    ASSUME TypeOK, Exportable(nodes, edges), NEW s, s = CanvasToSpec(nodes, edges)
    PROVE  /\ Ids(s.nodes) = Ids(nodes) /\ UniqueIds(s.nodes)
           /\ {s.entry, s.exit} \subseteq Ids(nodes)
           /\ \A x \in Range(s.edges) : \E e \in Range(edges) :
                  x.src = e.src /\ x.dst = e.dst /\ x.cond = e.cond
           /\ \A x \in Range(s.nodes) : \E n \in Range(nodes) : x.agent = n.agent
<1>1. nodes \in Seq(NodeData)
  BY DEF TypeOK
<1>2. /\ s.nodes = [i \in DOMAIN nodes |-> [id |-> nodes[i].id, agent |-> nodes[i].agent]]
      /\ s.edges = [i \in DOMAIN edges |->
                      [src |-> edges[i].src, dst |-> edges[i].dst, cond |-> edges[i].cond]]
      /\ s.entry = EntryOf(nodes).id /\ s.exit = ExitOf(nodes).id
  BY SpecFields
<1>3. DOMAIN s.nodes = DOMAIN nodes /\ \A i \in DOMAIN nodes : s.nodes[i].id = nodes[i].id
  BY <1>2
<1>4. Ids(s.nodes) = Ids(nodes)
  BY <1>3 DEF Ids, Range
<1>5. Len(s.nodes) = Len(nodes)
  <2> DEFINE g == s.nodes
             U == {s.nodes[i] : i \in DOMAIN nodes}
  <2>1. g = [i \in DOMAIN nodes |-> g[i]] /\ \A i \in DOMAIN nodes : g[i] \in U
    BY <1>2
  <2> HIDE DEF g, U
  <2>2. Len(g) = Len(nodes)
    BY <1>1, <2>1, Replaced
  <2> QED  BY <2>2 DEF g
<1>6. EntryOf(nodes) \in Range(nodes) /\ ExitOf(nodes) \in Range(nodes)
  BY <1>1, FirstEntry, FirstExit DEF Exportable
<1>7. {s.entry, s.exit} \subseteq Ids(nodes)
  BY <1>2, <1>6 DEF Ids
<1>8. \A x \in Range(s.edges) : \E e \in Range(edges) :
          x.src = e.src /\ x.dst = e.dst /\ x.cond = e.cond
  BY <1>2 DEF Range
<1>9. \A x \in Range(s.nodes) : \E n \in Range(nodes) : x.agent = n.agent
  BY <1>2 DEF Range
<1> QED  BY <1>4, <1>5, <1>7, <1>8, <1>9 DEF UniqueIds, Exportable

\* The graph of a spec that the server accepts is one the scheduler can run.
LEMMA AcceptedCompiles ==
    ASSUME NEW s, Ids(s.nodes) \subseteq Nat, Resolve(s.edges, Ids(s.nodes)),
           {s.entry, s.exit} \subseteq Ids(s.nodes),
           Reachable(GraphOf(s)) = Ids(s.nodes)
    PROVE  Compiled(GraphOf(s))
<1> DEFINE g == GraphOf(s)
           Of(Es) == {<<e.src, e.dst>> : e \in Es}
<1>1. /\ g.nodes = Ids(s.nodes) /\ g.entry = s.entry /\ g.exit = s.exit
      /\ g.always = Of({x \in Range(s.edges) : x.cond = "none"})
      /\ g.cond = Of({x \in Range(s.edges) : x.cond # "none"})
      /\ g.retries = [n \in Ids(s.nodes) |-> 1]
  BY DEF GraphOf
<1>2. \A Es \in SUBSET Range(s.edges) : Of(Es) \subseteq Ids(s.nodes) \X Ids(s.nodes)
  BY DEF Resolve
<1>3. g.always \subseteq g.nodes \X g.nodes /\ g.cond \subseteq g.nodes \X g.nodes
  BY <1>1, <1>2
<1>4. g.retries \in [g.nodes -> Nat]
  BY <1>1
<1> HIDE DEF g
<1>5. WellFormed(g)
  BY <1>1, <1>3, <1>4 DEF WellFormed
<1> QED  BY <1>1, <1>5 DEF Compiled, g

\* What the server says of a graph whose ids and edges are in order.
LEMMA TopologyRefusals ==
    ASSUME NEW s, UniqueIds(s.nodes), {s.entry, s.exit} \ Ids(s.nodes) = {},
           Resolve(s.edges, Ids(s.nodes))
    PROVE  /\ TopologyRefusal(s) \in {"none", "orphans", "unknown condition"}
           /\ TopologyRefusal(s) = "unknown condition" => UnknownCond(s.edges)
           /\ TopologyRefusal(s) = "none" => Reachable(GraphOf(s)) = Ids(s.nodes)
BY DEF TopologyRefusal, UnknownCond

\* The two validations agree, for every canvas that can be made and every graph on
\* it: the server has nothing to refuse in a spec that the builder handed out but
\* base_urls, unreachable nodes and what the opened file had that it does not know;
\* and what it accepts is a compiled graph.
THEOREM HandedOutLoads == Spec => []HandedOutIsLoadable
<1>1. IInv => HandedOutIsLoadable
  <2> DEFINE why(s) == Refusals(s)
  <2> SUFFICES ASSUME IInv, Exportable(nodes, edges), NEW s, s = CanvasToSpec(nodes, edges)
               PROVE  /\ why(s) = {} => Compiled(GraphOf(s))
                      /\ why(s) \subseteq {"base_url", "orphans", "unknown provider",
                                          "unknown tool", "unknown condition"}
                      /\ "unknown provider" \in why(s) => \E f \in base : ForeignProvider(f.nodes)
                      /\ "unknown tool" \in why(s) => \E f \in base : UnknownTool(f.nodes)
                      /\ "unknown condition" \in why(s) => \E f \in base : UnknownCond(f.edges)
    BY DEF HandedOutIsLoadable, HandedOut
  <2> DEFINE A == {AgentRefusal(n.agent) : n \in Range(s.nodes)} \ {"none"}
             t == TopologyRefusal(s)
  <2>1. /\ Ids(s.nodes) = Ids(nodes) /\ UniqueIds(s.nodes)
        /\ {s.entry, s.exit} \subseteq Ids(nodes)
        /\ \A x \in Range(s.edges) : \E e \in Range(edges) :
               x.src = e.src /\ x.dst = e.dst /\ x.cond = e.cond
        /\ \A x \in Range(s.nodes) : \E n \in Range(nodes) : x.agent = n.agent
    BY HandedOutFields DEF IInv
  <2>2. {s.entry, s.exit} \ Ids(s.nodes) = {}
    BY <2>1
  <2>3. Resolve(s.edges, Ids(s.nodes))
    BY <2>1 DEF Resolve, Exportable
  <2>4. why(s) = IF A # {} THEN A ELSE {t} \ {"none"}
    BY DEF Refusals
  <2>5. /\ t \in {"none", "orphans", "unknown condition"}
        /\ t = "unknown condition" => UnknownCond(s.edges)
        /\ t = "none" => Reachable(GraphOf(s)) = Ids(s.nodes)
    BY <2>1, <2>2, <2>3, TopologyRefusals
  <2>6. /\ A \subseteq {"base_url", "unknown provider", "unknown tool"}
        /\ "unknown provider" \in A => ForeignProvider(s.nodes)
        /\ "unknown tool" \in A => UnknownTool(s.nodes)
    BY DEF AgentRefusal, ForeignProvider, UnknownTool
  <2>7. /\ ForeignProvider(s.nodes) => \E f \in base : ForeignProvider(f.nodes)
        /\ UnknownTool(s.nodes) => \E f \in base : UnknownTool(f.nodes)
        /\ UnknownCond(s.edges) => \E f \in base : UnknownCond(f.edges)
    <3>1. ForeignProvider(s.nodes) => ForeignProvider(nodes)
      BY <2>1 DEF ForeignProvider
    <3>2. UnknownTool(s.nodes) => UnknownTool(nodes)
      BY <2>1 DEF UnknownTool
    <3>3. UnknownCond(s.edges) => UnknownCond(edges)
      BY <2>1 DEF UnknownCond
    <3> QED  BY <3>1, <3>2, <3>3 DEF IInv, AgentsAreLoaded, CondsAreLoaded
  <2> HIDE DEF A, t, why
  <2>8. why(s) = {} => Compiled(GraphOf(s))
    <3>1. Ids(nodes) \subseteq Nat
      BY IdsAreNumbers DEF IInv, TypeOK
    <3>2. why(s) = {} => Reachable(GraphOf(s)) = Ids(s.nodes)
      BY <2>4, <2>5
    <3> QED  BY <2>1, <2>2, <2>3, <3>1, <3>2, AcceptedCompiles
  <2>9. why(s) \subseteq {"base_url", "orphans", "unknown provider", "unknown tool",
                         "unknown condition"}
    BY <2>4, <2>5, <2>6
  <2>10. /\ "unknown provider" \in why(s) => ForeignProvider(s.nodes)
         /\ "unknown tool" \in why(s) => UnknownTool(s.nodes)
         /\ "unknown condition" \in why(s) => UnknownCond(s.edges)
    <3>1. why(s) = A \/ why(s) = {t} \ {"none"}
      BY <2>4
    <3>2. CASE why(s) = A
      <4>1. "unknown condition" \notin A
        BY <2>6
      <4> QED  BY <2>6, <3>2, <4>1
    <3>3. CASE why(s) = {t} \ {"none"}
      BY <2>5, <3>3
    <3> QED  BY <3>1, <3>2, <3>3
  <2> QED  BY <2>7, <2>8, <2>9, <2>10
<1> QED  BY <1>1, InvHolds, PTL

\* Saved at any time and opened again, a canvas is handed out as the same spec.
THEOREM SavedSpecsReopen == Spec => []RoundTrip
BY RoundTrips, TypesAreKept, PTL

================================================================================
