---------------------------- MODULE NocMeshProofs ----------------------------
(***************************************************************************)
(* Dimension order routing on meshes.                                      *)
(*                                                                         *)
(* First the way of one flit (NocWalk), in every 2D, 3D and n dimensional  *)
(* mesh whose distances fit in a byte with a direction bit, with           *)
(* XyRouting, XyzRouting and DorRouting and every order of the dimensions. *)
(* A mesh is a grid: the coordinates of a node are the digits of its       *)
(* number (MeshIsGrid), a channel makes one of them greater by one, and    *)
(* the shortest way through the channels is as long as the coordinates are *)
(* apart (HopsAreManhattan).  The header says in which directions and how  *)
(* far the flit has to go; what it says and the hops made so far add up to *)
(* the distance of the flow (WalkInv).                                     *)
(*                                                                         *)
(* Then many flits at once (NocMesh), on every one of these meshes:        *)
(* dimension order routing leads to the destination and takes the channels *)
(* in an order.  With the theorems of NocTransportProofs no assertion      *)
(* fails, the mesh delivers what NocDelivery promises, and the queues are  *)
(* never stuck.  The same hop (HopOnGrid) is taken here, with the headers  *)
(* that occur on the mesh (HeadHops); the channels of a dimension come     *)
(* after those of the dimensions before it (HeadAscends).                  *)
(***************************************************************************)
EXTENDS NocMesh, NocWalk, NocTransportProofs, FiniteSetTheorems

(***************************************************************************)
(* Induction over an interval.                                             *)
(***************************************************************************)
LessNat == {p \in Nat \X Nat : p[1] < p[2]}

LEMMA LeastOf ==
  ASSUME NEW T \in SUBSET Nat, T # {}
  PROVE  \E x \in T : \A y \in T : x <= y
  <1>1. IsWellFoundedOn(LessNat, Nat)
    BY NatLessThanWellFounded DEF OpToRel, LessNat
  <1>2. PICK x \in T : \A y \in T : <<y, x>> \notin LessNat
    BY <1>1, WFMin
  <1>3. \A y \in T : ~(y < x)
    BY <1>2 DEF LessNat
  <1> QED BY <1>3

LEMMA Induction ==
  ASSUME NEW n \in Nat, NEW P \in SUBSET (0 .. n), 0 \in P,
         \A k \in 1 .. n : k - 1 \in P => k \in P
  PROVE  P = 0 .. n
  <1> DEFINE T == (0 .. n) \ P
  <1>1. SUFFICES ASSUME T # {} PROVE FALSE
    OBVIOUS
  <1>2. T \in SUBSET Nat
    OBVIOUS
  <1>3. PICK x \in T : \A y \in T : x <= y
    <2> HIDE DEF T
    <2> QED BY <1>1, <1>2, LeastOf
  <1>4. x \in 1 .. n /\ x - 1 \in 0 .. n /\ x - 1 \notin T
    BY <1>3
  <1> QED BY <1>3, <1>4

(***************************************************************************)
(* Sums of functions.                                                      *)
(***************************************************************************)
Some(s) == CHOOSE x \in s : TRUE
Small(D, k) == {s \in SUBSET D : Cardinality(s) <= k}
Sums(it, f, T) ==
  it \in [T -> Nat] /\ \A s \in T : it[s] = IF s = {} THEN 0 ELSE f[Some(s)] + it[s \ {Some(s)}]

LEMMA WithoutOne ==
  ASSUME NEW D, IsFiniteSet(D), NEW s \in SUBSET D
  PROVE  /\ IsFiniteSet(s) /\ Cardinality(s) \in 0 .. Cardinality(D)
         /\ Cardinality(s) = 0 <=> s = {}
         /\ s # {} => /\ Some(s) \in s
                      /\ s \ {Some(s)} \in SUBSET D
                      /\ Cardinality(s \ {Some(s)}) = Cardinality(s) - 1
  <1>1. IsFiniteSet(s) /\ Cardinality(s) <= Cardinality(D)
    BY FS_Subset
  <1>2. Cardinality(s) \in Nat /\ Cardinality(D) \in Nat
    BY <1>1, FS_CardinalityType
  <1>3. Cardinality(s) = 0 <=> s = {}
    BY <1>1, FS_EmptySet
  <1>4. s # {} => Some(s) \in s
    BY DEF Some
  <1>5. s # {} => Cardinality(s \ {Some(s)}) = Cardinality(s) - 1
    BY <1>1, <1>4, FS_RemoveElement
  <1> QED BY <1>1, <1>2, <1>3, <1>4, <1>5

LEMMA SmallSubset ==
  ASSUME NEW D, IsFiniteSet(D), NEW k \in Nat, NEW s
  PROVE  s \in Small(D, k) <=> s \in SUBSET D /\ Cardinality(s) \in 0 .. k
  <1>1. s \in SUBSET D => Cardinality(s) \in Nat
    BY FS_Subset, FS_CardinalityType
  <1> QED BY <1>1 DEF Small

\* What a fold computes for the sets in T: G combines a set, by its element Some(s), with
\* what was computed for the rest of the set.
Folds(it, G, base, T) ==
  \A s \in T : it[s] = IF s = {} THEN base ELSE G[<<s, it[s \ {Some(s)}]>>]

LEMMA FoldsExist ==
  ASSUME NEW D, IsFiniteSet(D), NEW G \in [(SUBSET D) \X Nat -> Nat], NEW base \in Nat
  PROVE  \E it \in [SUBSET D -> Nat] : Folds(it, G, base, SUBSET D)
  <1> DEFINE n == Cardinality(D)
             P == {k \in 0 .. n : \E it \in [Small(D, k) -> Nat] : Folds(it, G, base, Small(D, k))}
  <1>0. n \in Nat
    BY FS_CardinalityType
  <1>1. 0 \in P
    <2> DEFINE it == [s \in Small(D, 0) |-> base]
    <2>1. \A s \in Small(D, 0) : s = {}
      <3>1. \A s \in SUBSET D : Cardinality(s) = 0 <=> s = {}
        BY WithoutOne
      <3> QED BY <3>1, SmallSubset
    <2>2. it \in [Small(D, 0) -> Nat] /\ Folds(it, G, base, Small(D, 0))
      BY <2>1 DEF Folds
    <2> HIDE DEF it
    <2> QED BY <2>2, <1>0
  <1>2. ASSUME NEW k \in 1 .. n, k - 1 \in P PROVE k \in P
    <2>1. PICK a \in [Small(D, k - 1) -> Nat] : Folds(a, G, base, Small(D, k - 1))
      BY <1>2
    <2> DEFINE it == [s \in Small(D, k) |->
                        IF s = {} THEN base ELSE G[<<s, a[s \ {Some(s)}]>>]]
    <2>2. ASSUME NEW s \in Small(D, k), s # {}
          PROVE  s \ {Some(s)} \in Small(D, k - 1) /\ s \in SUBSET D /\ s \ {Some(s)} \in Small(D, k)
      <3>1. Cardinality(s) \in Nat /\ Cardinality(s) <= k /\ s \in SUBSET D
        BY SmallSubset
      <3>2. s \ {Some(s)} \in SUBSET D /\ Cardinality(s \ {Some(s)}) = Cardinality(s) - 1 /\ Some(s) \in s
        BY <3>1, <2>2, WithoutOne
      <3>3. Cardinality(s) # 0
        BY <3>1, <2>2, WithoutOne
      <3>4. Cardinality(s) - 1 \in 0 .. k - 1 /\ Cardinality(s) - 1 \in 0 .. k
        BY <3>1, <3>3
      <3> QED BY <3>1, <3>2, <3>4, SmallSubset
    <2>3. it \in [Small(D, k) -> Nat]
      <3>1. ASSUME NEW s \in Small(D, k), s # {} PROVE G[<<s, a[s \ {Some(s)}]>>] \in Nat
        <4>1. a[s \ {Some(s)}] \in Nat /\ s \in SUBSET D
          BY <2>2, <3>1
        <4> QED BY <4>1
      <3> QED BY <3>1
    <2>4. ASSUME NEW s \in Small(D, k - 1) PROVE it[s] = a[s]
      <3>1. s \in Small(D, k)
        <4>1. Cardinality(s) \in Nat /\ Cardinality(s) <= k - 1 /\ s \in SUBSET D
          BY SmallSubset
        <4>2. Cardinality(s) \in 0 .. k
          BY <4>1, SmallSubset
        <4> QED BY <4>1, <4>2, SmallSubset
      <3> QED BY <3>1, <2>1 DEF Folds
    <2>5. ASSUME NEW s \in Small(D, k)
          PROVE  it[s] = IF s = {} THEN base ELSE G[<<s, it[s \ {Some(s)}]>>]
      <3>1. CASE s = {}
        BY <3>1
      <3>2. CASE s # {}
        <4>1. it[s] = G[<<s, a[s \ {Some(s)}]>>]
          BY <3>2
        <4>2. it[s \ {Some(s)}] = a[s \ {Some(s)}]
          BY <3>2, <2>2, <2>4
        <4> HIDE DEF it
        <4> QED BY <4>1, <4>2, <3>2
      <3> QED BY <3>1, <3>2
    <2> HIDE DEF it
    <2>6. Folds(it, G, base, Small(D, k))
      BY <2>5 DEF Folds
    <2> QED BY <2>3, <2>6
  <1>3. n \in P
    <2> HIDE DEF P
    <2>1. P \in SUBSET (0 .. n)
      BY DEF P
    <2>2. P = 0 .. n
      BY <2>1, <1>0, <1>1, <1>2, Induction
    <2> QED BY <2>2, <1>0
  <1>4. Small(D, n) = SUBSET D
    <2>1. \A s \in SUBSET D : Cardinality(s) \in 0 .. n
      BY WithoutOne
    <2> QED BY <2>1, <1>0, SmallSubset
  <1> QED BY <1>3, <1>4

\* Every subset is made from the empty one.
LEMMA SubsetInduction ==
  ASSUME NEW D, IsFiniteSet(D), NEW Q \in SUBSET (SUBSET D), {} \in Q,
         \A s \in SUBSET D : s # {} /\ s \ {Some(s)} \in Q => s \in Q
  PROVE  Q = SUBSET D
  <1> DEFINE n == Cardinality(D)
             P == {k \in 0 .. n : Small(D, k) \subseteq Q}
  <1>0. n \in Nat
    BY FS_CardinalityType
  <1>1. 0 \in P
    <2>1. \A s \in SUBSET D : Cardinality(s) = 0 <=> s = {}
      BY WithoutOne
    <2>2. \A s \in Small(D, 0) : s = {}
      BY <2>1, SmallSubset
    <2>3. Small(D, 0) \subseteq Q
      BY <2>2
    <2> QED BY <2>3, <1>0
  <1>2. ASSUME NEW k \in 1 .. n, k - 1 \in P PROVE k \in P
    <2>1. ASSUME NEW s \in Small(D, k), s # {} PROVE s \in Q
      <3>1. s \in SUBSET D /\ Cardinality(s) \in 0 .. k
        BY SmallSubset
      <3>2. s \ {Some(s)} \in SUBSET D /\ Cardinality(s \ {Some(s)}) \in 0 .. k - 1
        <4>1. s \ {Some(s)} \in SUBSET D /\ Cardinality(s \ {Some(s)}) = Cardinality(s) - 1
              /\ Cardinality(s) # 0
          BY <3>1, <2>1, WithoutOne
        <4> QED BY <4>1, <3>1
      <3>3. s \ {Some(s)} \in Small(D, k - 1)
        BY <3>2, SmallSubset
      <3> QED BY <3>1, <3>3, <2>1, <1>2
    <2> QED BY <2>1
  <1>3. n \in P
    <2> HIDE DEF P
    <2>1. P \in SUBSET (0 .. n)
      BY DEF P
    <2>2. P = 0 .. n
      BY <2>1, <1>0, <1>1, <1>2, Induction
    <2> QED BY <2>2, <1>0
  <1>4. \A s \in SUBSET D : Cardinality(s) \in 0 .. n
    BY WithoutOne
  <1>5. SUBSET D \subseteq Q
    BY <1>0, <1>3, <1>4, SmallSubset
  <1> QED BY <1>5

LEMMA TotalIs ==
  ASSUME NEW D, IsFiniteSet(D), NEW f \in [D -> Nat]
  PROVE  \E it : Sums(it, f, SUBSET D) /\ Total(f) = it[D]
  <1> DEFINE it == CHOOSE it : it = [s \in SUBSET D |-> IF s = {} THEN 0 ELSE f[Some(s)] + it[s \ {Some(s)}]]
             G == [x \in (SUBSET D) \X Nat |-> IF x[1] = {} THEN 0 ELSE f[Some(x[1])] + x[2]]
  <1>1. G \in [(SUBSET D) \X Nat -> Nat]
    <2>1. ASSUME NEW s \in SUBSET D, s # {}, NEW v \in Nat PROVE f[Some(s)] + v \in Nat
      BY <2>1 DEF Some
    <2> QED BY <2>1
  <1>2. ASSUME NEW s \in SUBSET D, s # {}, NEW v \in Nat PROVE G[<<s, v>>] = f[Some(s)] + v
    BY <1>2
  <1> HIDE DEF G
  <1>3. PICK a \in [SUBSET D -> Nat] : Folds(a, G, 0, SUBSET D)
    BY <1>1, FoldsExist
  <1>4. ASSUME NEW s \in SUBSET D
        PROVE  a[s] = IF s = {} THEN 0 ELSE f[Some(s)] + a[s \ {Some(s)}]
    <2>1. a[s \ {Some(s)}] \in Nat
      OBVIOUS
    <2>2. a[s] = IF s = {} THEN 0 ELSE G[<<s, a[s \ {Some(s)}]>>]
      BY <1>3 DEF Folds
    <2> QED BY <2>1, <2>2, <1>2
  <1>5. a = [s \in SUBSET D |-> IF s = {} THEN 0 ELSE f[Some(s)] + a[s \ {Some(s)}]]
    <2>1. a = [s \in SUBSET D |-> a[s]]
      OBVIOUS
    <2> QED BY <1>4, <2>1
  <1>6. it = [s \in SUBSET D |-> IF s = {} THEN 0 ELSE f[Some(s)] + it[s \ {Some(s)}]]
    BY <1>5
  <1>7. Total(f) = it[D]
    BY DEF Total, Funcs!FoldFunctionOnSet, Funcs!MapThenFoldSet, Some
  <1> HIDE DEF it
  <1>8. ASSUME NEW s \in SUBSET D
        PROVE  it[s] = IF s = {} THEN 0 ELSE f[Some(s)] + it[s \ {Some(s)}]
    BY <1>6
  <1>9. \A s \in SUBSET D : it[s] = a[s]
    <2> DEFINE Q == {s \in SUBSET D : it[s] = a[s]}
    <2>1. {} \in Q
      BY <1>4, <1>8
    <2>2. ASSUME NEW s \in SUBSET D, s # {}, s \ {Some(s)} \in Q PROVE s \in Q
      BY <2>2, <1>4, <1>8
    <2> HIDE DEF Q
    <2>3. Q \in SUBSET (SUBSET D)
      BY DEF Q
    <2>4. Q = SUBSET D
      BY <2>1, <2>2, <2>3, SubsetInduction
    <2> QED BY <2>4 DEF Q
  <1>10. Sums(a, f, SUBSET D)
    BY <1>3, <1>4 DEF Sums
  <1> QED BY <1>7, <1>9, <1>10

\* The sum of natural numbers is one; that of zeros is zero, and when one of them grows
\* by one the sum grows by one.
LEMMA TotalType ==
  ASSUME NEW D, IsFiniteSet(D), NEW f \in [D -> Nat]
  PROVE  Total(f) \in Nat
  <1>1. PICK it : Sums(it, f, SUBSET D) /\ Total(f) = it[D]
    BY TotalIs
  <1> QED BY <1>1 DEF Sums

LEMMA SumsChange ==
  ASSUME NEW D, IsFiniteSet(D), NEW f \in [D -> Nat], NEW g \in [D -> Nat], NEW d \in D,
         f[d] = g[d] + 1, \A e \in D \ {d} : f[e] = g[e],
         NEW a, Sums(a, f, SUBSET D), NEW b, Sums(b, g, SUBSET D)
  PROVE  \A s \in SUBSET D : a[s] = IF d \in s THEN b[s] + 1 ELSE b[s]
  <1> DEFINE n == Cardinality(D)
             Ok(s) == a[s] = IF d \in s THEN b[s] + 1 ELSE b[s]
             P == {k \in 0 .. n : \A s \in Small(D, k) : Ok(s)}
  <1>0. n \in Nat
    BY FS_CardinalityType
  <1>1. 0 \in P
    <2>1. \A s \in SUBSET D : Cardinality(s) = 0 <=> s = {}
      BY WithoutOne
    <2>2. \A s \in Small(D, 0) : s = {}
      BY <2>1, SmallSubset
    <2>3. Ok({})
      BY DEF Sums
    <2> HIDE DEF Ok
    <2>4. \A s \in Small(D, 0) : Ok(s)
      BY <2>2, <2>3
    <2> QED BY <2>4, <1>0
  <1>2. ASSUME NEW k \in 1 .. n, k - 1 \in P PROVE k \in P
    <2>1. ASSUME NEW s \in Small(D, k) PROVE Ok(s)
      <3>1. s \in SUBSET D /\ Cardinality(s) \in 0 .. k
        BY SmallSubset
      <3>2. CASE s = {}
        BY <3>1, <3>2 DEF Sums
      <3>3. CASE s # {}
        <4> DEFINE x == Some(s)
                   r == s \ {Some(s)}
        <4>1. x \in s /\ r \in SUBSET D /\ Cardinality(r) = Cardinality(s) - 1
              /\ Cardinality(s) # 0
          BY <3>1, <3>3, WithoutOne
        <4>2. r \in Small(D, k - 1)
          <5>1. Cardinality(r) \in 0 .. k - 1
            BY <4>1, <3>1
          <5> QED BY <4>1, <5>1, SmallSubset
        <4>3. Ok(r)
          BY <4>2, <1>2
        <4>4. a[s] = f[x] + a[r] /\ b[s] = g[x] + b[r]
          BY <3>1, <3>3 DEF Sums
        <4>5. a[r] \in Nat /\ b[r] \in Nat /\ f[x] \in Nat /\ g[x] \in Nat
          BY <4>1, <3>1 DEF Sums
        <4>6. d \in s <=> (x = d \/ d \in r)
          BY <4>1
        <4>7. x = d => d \notin r
          OBVIOUS
        <4>8. f[x] = IF x = d THEN g[x] + 1 ELSE g[x]
          BY <4>1, <3>1
        <4> HIDE DEF x, r
        <4> QED BY <4>3, <4>4, <4>5, <4>6, <4>7, <4>8
      <3> QED BY <3>2, <3>3
    <2> HIDE DEF Ok
    <2> QED BY <2>1
  <1>3. n \in P
    <2> HIDE DEF P
    <2>1. P \in SUBSET (0 .. n)
      BY DEF P
    <2>2. P = 0 .. n
      BY <2>1, <1>0, <1>1, <1>2, Induction
    <2> QED BY <2>2, <1>0
  <1>4. \A s \in SUBSET D : s \in Small(D, n)
    <2>1. \A s \in SUBSET D : Cardinality(s) \in 0 .. n
      BY WithoutOne
    <2> QED BY <2>1, <1>0, SmallSubset
  <1> HIDE DEF Ok
  <1>5. \A s \in SUBSET D : Ok(s)
    BY <1>3, <1>4
  <1> QED BY <1>5 DEF Ok

LEMMA TotalChange ==
  ASSUME NEW D, IsFiniteSet(D), NEW f \in [D -> Nat], NEW g \in [D -> Nat], NEW d \in D,
         f[d] = g[d] + 1, \A e \in D \ {d} : f[e] = g[e]
  PROVE  Total(f) = Total(g) + 1
  <1>1. PICK a : Sums(a, f, SUBSET D) /\ Total(f) = a[D]
    BY TotalIs
  <1>2. PICK b : Sums(b, g, SUBSET D) /\ Total(g) = b[D]
    BY TotalIs
  <1>3. \A s \in SUBSET D : a[s] = IF d \in s THEN b[s] + 1 ELSE b[s]
    BY <1>1, <1>2, SumsChange
  <1> QED BY <1>1, <1>2, <1>3

LEMMA TotalZero ==
  ASSUME NEW D, IsFiniteSet(D), NEW f \in [D -> Nat]
  PROVE  Total(f) = 0 <=> \A d \in D : f[d] = 0
  <1>1. ASSUME \A d \in D : f[d] = 0 PROVE Total(f) = 0
    <2>1. PICK it : Sums(it, f, SUBSET D) /\ Total(f) = it[D]
      BY TotalIs
    <2> DEFINE n == Cardinality(D)
               P == {k \in 0 .. n : \A s \in Small(D, k) : it[s] = 0}
    <2>2. n \in Nat
      BY FS_CardinalityType
    <2>3. 0 \in P
      <3>1. \A s \in SUBSET D : Cardinality(s) = 0 <=> s = {}
        BY WithoutOne
      <3>2. \A s \in Small(D, 0) : s = {}
        BY <3>1, SmallSubset
      <3>3. it[{}] = 0
        BY <2>1 DEF Sums
      <3>4. \A s \in Small(D, 0) : it[s] = 0
        BY <3>2, <3>3
      <3> QED BY <3>4, <2>2
    <2>4. ASSUME NEW k \in 1 .. n, k - 1 \in P PROVE k \in P
      <3>1. ASSUME NEW s \in Small(D, k), s # {} PROVE it[s] = 0
        <4>1. s \in SUBSET D /\ Cardinality(s) \in 0 .. k
          BY SmallSubset
        <4>2. /\ Some(s) \in s /\ s \ {Some(s)} \in SUBSET D
              /\ Cardinality(s \ {Some(s)}) = Cardinality(s) - 1 /\ Cardinality(s) # 0
          BY <4>1, <3>1, WithoutOne
        <4>3. Cardinality(s \ {Some(s)}) \in 0 .. k - 1
          BY <4>1, <4>2
        <4>4. it[s \ {Some(s)}] = 0
          BY <4>2, <4>3, <2>4, SmallSubset
        <4>5. it[s] = f[Some(s)] + it[s \ {Some(s)}]
          BY <4>1, <3>1, <2>1 DEF Sums
        <4>6. f[Some(s)] = 0
          BY <4>1, <4>2, <1>1
        <4> QED BY <4>4, <4>5, <4>6
      <3>2. it[{}] = 0
        BY <2>1 DEF Sums
      <3>3. \A s \in Small(D, k) : it[s] = 0
        BY <3>1, <3>2
      <3> QED BY <3>3
    <2>5. n \in P
      <3> HIDE DEF P
      <3>1. P \in SUBSET (0 .. n)
        BY DEF P
      <3>2. P = 0 .. n
        BY <3>1, <2>2, <2>3, <2>4, Induction
      <3> QED BY <3>2, <2>2
    <2>6. D \in Small(D, n)
      BY <2>2, SmallSubset
    <2> QED BY <2>1, <2>5, <2>6
  <1>2. ASSUME NEW d \in D, f[d] # 0 PROVE Total(f) # 0
    <2> DEFINE g == [f EXCEPT ![d] = @ - 1]
    <2>1. g \in [D -> Nat] /\ f[d] = g[d] + 1 /\ \A e \in D \ {d} : f[e] = g[e]
      BY <1>2
    <2> HIDE DEF g
    <2>2. Total(f) = Total(g) + 1 /\ Total(g) \in Nat
      BY <2>1, TotalChange, TotalType
    <2> QED BY <2>2
  <1> QED BY <1>1, <1>2

(***************************************************************************)
(* Nodes in at most k hops.                                                *)
(***************************************************************************)
Layers(r, t, n, k) ==
  /\ DOMAIN r = 0 .. k /\ r = [j \in 0 .. k |-> r[j]] /\ r[0] = {n}
  /\ \A j \in 1 .. k : r[j] = r[j - 1] \cup Neighbours(t, r[j - 1])

LEMMA ReachedIs ==
  ASSUME NEW t, t.nodes \in Nat, NEW n
  PROVE  /\ DOMAIN Reached(t, n) = 0 .. t.nodes
         /\ Reached(t, n)[0] = {n}
         /\ \A k \in 1 .. t.nodes :
              Reached(t, n)[k] = Reached(t, n)[k - 1] \cup Neighbours(t, Reached(t, n)[k - 1])
  <1> DEFINE P == {k \in 0 .. t.nodes : \E r : Layers(r, t, n, k)}
             F(r) == [k \in 0 .. t.nodes |->
                        IF k = 0 THEN {n} ELSE r[k - 1] \cup Neighbours(t, r[k - 1])]
  <1>1. 0 \in P
    <2> DEFINE r == [j \in 0 .. 0 |-> {n}]
    <2>1. Layers(r, t, n, 0)
      BY DEF Layers
    <2> HIDE DEF r
    <2> QED BY <2>1
  <1>2. ASSUME NEW k \in 1 .. t.nodes, k - 1 \in P PROVE k \in P
    <2>1. PICK a : Layers(a, t, n, k - 1)
      BY <1>2
    <2> DEFINE r == [j \in 0 .. k |-> IF j = k THEN a[k - 1] \cup Neighbours(t, a[k - 1]) ELSE a[j]]
    <2>2. DOMAIN r = 0 .. k /\ r = [j \in 0 .. k |-> r[j]] /\ r[0] = {n}
      <3>1. r[0] = a[0]
        OBVIOUS
      <3>2. a[0] = {n}
        BY <2>1 DEF Layers
      <3>3. DOMAIN r = 0 .. k /\ r = [j \in 0 .. k |-> r[j]]
        OBVIOUS
      <3> HIDE DEF r
      <3> QED BY <3>1, <3>2, <3>3
    <2>3. ASSUME NEW j \in 1 .. k PROVE r[j] = r[j - 1] \cup Neighbours(t, r[j - 1])
      <3>1. CASE j = k
        <4>1. r[j] = a[k - 1] \cup Neighbours(t, a[k - 1]) /\ r[j - 1] = a[k - 1]
          BY <3>1
        <4> HIDE DEF r
        <4> QED BY <4>1
      <3>2. CASE j # k
        <4>1. j \in 1 .. k - 1 /\ r[j] = a[j] /\ r[j - 1] = a[j - 1]
          BY <3>2
        <4>2. a[j] = a[j - 1] \cup Neighbours(t, a[j - 1])
          BY <2>1, <4>1 DEF Layers
        <4> HIDE DEF r
        <4> QED BY <4>1, <4>2
      <3> QED BY <3>1, <3>2
    <2> HIDE DEF r
    <2>4. Layers(r, t, n, k)
      BY <2>2, <2>3 DEF Layers
    <2> QED BY <2>4
  <1>3. t.nodes \in P
    <2> HIDE DEF P
    <2>1. P \in SUBSET (0 .. t.nodes)
      BY DEF P
    <2>2. P = 0 .. t.nodes
      BY <2>1, <1>1, <1>2, Induction
    <2> QED BY <2>2
  <1>4. PICK r : Layers(r, t, n, t.nodes)
    BY <1>3
  <1>5. r = F(r)
    <2>1. ASSUME NEW k \in 0 .. t.nodes
          PROVE  r[k] = IF k = 0 THEN {n} ELSE r[k - 1] \cup Neighbours(t, r[k - 1])
      <3>1. CASE k = 0
        BY <3>1, <1>4 DEF Layers
      <3>2. CASE k # 0
        <4>1. k \in 1 .. t.nodes
          BY <3>2
        <4> QED BY <4>1, <1>4 DEF Layers
      <3> QED BY <3>1, <3>2
    <2>2. r = [k \in 0 .. t.nodes |-> r[k]]
      BY <1>4 DEF Layers
    <2> QED BY <2>1, <2>2
  <1> DEFINE c == CHOOSE x : x = F(x)
  <1>6. c = F(c)
    BY <1>5
  <1>7. Reached(t, n) = c
    BY DEF Reached
  <1> HIDE DEF c
  <1>8. DOMAIN c = 0 .. t.nodes /\ c[0] = {n}
    BY <1>6
  <1>9. ASSUME NEW k \in 1 .. t.nodes PROVE c[k] = c[k - 1] \cup Neighbours(t, c[k - 1])
    <2>1. k \in 0 .. t.nodes /\ k # 0
      OBVIOUS
    <2> QED BY <2>1, <1>6
  <1> QED BY <1>7, <1>8, <1>9

(***************************************************************************)
(* Grids: the nodes have coordinates, and every channel makes one of them  *)
(* greater by one.                                                         *)
(***************************************************************************)
Gap(a, b) == IF b < a THEN a - b ELSE b - a
Gaps(p, q) == [dim \in DOMAIN p |-> Gap(p[dim], q[dim])]

\* The next coordinates in a dimension, and those before.
Plus(p, dim) == [p EXCEPT ![dim] = @ + 1]
Minus(p, dim) == [p EXCEPT ![dim] = @ - 1]

\* The nodes of topology t have the coordinates in `place'; `size' and `step' say how
\* many coordinates a dimension has, and how far the next node is.
Grid(t, size, step, place) ==
  LET node == TopologyNode(t)
      dims == DOMAIN size
  IN /\ t.nodes \in Nat /\ IsFiniteSet(dims) /\ -1 \notin dims
     /\ t.devices = Devices(t.channels, t.nodes) /\ t.peer = Peers(t.channels)
     /\ size \in [dims -> 1 .. 128] /\ \A dim \in dims : step[dim] \in Nat \ {0}
     /\ place \in [node -> [dims -> 0 .. 127]]
     /\ \A m, n \in node : place[m] = place[n] => m = n
     /\ \A n \in node, dim \in dims :
          /\ place[n][dim] < size[dim]
          /\ place[n][dim] < size[dim] - 1 =>
               /\ n + step[dim] \in node
               /\ place[n + step[dim]] = Plus(place[n], dim)
               /\ Channel(n, n + step[dim], dim, 1) \in t.channels
          /\ 0 < place[n][dim] =>
               /\ n - step[dim] \in node
               /\ place[n - step[dim]] = Minus(place[n], dim)
     /\ \A c \in t.channels : \E n \in node, dim \in dims :
          /\ c = Channel(n, n + step[dim], dim, 1)
          /\ \E e \in dims : step[e] = step[dim] /\ place[n][e] < size[e] - 1
     /\ \A m, n \in node :
          /\ GetDestinationRelativeDimensionalPosition(t, m, n) = LinePosition(place[m], place[n])
          /\ Coordinates(t, n) = place[n]

LEMMA GridTypes ==
  ASSUME NEW t, NEW size, NEW step, NEW place, Grid(t, size, step, place)
  PROVE  /\ TopologyNode(t) \subseteq Nat /\ IsFiniteSet(DOMAIN size)
         /\ \A n \in TopologyNode(t) :
              place[n] \in [DOMAIN size -> Nat] /\ place[n] \in [DOMAIN size -> 0 .. 127]
              /\ DOMAIN place[n] = DOMAIN size
         /\ \A m, n \in TopologyNode(t) :
              /\ Gaps(place[m], place[n]) \in [DOMAIN size -> Nat]
              /\ \A dim \in DOMAIN size : Gaps(place[m], place[n])[dim] = Gap(place[m][dim], place[n][dim])
  <1> USE DEF Grid
  <1>1. TopologyNode(t) \subseteq Nat /\ IsFiniteSet(DOMAIN size)
    BY DEF TopologyNode
  <1>2. ASSUME NEW n \in TopologyNode(t)
        PROVE  place[n] \in [DOMAIN size -> Nat] /\ place[n] \in [DOMAIN size -> 0 .. 127]
               /\ DOMAIN place[n] = DOMAIN size
    <2>1. place[n] \in [DOMAIN size -> 0 .. 127]
      OBVIOUS
    <2> HIDE DEF Grid
    <2> QED BY <2>1
  <1>3. ASSUME NEW m \in TopologyNode(t), NEW n \in TopologyNode(t)
        PROVE  /\ Gaps(place[m], place[n]) \in [DOMAIN size -> Nat]
               /\ \A dim \in DOMAIN size : Gaps(place[m], place[n])[dim] = Gap(place[m][dim], place[n][dim])
    <2>1. place[m] \in [DOMAIN size -> Nat] /\ place[n] \in [DOMAIN size -> Nat] /\ DOMAIN place[m] = DOMAIN size
      BY <1>2
    <2> HIDE DEF Grid
    <2>2. \A dim \in DOMAIN size : Gap(place[m][dim], place[n][dim]) \in Nat
      BY <2>1 DEF Gap
    <2> QED BY <2>1, <2>2 DEF Gaps
  <1> HIDE DEF Grid
  <1> QED BY <1>1, <1>2, <1>3

LEMMA GridSteps ==
  ASSUME NEW t, NEW size, NEW step, NEW place, Grid(t, size, step, place),
         NEW n \in TopologyNode(t), NEW dim \in DOMAIN size
  PROVE  /\ size[dim] \in 1 .. 128 /\ step[dim] \in Nat \ {0} /\ n \in Nat
         /\ place[n][dim] \in 0 .. 127 /\ place[n][dim] < size[dim]
         /\ place[n][dim] < size[dim] - 1 =>
              /\ n + step[dim] \in TopologyNode(t)
              /\ place[n + step[dim]] = Plus(place[n], dim)
              /\ Channel(n, n + step[dim], dim, 1) \in t.channels
         /\ 0 < place[n][dim] =>
              /\ n - step[dim] \in TopologyNode(t)
              /\ place[n - step[dim]] = Minus(place[n], dim)
  <1>1. size \in [DOMAIN size -> 1 .. 128] /\ \A e \in DOMAIN size : step[e] \in Nat \ {0}
    BY DEF Grid
  <1>2. size[dim] \in 1 .. 128 /\ step[dim] \in Nat \ {0}
    BY <1>1
  <1>3. place[n] \in [DOMAIN size -> 0 .. 127] /\ n \in Nat
    BY GridTypes
  <1>4. /\ place[n][dim] < size[dim]
        /\ place[n][dim] < size[dim] - 1 =>
              /\ n + step[dim] \in TopologyNode(t)
              /\ place[n + step[dim]] = Plus(place[n], dim)
              /\ Channel(n, n + step[dim], dim, 1) \in t.channels
        /\ 0 < place[n][dim] =>
              /\ n - step[dim] \in TopologyNode(t)
              /\ place[n - step[dim]] = Minus(place[n], dim)
    BY DEF Grid
  <1> QED BY <1>2, <1>3, <1>4

\* How far two nodes are apart.
Manhattan(place, m, n) == Total(Gaps(place[m], place[n]))

LEMMA ManhattanType ==
  ASSUME NEW t, NEW size, NEW step, NEW place, Grid(t, size, step, place),
         NEW m \in TopologyNode(t), NEW n \in TopologyNode(t)
  PROVE  Manhattan(place, m, n) \in Nat /\ (Manhattan(place, m, n) = 0 <=> m = n)
  <1> DEFINE f == Gaps(place[m], place[n])
  <1>1. /\ IsFiniteSet(DOMAIN size) /\ f \in [DOMAIN size -> Nat]
        /\ \A dim \in DOMAIN size : f[dim] = Gap(place[m][dim], place[n][dim])
        /\ place[m] \in [DOMAIN size -> Nat] /\ place[n] \in [DOMAIN size -> Nat]
    BY GridTypes
  <1>2. \A dim \in DOMAIN size : f[dim] = 0 <=> place[m][dim] = place[n][dim]
    BY <1>1 DEF Gap
  <1> HIDE DEF f
  <1>3. Total(f) \in Nat /\ (Total(f) = 0 <=> \A dim \in DOMAIN size : f[dim] = 0)
    BY <1>1, TotalType, TotalZero
  <1>4. (\A dim \in DOMAIN size : f[dim] = 0) <=> place[m] = place[n]
    BY <1>1, <1>2
  <1>5. place[m] = place[n] <=> m = n
    BY DEF Grid
  <1> QED BY <1>3, <1>4, <1>5 DEF f, Manhattan

\* A step in one dimension changes how far a node is away by one.
LEMMA ManhattanStep ==
  ASSUME NEW t, NEW size, NEW step, NEW place, Grid(t, size, step, place),
         NEW m \in TopologyNode(t), NEW n \in TopologyNode(t), NEW o \in TopologyNode(t),
         NEW dim \in DOMAIN size,
         place[o] = Plus(place[n], dim)
  PROVE  /\ place[m][dim] <= place[n][dim] => Manhattan(place, m, o) = Manhattan(place, m, n) + 1
         /\ place[n][dim] < place[m][dim] => Manhattan(place, m, n) = Manhattan(place, m, o) + 1
         /\ place[m][dim] <= place[n][dim] => Manhattan(place, o, m) = Manhattan(place, n, m) + 1
         /\ place[n][dim] < place[m][dim] => Manhattan(place, n, m) = Manhattan(place, o, m) + 1
  <1> DEFINE D == DOMAIN size
             f == Gaps(place[m], place[n])
             g == Gaps(place[m], place[o])
             u == Gaps(place[n], place[m])
             v == Gaps(place[o], place[m])
  <1>1. /\ IsFiniteSet(D)
        /\ f \in [D -> Nat] /\ g \in [D -> Nat] /\ u \in [D -> Nat] /\ v \in [D -> Nat]
        /\ \A e \in D : /\ f[e] = Gap(place[m][e], place[n][e]) /\ g[e] = Gap(place[m][e], place[o][e])
                        /\ u[e] = Gap(place[n][e], place[m][e]) /\ v[e] = Gap(place[o][e], place[m][e])
        /\ place[m] \in [D -> Nat] /\ place[n] \in [D -> Nat]
    BY GridTypes
  <1>2. \A e \in D \ {dim} : place[o][e] = place[n][e]
    BY <1>1 DEF Plus
  <1>3. place[o][dim] = place[n][dim] + 1 /\ place[m][dim] \in Nat /\ place[n][dim] \in Nat
    BY <1>1 DEF Plus
  <1>4. \A e \in D \ {dim} : f[e] = g[e] /\ u[e] = v[e]
    BY <1>1, <1>2
  <1>5. place[m][dim] <= place[n][dim] => g[dim] = f[dim] + 1 /\ v[dim] = u[dim] + 1
    BY <1>1, <1>3 DEF Gap
  <1>6. place[n][dim] < place[m][dim] => f[dim] = g[dim] + 1 /\ u[dim] = v[dim] + 1
    BY <1>1, <1>3 DEF Gap
  <1> HIDE DEF D, f, g, u, v
  <1>7. dim \in D
    BY DEF D
  <1>8. place[m][dim] <= place[n][dim] => Total(g) = Total(f) + 1 /\ Total(v) = Total(u) + 1
    BY <1>1, <1>4, <1>5, <1>7, TotalChange
  <1>9. place[n][dim] < place[m][dim] => Total(f) = Total(g) + 1 /\ Total(u) = Total(v) + 1
    BY <1>1, <1>4, <1>6, <1>7, TotalChange
  <1> QED BY <1>8, <1>9 DEF f, g, u, v, Manhattan

\* The nodes at the ends of a channel are one step apart.
LEMMA ChannelEnds ==
  ASSUME NEW t, NEW size, NEW step, NEW place, Grid(t, size, step, place), NEW c \in t.channels
  PROVE  /\ c.forward \in TopologyNode(t) /\ c.back \in TopologyNode(t)
         /\ \E e \in DOMAIN size : place[c.back] = Plus(place[c.forward], e)
  <1>1. PICK n \in TopologyNode(t), dim \in DOMAIN size :
          /\ c = Channel(n, n + step[dim], dim, 1)
          /\ \E e \in DOMAIN size : step[e] = step[dim] /\ place[n][e] < size[e] - 1
    BY DEF Grid
  <1>2. PICK e \in DOMAIN size : step[e] = step[dim] /\ place[n][e] < size[e] - 1
    BY <1>1
  <1>3. n + step[e] \in TopologyNode(t) /\ place[n + step[e]] = Plus(place[n], e)
    BY <1>2 DEF Grid
  <1>4. c.forward = n /\ c.back = n + step[e]
    BY <1>1, <1>2 DEF Channel
  <1> QED BY <1>3, <1>4

Linked(t, m, n) == \E c \in t.channels : {c.forward, c.back} = {m, n}

\* A node other than m has a neighbour that is nearer to m.
LEMMA StepCloser ==
  ASSUME NEW t, NEW size, NEW step, NEW place, Grid(t, size, step, place),
         NEW m \in TopologyNode(t), NEW n \in TopologyNode(t), m # n
  PROVE  \E o \in TopologyNode(t) :
           /\ Manhattan(place, m, n) = Manhattan(place, m, o) + 1
           /\ Linked(t, n, o)
  <1>1. /\ place[m] \in [DOMAIN size -> Nat] /\ place[n] \in [DOMAIN size -> Nat]
        /\ place[m] # place[n]
    <2>1. place[m] # place[n]
      BY DEF Grid
    <2> QED BY <2>1, GridTypes
  <1>2. PICK dim \in DOMAIN size : place[m][dim] # place[n][dim]
    BY <1>1
  <1>3. /\ place[m][dim] \in Nat /\ place[n][dim] \in Nat
        /\ place[m][dim] < size[dim] /\ place[n][dim] < size[dim] /\ size[dim] \in Nat
        /\ step[dim] \in Nat /\ n \in Nat
    <2>1. /\ size[dim] \in 1 .. 128 /\ step[dim] \in Nat \ {0} /\ n \in Nat
          /\ place[m][dim] < size[dim] /\ place[n][dim] < size[dim]
      BY GridSteps
    <2> QED BY <2>1, <1>1
  <1>4. CASE place[m][dim] < place[n][dim]
    <2> DEFINE o == n - step[dim]
    <2>1. o \in TopologyNode(t) /\ place[o] = Minus(place[n], dim)
      BY <1>3, <1>4, GridSteps
    <2>2. o + step[dim] = n
      BY <1>3
    <2>3. place[o][dim] = place[n][dim] - 1
      BY <2>1, <1>1 DEF Minus
    <2>4. place[n] = Plus(place[o], dim)
      BY <2>1, <1>1, <1>3 DEF Plus, Minus
    <2>5. place[o][dim] < size[dim] - 1 /\ place[m][dim] <= place[o][dim]
      BY <2>3, <1>3, <1>4
    <2> HIDE DEF o
    <2>6. Channel(o, o + step[dim], dim, 1) \in t.channels
      BY <2>1, <2>5 DEF Grid
    <2>7. Manhattan(place, m, n) = Manhattan(place, m, o) + 1
      <3>1. ASSUME NEW x \in TopologyNode(t), place[n] = Plus(place[x], dim)
            PROVE  place[m][dim] <= place[x][dim] => Manhattan(place, m, n) = Manhattan(place, m, x) + 1
        BY <3>1, ManhattanStep
      <3> QED BY <3>1, <2>1, <2>4, <2>5
    <2> QED BY <2>1, <2>2, <2>6, <2>7 DEF Channel, Linked
  <1>5. CASE place[n][dim] < place[m][dim]
    <2> DEFINE o == n + step[dim]
    <2>1. place[n][dim] < size[dim] - 1
      BY <1>3, <1>5
    <2>2. /\ o \in TopologyNode(t) /\ place[o] = Plus(place[n], dim)
          /\ Channel(n, o, dim, 1) \in t.channels
      BY <2>1, GridSteps
    <2> HIDE DEF o
    <2>3. Manhattan(place, m, n) = Manhattan(place, m, o) + 1
      BY <2>2, <1>5, ManhattanStep
    <2> QED BY <2>2, <2>3 DEF Channel, Linked
  <1> QED BY <1>2, <1>3, <1>4, <1>5

Ball(t, place, m, k) == {n \in TopologyNode(t) : Manhattan(place, m, n) <= k}

LEMMA BallGrows ==
  ASSUME NEW t, NEW size, NEW step, NEW place, Grid(t, size, step, place),
         NEW m \in TopologyNode(t), NEW k \in Nat \ {0}
  PROVE  Ball(t, place, m, k) = Ball(t, place, m, k - 1) \cup Neighbours(t, Ball(t, place, m, k - 1))
  <1> DEFINE near == Ball(t, place, m, k - 1)
  <1>1. ASSUME NEW n \in Ball(t, place, m, k), n \notin near PROVE n \in Neighbours(t, near)
    <2>1. n \in TopologyNode(t) /\ Manhattan(place, m, n) <= k /\ ~(Manhattan(place, m, n) <= k - 1)
      BY <1>1 DEF Ball
    <2>2. Manhattan(place, m, n) \in Nat /\ (Manhattan(place, m, n) = 0 <=> m = n)
      BY <2>1, ManhattanType
    <2>3. m # n
      BY <2>1, <2>2
    <2>4. PICK o \in TopologyNode(t) :
            /\ Manhattan(place, m, n) = Manhattan(place, m, o) + 1
            /\ Linked(t, n, o)
      BY <2>1, <2>3, StepCloser
    <2>5. Manhattan(place, m, o) \in Nat
      BY ManhattanType
    <2>6. o \in near
      BY <2>1, <2>2, <2>4, <2>5 DEF Ball
    <2> HIDE DEF near
    <2> QED BY <2>4, <2>6 DEF Neighbours, Linked
  <1>2. ASSUME NEW n \in Neighbours(t, near) PROVE n \in Ball(t, place, m, k)
    <2>1. PICK c \in t.channels, o \in near : o \in {c.forward, c.back} /\ n \in {c.forward, c.back}
      BY DEF Neighbours
    <2>2. o \in TopologyNode(t) /\ Manhattan(place, m, o) <= k - 1
      BY DEF Ball
    <2>3. c.forward \in TopologyNode(t) /\ c.back \in TopologyNode(t)
      BY ChannelEnds
    <2>4. PICK e \in DOMAIN size : place[c.back] = Plus(place[c.forward], e)
      BY ChannelEnds
    <2>5. place[m][e] \in Nat /\ place[c.forward][e] \in Nat
      BY <2>3, GridTypes
    <2>6. Manhattan(place, m, c.forward) \in Nat /\ Manhattan(place, m, c.back) \in Nat
      BY <2>3, ManhattanType
    <2>7. \/ Manhattan(place, m, c.back) = Manhattan(place, m, c.forward) + 1
          \/ Manhattan(place, m, c.forward) = Manhattan(place, m, c.back) + 1
      BY <2>3, <2>4, <2>5, ManhattanStep
    <2>8. Manhattan(place, m, n) <= k /\ n \in TopologyNode(t)
      BY <2>1, <2>2, <2>3, <2>6, <2>7
    <2> QED BY <2>8 DEF Ball
  <1>3. ASSUME NEW n \in near PROVE n \in Ball(t, place, m, k)
    <2>1. n \in TopologyNode(t) /\ Manhattan(place, m, n) <= k - 1
      BY DEF Ball
    <2>2. Manhattan(place, m, n) \in Nat
      BY <2>1, ManhattanType
    <2> QED BY <2>1, <2>2 DEF Ball
  <1> HIDE DEF near
  <1>4. Ball(t, place, m, k) = near \cup Neighbours(t, near)
    BY <1>1, <1>2, <1>3
  <1> QED BY <1>4 DEF near

LEMMA ReachedIsBall ==
  ASSUME NEW t, NEW size, NEW step, NEW place, Grid(t, size, step, place),
         NEW m \in TopologyNode(t)
  PROVE  \A k \in 0 .. t.nodes : Reached(t, m)[k] = Ball(t, place, m, k)
  <1> DEFINE P == {k \in 0 .. t.nodes : Reached(t, m)[k] = Ball(t, place, m, k)}
  <1>0. t.nodes \in Nat
    BY DEF Grid
  <1>1. 0 \in P
    <2>1. \A n \in TopologyNode(t) : Manhattan(place, m, n) <= 0 <=> m = n
      <3>1. ASSUME NEW n \in TopologyNode(t) PROVE Manhattan(place, m, n) <= 0 <=> m = n
        <4>1. Manhattan(place, m, n) \in Nat /\ (Manhattan(place, m, n) = 0 <=> m = n)
          BY ManhattanType
        <4> QED BY <4>1
      <3> QED BY <3>1
    <2>2. Ball(t, place, m, 0) = {m}
      BY <2>1 DEF Ball
    <2>3. Reached(t, m)[0] = {m}
      BY <1>0, ReachedIs
    <2> QED BY <2>2, <2>3, <1>0
  <1>2. ASSUME NEW k \in 1 .. t.nodes, k - 1 \in P PROVE k \in P
    <2>1. Reached(t, m)[k] = Reached(t, m)[k - 1] \cup Neighbours(t, Reached(t, m)[k - 1])
      BY <1>0, ReachedIs
    <2>2. Reached(t, m)[k - 1] = Ball(t, place, m, k - 1)
      BY <1>2
    <2>3. k \in Nat \ {0}
      BY <1>0
    <2>4. Ball(t, place, m, k) = Ball(t, place, m, k - 1) \cup Neighbours(t, Ball(t, place, m, k - 1))
      BY <2>3, BallGrows
    <2>5. Reached(t, m)[k] = Ball(t, place, m, k)
      BY <2>1, <2>2, <2>4
    <2> QED BY <2>5
  <1>3. P = 0 .. t.nodes
    <2> HIDE DEF P
    <2>1. P \in SUBSET (0 .. t.nodes)
      BY DEF P
    <2> QED BY <2>1, <1>0, <1>1, <1>2, Induction
  <1> QED BY <1>3

\* No two nodes are farther apart than there are nodes.
LEMMA ManhattanBound ==
  ASSUME NEW t, NEW size, NEW step, NEW place, Grid(t, size, step, place),
         NEW m \in TopologyNode(t), NEW n \in TopologyNode(t)
  PROVE  Manhattan(place, m, n) \in 0 .. t.nodes
  <1> DEFINE l == Manhattan(place, m, n)
             P == {k \in 0 .. l : \E o \in TopologyNode(t) : Manhattan(place, m, o) = l - k}
             Q == {k \in 0 .. l : k + 1 <= Cardinality(Ball(t, place, m, k))}
  <1>0. l \in Nat /\ t.nodes \in Nat /\ IsFiniteSet(TopologyNode(t)) /\ Cardinality(TopologyNode(t)) = t.nodes
    <2>0. t.nodes \in Nat
      BY DEF Grid
    <2>1. l \in Nat /\ t.nodes \in Nat
      BY <2>0, ManhattanType
    <2>2. IsFiniteSet(0 .. t.nodes - 1) /\ Cardinality(0 .. t.nodes - 1) = t.nodes
      <3>1. t.nodes - 1 \in Int /\ 0 \in Int
        BY <2>1
      <3>2. IsFiniteSet(0 .. t.nodes - 1)
            /\ Cardinality(0 .. t.nodes - 1) = IF 0 > t.nodes - 1 THEN 0 ELSE t.nodes - 1 - 0 + 1
        BY <3>1, FS_Interval
      <3> QED BY <3>2, <2>1
    <2> QED BY <2>1, <2>2 DEF TopologyNode
  <1>1. ASSUME NEW k \in Nat
        PROVE  IsFiniteSet(Ball(t, place, m, k)) /\ Cardinality(Ball(t, place, m, k)) \in Nat
               /\ Cardinality(Ball(t, place, m, k)) <= t.nodes
    <2>1. Ball(t, place, m, k) \in SUBSET TopologyNode(t)
      BY DEF Ball
    <2>2. IsFiniteSet(Ball(t, place, m, k)) /\ Cardinality(Ball(t, place, m, k)) <= t.nodes
      BY <1>0, <2>1, FS_Subset
    <2> QED BY <2>2, FS_CardinalityType
  <1>2. P = 0 .. l
    <2>1. 0 \in P
      BY <1>0
    <2>2. ASSUME NEW k \in 1 .. l, k - 1 \in P PROVE k \in P
      <3>1. PICK o \in TopologyNode(t) : Manhattan(place, m, o) = l - (k - 1)
        BY <2>2
      <3>2. m # o
        BY <1>0, <3>1, ManhattanType
      <3>3. PICK x \in TopologyNode(t) : Manhattan(place, m, o) = Manhattan(place, m, x) + 1
        BY <3>2, StepCloser
      <3>4. Manhattan(place, m, x) \in Nat
        BY ManhattanType
      <3> HIDE DEF l
      <3>5. Manhattan(place, m, x) = l - k
        BY <1>0, <3>1, <3>3, <3>4
      <3> QED BY <3>5, <1>0
    <2> HIDE DEF P
    <2>3. P \in SUBSET (0 .. l)
      BY DEF P
    <2> QED BY <2>1, <2>2, <2>3, <1>0, Induction
  <1>3. Q = 0 .. l
    <2>1. 0 \in Q
      <3>1. m \in Ball(t, place, m, 0)
        BY ManhattanType DEF Ball
      <3>2. Cardinality(Ball(t, place, m, 0)) # 0
        BY <3>1, <1>1, FS_EmptySet
      <3> QED BY <3>2, <1>0, <1>1
    <2>2. ASSUME NEW k \in 1 .. l, k - 1 \in Q PROVE k \in Q
      <3> DEFINE small == Ball(t, place, m, k - 1)
                 big == Ball(t, place, m, k)
      <3>1. PICK o \in TopologyNode(t) : Manhattan(place, m, o) = k
        <4>1. l - k \in P
          BY <1>2, <1>0
        <4>2. l - (l - k) = k
          BY <1>0
        <4> QED BY <4>1, <4>2
      <3>2. o \notin small
        BY <3>1, <1>0 DEF Ball
      <3>3. small \cup {o} \in SUBSET big
        <4>1. ASSUME NEW x \in small PROVE x \in big
          <5>1. x \in TopologyNode(t) /\ Manhattan(place, m, x) <= k - 1
            BY DEF Ball
          <5>2. Manhattan(place, m, x) \in Nat
            BY <5>1, ManhattanType
          <5> QED BY <5>1, <5>2, <1>0 DEF Ball
        <4>2. o \in big
          BY <3>1, <1>0 DEF Ball
        <4> QED BY <4>1, <4>2
      <3>4. k - 1 \in Nat /\ k \in Nat /\ k - 1 + 1 <= Cardinality(small)
        BY <2>2, <1>0
      <3>5. IsFiniteSet(small) /\ Cardinality(small) \in Nat /\ IsFiniteSet(big) /\ Cardinality(big) \in Nat
        BY <3>4, <1>1
      <3> HIDE DEF small, big
      <3>6. IsFiniteSet(small \cup {o}) /\ Cardinality(small \cup {o}) = Cardinality(small) + 1
        BY <3>2, <3>5, FS_AddElement
      <3>7. Cardinality(small \cup {o}) <= Cardinality(big)
        BY <3>3, <3>5, FS_Subset
      <3>8. k + 1 <= Cardinality(big)
        BY <3>4, <3>5, <3>6, <3>7
      <3> QED BY <3>8 DEF big
    <2> HIDE DEF Q
    <2>3. Q \in SUBSET (0 .. l)
      BY DEF Q
    <2> QED BY <2>1, <2>2, <2>3, <1>0, Induction
  <1>4. l + 1 <= Cardinality(Ball(t, place, m, l))
    BY <1>3, <1>0
  <1> QED BY <1>0, <1>1, <1>4

\* Breadth first search finds how far the nodes of a grid are apart.
LEMMA HopsAreManhattan ==
  ASSUME NEW size, NEW step, NEW place, Grid(Topology, size, step, place),
         NEW m \in TopologyNode(Topology), NEW n \in TopologyNode(Topology)
  PROVE  HopsBetween(m, n) = Manhattan(place, m, n)
  <1> DEFINE r == Reached(Topology, m)
             l == Manhattan(place, m, n)
             Is(k) == n \in r[k] /\ \A j \in 0 .. k - 1 : n \notin r[j]
  <1>1. Topology.nodes \in Nat
    BY DEF Grid
  <1>2. DOMAIN r = 0 .. Topology.nodes
    BY <1>1, ReachedIs
  <1>3. l \in 0 .. Topology.nodes
    BY ManhattanBound
  <1>4. \A k \in 0 .. Topology.nodes : n \in r[k] <=> l <= k
    BY ReachedIsBall DEF Ball
  <1> HIDE DEF r, l
  <1>5. Is(l)
    BY <1>1, <1>3, <1>4
  <1>6. ASSUME NEW k \in 0 .. Topology.nodes, Is(k) PROVE k = l
    <2>1. l <= k
      BY <1>4, <1>6
    <2>2. ~(l \in 0 .. k - 1)
      BY <1>3, <1>4, <1>6
    <2> QED BY <2>1, <2>2, <1>1, <1>3
  <1>7. (CHOOSE k \in DOMAIN r : Is(k)) = l
    BY <1>2, <1>3, <1>5, <1>6
  <1> QED BY <1>7 DEF HopsBetween, r, l

(***************************************************************************)
(* The devices of a grid.                                                  *)
(***************************************************************************)
\* A channel is known by each of its devices.
LEMMA GridPeers ==
  ASSUME NEW t, NEW size, NEW step, NEW place, Grid(t, size, step, place), NEW c \in t.channels
  PROVE  /\ c = Channel(c.forward, c.forward + step[c.dim], c.dim, 1)
         /\ c.forward \in TopologyNode(t) /\ c.back \in TopologyNode(t) /\ c.dim \in DOMAIN size
         /\ ForwardDevice(c) \in NetDevices(t) /\ BackDevice(c) \in NetDevices(t)
         /\ t.peer[ForwardDevice(c)] = BackDevice(c)
         /\ t.peer[BackDevice(c)] = ForwardDevice(c)
  <1>1. ASSUME NEW e \in t.channels
        PROVE  /\ e = Channel(e.forward, e.forward + step[e.dim], e.dim, 1)
               /\ e.forward \in Nat /\ e.dim \in DOMAIN size /\ step[e.dim] \in Nat
               /\ e.back = e.forward + step[e.dim]
               /\ e.forward \in TopologyNode(t) /\ e.back \in TopologyNode(t)
    <2>1. PICK n \in TopologyNode(t), dim \in DOMAIN size : e = Channel(n, n + step[dim], dim, 1)
      BY DEF Grid
    <2>2. n \in Nat /\ step[dim] \in Nat
      BY GridSteps
    <2>3. e.forward \in TopologyNode(t) /\ e.back \in TopologyNode(t)
      BY ChannelEnds
    <2> QED BY <2>1, <2>2, <2>3 DEF Channel
  <1>2. ASSUME NEW e \in t.channels
        PROVE  /\ ForwardDevice(e) = <<e.forward, "FORWARD", e.dim, 1>>
               /\ BackDevice(e) = <<e.back, "BACK", e.dim, 1>>
    <2>1. e.number = 1
      BY <1>1 DEF Channel
    <2> QED BY <2>1 DEF ForwardDevice, BackDevice
  <1>3. ASSUME NEW e \in t.channels, ForwardDevice(c) = ForwardDevice(e) \/ BackDevice(c) = BackDevice(e)
        PROVE  c = e
    <2>1. c.dim = e.dim /\ (c.forward = e.forward \/ c.back = e.back)
      BY <1>2, <1>3
    <2>2. c.forward = e.forward
      BY <1>1, <2>1
    <2> QED BY <1>1, <2>1, <2>2
  <1>4. /\ ForwardDevice(c) \in NetDevicesOf(t.channels) /\ BackDevice(c) \in NetDevicesOf(t.channels)
        /\ ForwardDevice(c)[2] = "FORWARD" /\ BackDevice(c)[2] = "BACK"
    BY <1>2 DEF NetDevicesOf
  <1>5. t.peer = Peers(t.channels)
    BY DEF Grid
  <1>6. NetDevices(t) = NetDevicesOf(t.channels)
    BY <1>5 DEF NetDevices, Peers
  <1>7. (CHOOSE e \in t.channels : ForwardDevice(c) = ForwardDevice(e)) = c
    BY <1>3
  <1>8. (CHOOSE e \in t.channels : BackDevice(c) = BackDevice(e)) = c
    BY <1>3
  <1>9. t.peer[ForwardDevice(c)] = BackDevice(c)
    BY <1>4, <1>5, <1>7 DEF Peers
  <1>10. t.peer[BackDevice(c)] = ForwardDevice(c)
    BY <1>4, <1>5, <1>8 DEF Peers
  <1> QED BY <1>1, <1>4, <1>6, <1>9, <1>10

\* The devices at the ends of the channel from a node to the next in a dimension.
LEMMA GridChannel ==
  ASSUME NEW t, NEW size, NEW step, NEW place, Grid(t, size, step, place),
         NEW n \in TopologyNode(t), NEW dim \in DOMAIN size, place[n][dim] < size[dim] - 1
  PROVE  /\ <<n, "FORWARD", dim, 1>> \in NetDevices(t)
         /\ <<n + step[dim], "BACK", dim, 1>> \in NetDevices(t)
         /\ t.peer[<<n, "FORWARD", dim, 1>>] = <<n + step[dim], "BACK", dim, 1>>
         /\ t.peer[<<n + step[dim], "BACK", dim, 1>>] = <<n, "FORWARD", dim, 1>>
  <1> DEFINE c == Channel(n, n + step[dim], dim, 1)
  <1>1. c \in t.channels
    BY GridSteps
  <1>2. ForwardDevice(c) = <<n, "FORWARD", dim, 1>> /\ BackDevice(c) = <<n + step[dim], "BACK", dim, 1>>
    BY DEF Channel, ForwardDevice, BackDevice
  <1> HIDE DEF c
  <1> QED BY <1>1, <1>2, GridPeers

\* What the four way router finds: the device of a direction of a dimension, if there is one.
LEMMA GridRouter ==
  ASSUME NEW n, NEW size, NEW step, NEW place, Grid(n.topology, size, step, place),
         NEW m \in TopologyNode(n.topology), NEW direction, NEW dim,
         <<m, direction, dim, 1>> \in NetDevices(n.topology)
  PROVE  FourWayGetNetDevice(n, m, direction, dim) = {<<m, direction, dim, 1>>}
  <1> DEFINE t == n.topology
             d == <<m, direction, dim, 1>>
  <1>1. ASSUME NEW e \in NetDevices(t) PROVE \E x, y, z : e = <<x, y, z, 1>>
    <2>1. NetDevices(t) = NetDevicesOf(t.channels)
      BY DEF Grid, NetDevices, Peers
    <2>2. PICK c \in t.channels : e = ForwardDevice(c) \/ e = BackDevice(c)
      BY <2>1 DEF NetDevicesOf
    <2>3. c.number = 1
      BY GridPeers DEF Channel
    <2> QED BY <2>2, <2>3 DEF ForwardDevice, BackDevice
  <1>2. NodeDevices(n, m) = {e \in NetDevices(t) : e[1] = m}
    <2>1. t.devices = Devices(t.channels, t.nodes) /\ NetDevices(t) = NetDevicesOf(t.channels)
      BY DEF Grid, NetDevices, Peers
    <2> QED BY <2>1 DEF NodeDevices, Devices, TopologyNode
  <1> HIDE DEF t
  <1>3. Towards(NodeDevices(n, m), direction, dim) = {d}
    <2>1. d \in NetDevices(t)
      BY DEF t
    <2>2. ASSUME NEW e \in NetDevices(t), e[1] = m, e[2] = direction, e[3] = dim PROVE e = d
      BY <1>1, <2>2
    <2> QED BY <1>2, <2>1, <2>2 DEF Towards
  <1>4. FirstOf({d}) = {d}
    BY DEF FirstOf
  <1> QED BY <1>3, <1>4 DEF FourWayGetNetDevice

(***************************************************************************)
(* Headers.                                                                *)
(***************************************************************************)
HeaderOn(h, dims) == h \in [distance : [dims -> Byte], source : [dims -> Byte]]

\* The header says how to come from p to q; an offset that was used up may have kept its
\* direction.
Points(h, p, q) ==
  \A dim \in DOMAIN p :
    /\ q[dim] < p[dim] => h.distance[dim] = 128 + (p[dim] - q[dim])
    /\ p[dim] < q[dim] => h.distance[dim] = q[dim] - p[dim]
    /\ p[dim] = q[dim] => h.distance[dim] \in {0, 128}

LEMMA HeaderOfHeadPoints ==
  ASSUME NEW t, NEW size, NEW step, NEW place, Grid(t, size, step, place),
         NEW m \in TopologyNode(t), NEW n \in TopologyNode(t)
  PROVE  /\ HeaderOn(HeaderOfHead(t, m, n), DOMAIN size)
         /\ Points(HeaderOfHead(t, m, n), place[m], place[n])
  <1> DEFINE h == HeaderOfHead(t, m, n)
             D == DOMAIN size
             p == place[m]
             q == place[n]
  <1>1. GetDestinationRelativeDimensionalPosition(t, m, n) = LinePosition(p, q) /\ Coordinates(t, m) = p
    BY DEF Grid
  <1>2. p \in [D -> 0 .. 127] /\ q \in [D -> 0 .. 127] /\ DOMAIN p = D
    BY GridTypes
  <1>3. h = [distance |-> LinePosition(p, q), source |-> p]
    BY <1>1 DEF HeaderOfHead
  <1> HIDE DEF h, p, q, D
  <1>4. \A dim \in D : p[dim] \in 0 .. 127 /\ q[dim] \in 0 .. 127
    BY <1>2
  <1>5. LinePosition(p, q) = [dim \in D |-> IF q[dim] < p[dim] THEN WithDirectionBit(p[dim] - q[dim])
                                            ELSE q[dim] - p[dim]]
    BY <1>2 DEF LinePosition
  <1>6. ASSUME NEW dim \in D
        PROVE  /\ LinePosition(p, q)[dim] \in Byte /\ p[dim] \in Byte
               /\ q[dim] < p[dim] => LinePosition(p, q)[dim] = 128 + (p[dim] - q[dim])
               /\ p[dim] < q[dim] => LinePosition(p, q)[dim] = q[dim] - p[dim]
               /\ p[dim] = q[dim] => LinePosition(p, q)[dim] \in {0, 128}
    <2> DEFINE x == p[dim]
               y == q[dim]
               l == LinePosition(p, q)[dim]
    <2>1. x \in 0 .. 127 /\ y \in 0 .. 127
      BY <1>4
    <2>2. l = IF y < x THEN WithDirectionBit(x - y) ELSE y - x
      BY <1>5
    <2> HIDE DEF x, y, l
    <2>3. y < x => WithDirectionBit(x - y) = 128 + (x - y)
      <3> SUFFICES ASSUME y < x PROVE WithDirectionBit(x - y) = 128 + (x - y)
        OBVIOUS
      <3>1. x - y \in 1 .. 127 /\ (x - y) % 128 = x - y
        BY <2>1
      <3> QED BY <3>1 DEF WithDirectionBit
    <2>4. /\ l \in 0 .. 255 /\ x \in 0 .. 255
          /\ y < x => l = 128 + (x - y)
          /\ x < y => l = y - x
          /\ x = y => l \in {0, 128}
      BY <2>1, <2>2, <2>3
    <2> QED BY <2>4 DEF x, y, l, Byte
  <1>8. HeaderOn(h, D)
    <2>1. LinePosition(p, q) \in [D -> Byte]
      BY <1>5, <1>6
    <2>2. p \in [D -> Byte]
      BY <1>2, <1>6
    <2> QED BY <1>3, <2>1, <2>2 DEF HeaderOn
  <1>9. Points(h, p, q)
    <2>1. ASSUME NEW dim \in D
          PROVE  /\ q[dim] < p[dim] => LinePosition(p, q)[dim] = 128 + (p[dim] - q[dim])
                 /\ p[dim] < q[dim] => LinePosition(p, q)[dim] = q[dim] - p[dim]
                 /\ p[dim] = q[dim] => LinePosition(p, q)[dim] \in {0, 128}
      BY <1>6
    <2>2. h.distance = LinePosition(p, q)
      BY <1>3
    <2> QED BY <1>2, <2>1, <2>2 DEF Points
  <1> QED BY <1>8, <1>9 DEF h, p, q, D

LEMMA OffsetPoints ==
  ASSUME NEW D, NEW p \in [D -> 0 .. 127], NEW q \in [D -> 0 .. 127], NEW h, Points(h, p, q), NEW dim \in D
  PROVE  /\ GetOffset(h, dim) = Gap(p[dim], q[dim])
         /\ GetOffset(h, dim) = 0 <=> p[dim] = q[dim]
         /\ p[dim] < q[dim] => HasForwardDirection(h, dim)
         /\ q[dim] < p[dim] => ~HasForwardDirection(h, dim)
  <1> DEFINE b == h.distance[dim]
             x == p[dim]
             y == q[dim]
  <1>1. x \in 0 .. 127 /\ y \in 0 .. 127
    OBVIOUS
  <1>2. /\ y < x => b = 128 + (x - y)
        /\ x < y => b = y - x
        /\ x = y => b \in {0, 128}
    BY DEF Points
  <1> HIDE DEF b, x, y
  <1>3. b % 128 = IF y < x THEN x - y ELSE y - x
    BY <1>1, <1>2
  <1>4. /\ y < x => b - (b % 128) = 128
        /\ x < y => b - (b % 128) # 128
    BY <1>1, <1>2, <1>3
  <1>5. b % 128 = 0 <=> x = y
    BY <1>1, <1>3
  <1> QED BY <1>3, <1>4, <1>5 DEF b, x, y, GetOffset, HasForwardDirection, DirectionBit, Gap

\* The offsets add up to the distance.
LEMMA OffsetSumIs ==
  ASSUME NEW D, NEW p \in [D -> 0 .. 127], NEW q \in [D -> 0 .. 127], NEW h,
         HeaderOn(h, D), Points(h, p, q)
  PROVE  OffsetSum(h) = Total(Gaps(p, q))
  <1>1. DOMAIN h.distance = D /\ DOMAIN p = D
    BY DEF HeaderOn
  <1>2. \A dim \in D : GetOffset(h, dim) = Gap(p[dim], q[dim])
    BY OffsetPoints
  <1>3. [dim \in DOMAIN h.distance |-> GetOffset(h, dim)] = Gaps(p, q)
    BY <1>1, <1>2 DEF Gaps
  <1> QED BY <1>3 DEF OffsetSum

\* The header after a hop: one less in this dimension, the direction is kept.
LEMMA OffsetUsedPoints ==
  ASSUME NEW D, NEW p \in [D -> 0 .. 127], NEW q \in [D -> 0 .. 127], NEW h,
         HeaderOn(h, D), Points(h, p, q), NEW dim \in D, p[dim] # q[dim],
         NEW r \in [D -> 0 .. 127], r = IF p[dim] < q[dim] THEN Plus(p, dim) ELSE Minus(p, dim)
  PROVE  /\ HeaderOn(OffsetUsed(h, dim), D) /\ Points(OffsetUsed(h, dim), r, q)
         /\ \A e \in D \ {dim} : GetOffset(OffsetUsed(h, dim), e) = GetOffset(h, e)
  <1> DEFINE b == h.distance[dim]
             x == p[dim]
             y == q[dim]
             z == r[dim]
             used == IF HasForwardDirection(h, dim) THEN ToByte(GetOffset(h, dim) - 1)
                     ELSE WithDirectionBit(ToByte(GetOffset(h, dim) - 1))
             h2 == OffsetUsed(h, dim)
  <1>1. h.distance \in [D -> Byte] /\ h.source \in [D -> Byte]
        /\ h = [distance |-> h.distance, source |-> h.source]
    BY DEF HeaderOn
  <1>2. h2 = [h EXCEPT !.distance[dim] = used]
    BY DEF OffsetUsed, SetOffset
  <1>3. x \in 0 .. 127 /\ y \in 0 .. 127 /\ x # y
    OBVIOUS
  <1>4. z = IF x < y THEN x + 1 ELSE x - 1
    BY DEF Plus, Minus
  <1>5. \A e \in D \ {dim} : r[e] = p[e]
    BY DEF Plus, Minus
  <1>6. GetOffset(h, dim) = IF y < x THEN x - y ELSE y - x
    BY OffsetPoints DEF Gap
  <1>7. (x < y => HasForwardDirection(h, dim)) /\ (y < x => ~HasForwardDirection(h, dim))
    BY OffsetPoints
  <1>8. used = IF x < y THEN y - z ELSE 128 + (z - y)
    <2>1. CASE x < y
      <3>1. used = ToByte(y - x - 1)
        BY <2>1, <1>3, <1>6, <1>7
      <3> HIDE DEF used, x, y, z
      <3> QED BY <3>1, <2>1, <1>3, <1>4 DEF ToByte
    <2>2. CASE y < x
      <3>1. used = WithDirectionBit(ToByte(x - y - 1))
        BY <2>2, <1>3, <1>6, <1>7
      <3> HIDE DEF used, x, y, z
      <3>2. ToByte(x - y - 1) = z - y /\ z - y \in 0 .. 127
        BY <2>2, <1>3, <1>4 DEF ToByte
      <3>3. ~(x < y)
        BY <2>2, <1>3
      <3> QED BY <3>1, <3>2, <3>3 DEF WithDirectionBit
    <2> QED BY <2>1, <2>2, <1>3
  <1>9. h2 = [distance |-> [h.distance EXCEPT ![dim] = used], source |-> h.source]
    BY <1>1, <1>2
  <1> HIDE DEF used, h2
  <1>10. /\ h2.distance = [h.distance EXCEPT ![dim] = used] /\ h2.source = h.source
         /\ h2.distance[dim] = used /\ \A e \in D \ {dim} : h2.distance[e] = h.distance[e]
    BY <1>1, <1>9
  <1> HIDE DEF x, y, z
  <1>11. used \in Byte
    BY <1>3, <1>4, <1>8 DEF Byte
  <1>12. HeaderOn(h2, D)
    BY <1>1, <1>9, <1>10, <1>11 DEF HeaderOn
  <1>13. /\ y < z => used = 128 + (z - y)
         /\ z < y => used = y - z
         /\ z = y => used \in {0, 128}
    BY <1>3, <1>4, <1>8
  <1>14. Points(h2, r, q)
    <2>1. ASSUME NEW e \in D, e # dim
          PROVE  /\ q[e] < r[e] => h2.distance[e] = 128 + (r[e] - q[e])
                 /\ r[e] < q[e] => h2.distance[e] = q[e] - r[e]
                 /\ r[e] = q[e] => h2.distance[e] \in {0, 128}
      BY <2>1, <1>5, <1>10 DEF Points
    <2>2. /\ q[dim] < r[dim] => h2.distance[dim] = 128 + (r[dim] - q[dim])
          /\ r[dim] < q[dim] => h2.distance[dim] = q[dim] - r[dim]
          /\ r[dim] = q[dim] => h2.distance[dim] \in {0, 128}
      BY <1>10, <1>13 DEF y, z
    <2>3. DOMAIN r = D
      OBVIOUS
    <2> QED BY <2>1, <2>2, <2>3 DEF Points
  <1>15. \A e \in D \ {dim} : GetOffset(h2, e) = GetOffset(h, e)
    BY <1>10 DEF GetOffset
  <1> QED BY <1>12, <1>14, <1>15 DEF h2

(***************************************************************************)
(* A hop of dimension order routing.                                       *)
(***************************************************************************)
\* A grid of four way routers whose protocol uses the dimensions in this order.
OrderedGrid(n, size, step, place, order) ==
  /\ Grid(n.topology, size, step, place)
  /\ n.router = "FourWayRouter"
  /\ IsOrder(order, DOMAIN size)
  /\ n.protocol \in {"DorRouting", "XyRouting", "XyzRouting"} /\ order = DimensionOrder(n)

\* The dimensions before this one are done with.
DoneBefore(order, h, dim) ==
  \A i, j \in 1 .. Len(order) : i < j /\ order[j] = dim => GetOffset(h, order[i]) = 0

\* They stay done with when only an offset that is left changes.
LEMMA StaysDone ==
  ASSUME NEW D, NEW order, IsOrder(order, D), NEW h, NEW used, NEW dim,
         DoneBefore(order, h, dim), GetOffset(h, dim) # 0,
         \A e \in D \ {dim} : GetOffset(used, e) = GetOffset(h, e)
  PROVE  DoneBefore(order, used, dim)
  <1> SUFFICES ASSUME NEW i \in 1 .. Len(order), NEW j \in 1 .. Len(order), i < j, order[j] = dim
               PROVE  GetOffset(used, order[i]) = 0
    BY DEF DoneBefore
  <1>1. GetOffset(h, order[i]) = 0
    BY DEF DoneBefore
  <1>2. order \in Seq(D)
    BY DEF IsOrder
  <1>3. order[i] \in D /\ order[i] # dim
    BY <1>1, <1>2
  <1> QED BY <1>1, <1>3

\* Before the flit has arrived there is a dimension to go on with.
LEMMA PreferredIs ==
  ASSUME NEW D, NEW order, IsOrder(order, D), NEW h, DOMAIN h.distance = D, ~HasArrived(h)
  PROVE  /\ PreferredDimension(order, h) \in D
         /\ GetOffset(h, PreferredDimension(order, h)) # 0
         /\ DoneBefore(order, h, PreferredDimension(order, h))
  <1> DEFINE I == 1 .. Len(order)
             T == {i \in I : GetOffset(h, order[i]) # 0}
             First(i) == GetOffset(h, order[i]) # 0 /\ \A j \in 1 .. i - 1 : GetOffset(h, order[j]) = 0
  <1>1. Len(order) \in Nat /\ DOMAIN order = I /\ \A i \in I : order[i] \in D
    BY DEF IsOrder
  <1>2. T # {} /\ T \in SUBSET Nat
    <2>1. PICK dim \in D : GetOffset(h, dim) # 0
      BY DEF HasArrived
    <2>2. PICK i \in I : order[i] = dim
      BY DEF IsOrder
    <2> QED BY <2>1, <2>2, <1>1
  <1>3. PICK i \in T : \A j \in T : i <= j
    BY <1>2, LeastOf
  <1>4. First(i) /\ i \in I
    BY <1>1, <1>3
  <1> DEFINE k == CHOOSE k \in DOMAIN order : First(k)
  <1>5. k \in I /\ First(k)
    BY <1>1, <1>4
  <1>6. PreferredDimension(order, h) = order[k]
    BY DEF PreferredDimension
  <1> HIDE DEF k
  <1>7. DoneBefore(order, h, order[k])
    <2> SUFFICES ASSUME NEW i1 \in I, NEW j1 \in I, i1 < j1, order[j1] = order[k]
                 PROVE  GetOffset(h, order[i1]) = 0
      BY DEF DoneBefore
    <2>1. j1 = k
      BY <1>5 DEF IsOrder
    <2> QED BY <2>1, <1>1, <1>5
  <1> QED BY <1>1, <1>5, <1>6, <1>7

\* What is known of the one route of a flit that has to go on in a dimension.
OneWay(n, found, m, t, direction, dim, h, o) ==
  /\ found = {[via |-> <<m, direction, dim, 1>>, to |-> <<t, Opposite(direction), dim, 1>>,
               header |-> h]}
  /\ n.topology.peer[<<m, direction, dim, 1>>] = <<o, Opposite(direction), dim, 1>>
  /\ <<o, Opposite(direction), dim, 1>> \in NetDevices(n.topology)

\* The next node has these coordinates.
OneWayTo(n, source, place, m, t, direction, dim, h, next) ==
  \E o \in TopologyNode(n.topology) :
    /\ OneWay(n, Routes(n, source, t, direction, dim, h), m, t, direction, dim, h, o)
    /\ place[o] = next

LEMMA RouteOnGrid ==
  ASSUME NEW n, NEW size, NEW step, NEW place, Grid(n.topology, size, step, place),
         n.router = "FourWayRouter",
         NEW m \in TopologyNode(n.topology), NEW t \in TopologyNode(n.topology),
         NEW dim \in DOMAIN size, NEW source, source[1] = m, NEW h
  PROVE  /\ place[m][dim] < place[t][dim] =>
              OneWayTo(n, source, place, m, t, "FORWARD", dim, h, Plus(place[m], dim))
         /\ place[t][dim] < place[m][dim] =>
              OneWayTo(n, source, place, m, t, "BACK", dim, h, Minus(place[m], dim))
  <1> DEFINE N == TopologyNode(n.topology)
             s == step[dim]
  <1>1. /\ m \in Nat /\ t \in Nat /\ s \in Nat /\ size[dim] \in Nat
        /\ place[m][dim] \in Nat /\ place[t][dim] \in Nat
        /\ place[m][dim] < size[dim] /\ place[t][dim] < size[dim]
    BY GridSteps
  <1>2. ASSUME NEW direction, <<m, direction, dim, 1>> \in NetDevices(n.topology),
               <<t, Opposite(direction), dim, 1>> \in NetDevices(n.topology)
        PROVE  Routes(n, source, t, direction, dim, h) =
                 {[via |-> <<m, direction, dim, 1>>, to |-> <<t, Opposite(direction), dim, 1>>,
                   header |-> h]}
    <2> DEFINE v == <<m, direction, dim, 1>>
               d == <<t, Opposite(direction), dim, 1>>
    <2>0. ASSUME NEW x \in TopologyNode(n.topology), NEW way,
                 <<x, way, dim, 1>> \in NetDevices(n.topology)
          PROVE  FourWayGetNetDevice(n, x, way, dim) = {<<x, way, dim, 1>>}
      BY <2>0, GridRouter
    <2>1. FourWayGetNetDevice(n, m, direction, dim) = {v}
      BY <1>2, <2>0
    <2>2. FourWayGetNetDevice(n, t, Opposite(direction), dim) = {d}
      BY <1>2, <2>0
    <2>3. GetOutputNetDevice(n, source[1], source, direction, dim) = {v}
      BY <2>1 DEF GetOutputNetDevice
    <2>4. GetInputNetDevice(n, t, v, Opposite(direction), dim) = {d}
      BY <2>2 DEF GetInputNetDevice
    <2> HIDE DEF v, d
    <2>5. Routes(n, source, t, direction, dim, h) = [via : {v}, to : {d}, header : {h}]
      BY <2>3, <2>4 DEF Routes
    <2>6. \A r : r \in [via : {v}, to : {d}, header : {h}] <=> r = [via |-> v, to |-> d, header |-> h]
      OBVIOUS
    <2>7. [via : {v}, to : {d}, header : {h}] = {[via |-> v, to |-> d, header |-> h]}
      BY <2>6
    <2> QED BY <2>5, <2>7 DEF v, d
  <1>3. CASE place[m][dim] < place[t][dim]
    <2>1. place[m][dim] < size[dim] - 1 /\ 0 < place[t][dim]
      BY <1>1, <1>3
    <2>2. m + s \in N /\ place[m + s] = Plus(place[m], dim)
      BY <2>1, GridSteps
    <2>3. t - s \in N /\ place[t - s] = Minus(place[t], dim)
      BY <2>1, GridSteps
    <2>4. place[t - s][dim] < size[dim] - 1
      <3>1. place[t] \in [DOMAIN size -> 0 .. 127]
        BY GridTypes
      <3>2. place[t - s][dim] = place[t][dim] - 1
        BY <2>3, <3>1 DEF Minus
      <3> QED BY <3>2, <1>1, <2>1
    <2>5. /\ <<m, "FORWARD", dim, 1>> \in NetDevices(n.topology)
          /\ <<m + s, "BACK", dim, 1>> \in NetDevices(n.topology)
          /\ n.topology.peer[<<m, "FORWARD", dim, 1>>] = <<m + s, "BACK", dim, 1>>
      BY <2>1, GridChannel
    <2>6. <<t, "BACK", dim, 1>> \in NetDevices(n.topology)
      <3>1. <<(t - s) + s, "BACK", dim, 1>> \in NetDevices(n.topology)
        BY <2>3, <2>4, GridChannel
      <3>2. (t - s) + s = t
        BY <1>1
      <3> QED BY <3>1, <3>2
    <2>7. Opposite("FORWARD") = "BACK"
      BY DEF Opposite
    <2>8. OneWay(n, Routes(n, source, t, "FORWARD", dim, h), m, t, "FORWARD", dim, h, m + s)
      BY <1>2, <2>5, <2>6, <2>7 DEF OneWay
    <2> QED BY <2>2, <2>8, <1>1, <1>3 DEF OneWayTo
  <1>4. CASE place[t][dim] < place[m][dim]
    <2>1. place[t][dim] < size[dim] - 1 /\ 0 < place[m][dim]
      BY <1>1, <1>4
    <2>2. m - s \in N /\ place[m - s] = Minus(place[m], dim)
      BY <2>1, GridSteps
    <2>4. place[m - s][dim] < size[dim] - 1
      <3>1. place[m] \in [DOMAIN size -> 0 .. 127]
        BY GridTypes
      <3>2. place[m - s][dim] = place[m][dim] - 1
        BY <2>2, <3>1 DEF Minus
      <3> QED BY <3>2, <1>1, <2>1
    <2>5. /\ <<m - s, "FORWARD", dim, 1>> \in NetDevices(n.topology)
          /\ <<m, "BACK", dim, 1>> \in NetDevices(n.topology)
          /\ n.topology.peer[<<m, "BACK", dim, 1>>] = <<m - s, "FORWARD", dim, 1>>
      <3>1. (m - s) + s = m
        BY <1>1
      <3>2. /\ <<m - s, "FORWARD", dim, 1>> \in NetDevices(n.topology)
            /\ <<(m - s) + s, "BACK", dim, 1>> \in NetDevices(n.topology)
            /\ n.topology.peer[<<(m - s) + s, "BACK", dim, 1>>] = <<m - s, "FORWARD", dim, 1>>
        BY <2>2, <2>4, GridChannel
      <3> QED BY <3>1, <3>2
    <2>6. <<t, "FORWARD", dim, 1>> \in NetDevices(n.topology)
      BY <2>1, GridChannel
    <2>7. Opposite("BACK") = "FORWARD"
      BY DEF Opposite
    <2>8. OneWay(n, Routes(n, source, t, "BACK", dim, h), m, t, "BACK", dim, h, m - s)
      BY <1>2, <2>5, <2>6, <2>7 DEF OneWay
    <2> QED BY <2>2, <2>8, <1>1, <1>4 DEF OneWayTo
  <1> QED BY <1>1, <1>3, <1>4

\* Node o is a step nearer to t in this direction of a dimension.
StepTo(place, m, t, dim, direction, o) ==
  IF direction = "FORWARD" THEN place[m][dim] < place[t][dim] /\ place[o] = Plus(place[m], dim)
                           ELSE place[t][dim] < place[m][dim] /\ place[o] = Minus(place[m], dim)

\* Device d has one route for header h to node t, which leads in this direction of a
\* dimension to node o, a hop nearer.
NextHop(n, d, place, order, t, h, dim, direction, o) ==
  /\ GetOffset(h, dim) # 0 /\ DoneBefore(order, h, dim)
  /\ OneWay(n, RouteOfProtocol(n, d, t, h), d[1], t, direction, dim, OffsetUsed(h, dim), o)
  /\ HeaderOn(OffsetUsed(h, dim), DOMAIN h.distance)
  /\ \A e \in DOMAIN h.distance \ {dim} : GetOffset(OffsetUsed(h, dim), e) = GetOffset(h, e)
  /\ Points(OffsetUsed(h, dim), place[o], place[t])
  /\ Manhattan(place, d[1], t) = Manhattan(place, o, t) + 1
  /\ StepTo(place, d[1], t, dim, direction, o)

\* There is such a hop.
Hops(n, d, place, order, t, h, dims) ==
  \E dim \in dims, direction \in {"FORWARD", "BACK"}, o \in TopologyNode(n.topology) :
    NextHop(n, d, place, order, t, h, dim, direction, o)

LEMMA HopOnGrid ==
  ASSUME NEW n, NEW d, NEW size, NEW step, NEW place, NEW order, OrderedGrid(n, size, step, place, order),
         d[1] \in TopologyNode(n.topology), NEW t \in TopologyNode(n.topology), d[1] # t,
         NEW h, HeaderOn(h, DOMAIN size), Points(h, place[d[1]], place[t])
  PROVE  Hops(n, d, place, order, t, h, DOMAIN size)
  <1> DEFINE D == DOMAIN size
             m == d[1]
             p == place[m]
             q == place[t]
             dim == PreferredDimension(order, h)
             h2 == OffsetUsed(h, dim)
  <1>1. Grid(n.topology, size, step, place)
        /\ n.router = "FourWayRouter" /\ IsOrder(order, D)
    BY DEF OrderedGrid
  <1>2. p \in [D -> 0 .. 127] /\ q \in [D -> 0 .. 127] /\ p # q
    <2>1. p \in [D -> 0 .. 127] /\ q \in [D -> 0 .. 127]
      BY <1>1, GridTypes
    <2>2. p # q
      BY <1>1 DEF Grid
    <2> QED BY <2>1, <2>2
  <1>3. DOMAIN h.distance = D
    BY DEF HeaderOn
  <1>4. ~HasArrived(h)
    <2>1. PICK e \in D : p[e] # q[e]
      BY <1>2
    <2> HIDE DEF p, q
    <2>2. GetOffset(h, e) # 0
      BY <1>2, <2>1, OffsetPoints DEF p, q
    <2> QED BY <1>3, <2>2 DEF HasArrived
  <1>5. dim \in D /\ GetOffset(h, dim) # 0 /\ DoneBefore(order, h, dim)
    BY <1>1, <1>3, <1>4, PreferredIs
  <1>6. RouteOfProtocol(n, d, t, h) =
          Routes(n, d, t, IF HasForwardDirection(h, dim) THEN "FORWARD" ELSE "BACK", dim, h2)
    <2>1. RouteOfProtocol(n, d, t, h) = DimensionOrderRoutes(n, order, d, t, h)
      BY DEF OrderedGrid, DimensionOrder, RouteOfProtocol, DorRequestNewRoute, XyRequestNewRoute, XyzRequestNewRoute
    <2> QED BY <2>1, <1>4 DEF DimensionOrderRoutes
  <1> HIDE DEF dim, p, q, D
  <1>7. p[dim] \in Nat /\ q[dim] \in Nat /\ p[dim] # q[dim]
        /\ (p[dim] < q[dim] => HasForwardDirection(h, dim))
        /\ (q[dim] < p[dim] => ~HasForwardDirection(h, dim))
    <2>1. Points(h, p, q)
      BY DEF p, q
    <2> QED BY <1>2, <1>5, <2>1, OffsetPoints
  <1>8. ASSUME NEW o \in TopologyNode(n.topology),
               place[o] = IF p[dim] < q[dim] THEN Plus(p, dim) ELSE Minus(p, dim)
        PROVE  /\ Points(h2, place[o], q) /\ HeaderOn(h2, D)
               /\ \A e \in D \ {dim} : GetOffset(h2, e) = GetOffset(h, e)
    <2>1. Points(h, p, q) /\ HeaderOn(h, D)
      BY DEF p, q, D
    <2>2. place[o] \in [D -> 0 .. 127]
      BY <1>1, GridTypes DEF D
    <2> QED BY <2>1, <2>2, <1>2, <1>5, <1>7, <1>8, OffsetUsedPoints
  <1>9. CASE p[dim] < q[dim]
    <2>1. PICK o \in TopologyNode(n.topology) :
            /\ OneWay(n, Routes(n, d, t, "FORWARD", dim, h2), m, t, "FORWARD", dim, h2, o)
            /\ place[o] = Plus(p, dim)
      <3>1. m \in TopologyNode(n.topology) /\ t \in TopologyNode(n.topology) /\ d[1] = m
        OBVIOUS
      <3>2. dim \in DOMAIN size /\ place[m][dim] < place[t][dim]
        BY <1>5, <1>9 DEF D, p, q
      <3> HIDE DEF h2, m
      <3>3. OneWayTo(n, d, place, m, t, "FORWARD", dim, h2, Plus(place[m], dim))
        BY <1>1, <3>1, <3>2, RouteOnGrid
      <3> QED BY <3>3 DEF OneWayTo, p
    <2>2. OneWay(n, RouteOfProtocol(n, d, t, h), m, t, "FORWARD", dim, h2, o)
      BY <1>6, <1>7, <1>9, <2>1
    <2>3. /\ Points(h2, place[o], q) /\ HeaderOn(h2, D)
          /\ \A e \in D \ {dim} : GetOffset(h2, e) = GetOffset(h, e)
      BY <1>8, <1>9, <2>1
    <2>4. Manhattan(place, m, t) = Manhattan(place, o, t) + 1
      <3>1. m \in TopologyNode(n.topology) /\ o \in TopologyNode(n.topology)
            /\ dim \in DOMAIN size /\ place[o] = Plus(place[m], dim) /\ place[m][dim] < place[t][dim]
        BY <2>1, <1>5, <1>9 DEF D, p, q
      <3> HIDE DEF m
      <3> QED BY <3>1, <1>1, ManhattanStep
    <2>5. NextHop(n, d, place, order, t, h, dim, "FORWARD", o)
      <3>1. StepTo(place, m, t, dim, "FORWARD", o)
        BY <2>1, <1>9 DEF StepTo, p, q
      <3> QED BY <3>1, <2>2, <2>3, <2>4, <1>3, <1>5 DEF NextHop, q
    <2> QED BY <2>1, <2>5, <1>5 DEF D, Hops
  <1>10. CASE q[dim] < p[dim]
    <2>1. PICK o \in TopologyNode(n.topology) :
            /\ OneWay(n, Routes(n, d, t, "BACK", dim, h2), m, t, "BACK", dim, h2, o)
            /\ place[o] = Minus(p, dim)
      <3>1. m \in TopologyNode(n.topology) /\ t \in TopologyNode(n.topology) /\ d[1] = m
        OBVIOUS
      <3>2. dim \in DOMAIN size /\ place[t][dim] < place[m][dim]
        BY <1>5, <1>10 DEF D, p, q
      <3> HIDE DEF h2, m
      <3>3. OneWayTo(n, d, place, m, t, "BACK", dim, h2, Minus(place[m], dim))
        BY <1>1, <3>1, <3>2, RouteOnGrid
      <3> QED BY <3>3 DEF OneWayTo, p
    <2>2. OneWay(n, RouteOfProtocol(n, d, t, h), m, t, "BACK", dim, h2, o)
      BY <1>6, <1>7, <1>10, <2>1
    <2>3. /\ Points(h2, place[o], q) /\ HeaderOn(h2, D)
          /\ \A e \in D \ {dim} : GetOffset(h2, e) = GetOffset(h, e)
      BY <1>7, <1>8, <1>10, <2>1
    <2>4. Manhattan(place, m, t) = Manhattan(place, o, t) + 1
      <3>1. m \in TopologyNode(n.topology) /\ o \in TopologyNode(n.topology) /\ dim \in DOMAIN size
        BY <2>1, <1>5 DEF D
      <3>2. place[m] = Plus(place[o], dim) /\ place[t][dim] <= place[o][dim]
        <4>1. place[o][dim] = p[dim] - 1 /\ DOMAIN p = D /\ p \in [D -> Nat]
          BY <2>1, <1>2, <1>5 DEF Minus
        <4>2. Plus(place[o], dim) = p
          <5>1. place[o] = [p EXCEPT ![dim] = @ - 1]
            BY <2>1 DEF Minus
          <5>2. DOMAIN place[o] = D /\ \A e \in D : place[o][e] = IF e = dim THEN p[e] - 1 ELSE p[e]
            BY <5>1, <4>1
          <5>3. \A e \in D : p[e] \in Nat
            BY <4>1
          <5>4. \A e \in D : Plus(place[o], dim)[e] = p[e]
            BY <5>2, <5>3 DEF Plus
          <5>5. Plus(place[o], dim) = [e \in D |-> Plus(place[o], dim)[e]]
            BY <5>2 DEF Plus
          <5>6. p = [e \in D |-> p[e]]
            BY <4>1
          <5> HIDE DEF Plus
          <5> QED BY <5>4, <5>5, <5>6
        <4> QED BY <4>1, <4>2, <1>7, <1>10 DEF p, q
      <3> HIDE DEF m
      <3> QED BY <3>1, <3>2, <1>1, ManhattanStep
    <2>5. NextHop(n, d, place, order, t, h, dim, "BACK", o)
      <3>1. StepTo(place, m, t, dim, "BACK", o)
        BY <2>1, <1>10 DEF StepTo, p, q
      <3> QED BY <3>1, <2>2, <2>3, <2>4, <1>3, <1>5 DEF NextHop, q
    <2> QED BY <2>1, <2>5, <1>5 DEF D, Hops
  <1> QED BY <1>7, <1>9, <1>10

(***************************************************************************)
(* The invariant.  What was walked and what is left make up the distance   *)
(* from the source to the destination, and the header tells what is left;  *)
(* dimensions before that of the device are done with.                     *)
(***************************************************************************)
OnWay(size, step, place, order) ==
  /\ OrderedGrid(noc, size, step, place, order) /\ order = noc.dimensionOrder
  /\ HeaderOn(header, DOMAIN size)
  /\ at[1] \in TopologyNode(Topology)
  /\ Points(header, place[at[1]], place[flow[2]])
  /\ hops + Manhattan(place, at[1], flow[2]) = Manhattan(place, flow[1], flow[2])
  /\ status = "received" <=> at[1] = flow[2]
  /\ DoneBefore(order, header, at[3])

WalkInv ==
  /\ noc \in Noc /\ flow \in noc.flows
  /\ at \in NetDevices(Topology) \cup InternalInputDevices(noc)
  /\ hops \in 0 .. MaxHops
  /\ status \in {"walking", "received"}
  /\ \E size, step, place, order : OnWay(size, step, place, order)

\* The network is a grid with dimension order routing.
OnOrderedGrid(n) == \E size, step, place, order : OrderedGrid(n, size, step, place, order)

LEMMA FlowEnds ==
  ASSUME noc \in Noc, flow \in noc.flows
  PROVE  /\ flow[1] \in TopologyNode(Topology) /\ flow[2] \in TopologyNode(Topology)
         /\ flow[1] # flow[2]
  BY NocAssumption DEF Topology

LEMMA WalkInvInit ==
  ASSUME OnOrderedGrid(noc), noc.dimensionOrder = DimensionOrder(noc), WalkInit
  PROVE  WalkInv
  <1> USE DEF WalkInit
  <1>1. PICK size, step, place, order : OrderedGrid(noc, size, step, place, order)
    BY DEF OnOrderedGrid
  <1>0. order = noc.dimensionOrder
    BY <1>1 DEF OrderedGrid
  <1>2. Grid(Topology, size, step, place) /\ noc.router = "FourWayRouter"
    BY <1>1 DEF OrderedGrid, Topology
  <1>3. flow[1] \in TopologyNode(Topology) /\ flow[2] \in TopologyNode(Topology) /\ flow[1] # flow[2]
    BY FlowEnds
  <1>4. at = InternalInputDevice(flow[1], FourWay)
    BY <1>2 DEF GetInjectionNetDevice
  <1>5. at[1] = flow[1] /\ at[3] = -1
    BY <1>4 DEF InternalInputDevice
  <1>6. at \in InternalInputDevices(noc)
    BY <1>2, <1>3, <1>4 DEF InternalInputDevices, Topology
  <1>7. HeaderOn(header, DOMAIN size) /\ Points(header, place[at[1]], place[flow[2]])
    BY <1>2, <1>3, <1>5, HeaderOfHeadPoints
  <1>8. hops + Manhattan(place, at[1], flow[2]) = Manhattan(place, flow[1], flow[2])
    BY <1>2, <1>3, <1>5, ManhattanType
  <1>9. DoneBefore(order, header, at[3])
    <2>1. \A j \in 1 .. Len(order) : order[j] # -1
      <3>1. order \in Seq(DOMAIN size) /\ -1 \notin DOMAIN size
        BY <1>1 DEF OrderedGrid, IsOrder, Grid
      <3> QED BY <3>1
    <2> QED BY <2>1, <1>5 DEF DoneBefore
  <1>10. OnWay(size, step, place, order)
    BY <1>0, <1>1, <1>3, <1>5, <1>7, <1>8, <1>9 DEF OnWay
  <1> QED BY <1>6, <1>10, MaxHopsAssumption DEF WalkInv

\* A step of a flit that has a way to go: it goes on, in the same dimension or a later one.
LEMMA HopStep ==
  ASSUME NEW size, NEW step, NEW place, NEW order, WalkInv, OnWay(size, step, place, order), Hop
  PROVE  /\ WalkInv' /\ OnWay(size, step, place, order)'
         /\ at'[3] \in DOMAIN size /\ DoneBefore(order, header, at'[3])
         /\ GetOffset(header, at'[3]) # 0
  <1> DEFINE t == flow[2]
             N == TopologyNode(Topology)
  <1>1. /\ OrderedGrid(noc, size, step, place, order) /\ Grid(Topology, size, step, place)
        /\ IsOrder(order, DOMAIN size)
    BY DEF OnWay, OrderedGrid, Topology
  <1>2. flow[1] \in N /\ t \in N /\ at[1] \in N /\ at[1] # t
    BY FlowEnds DEF WalkInv, OnWay, Hop
  <1>3. HeaderOn(header, DOMAIN size) /\ Points(header, place[at[1]], place[t])
    BY DEF OnWay
  <1>4. PICK dim \in DOMAIN size, direction \in {"FORWARD", "BACK"}, o \in N :
          NextHop(noc, at, place, order, t, header, dim, direction, o)
    <2>1. at[1] \in TopologyNode(noc.topology) /\ t \in TopologyNode(noc.topology) /\ N = TopologyNode(noc.topology)
      BY <1>2 DEF Topology
    <2> HIDE DEF t, N
    <2>2. Hops(noc, at, place, order, t, header, DOMAIN size)
      BY <2>1, <1>1, <1>2, <1>3, HopOnGrid
    <2> QED BY <2>1, <2>2 DEF Hops
  <1> DEFINE via == <<at[1], direction, dim, 1>>
             to == <<t, Opposite(direction), dim, 1>>
             h2 == OffsetUsed(header, dim)
  <1>5. RouteOfProtocol(noc, at, t, header) = {[via |-> via, to |-> to, header |-> h2]}
    BY <1>4 DEF NextHop, OneWay
  <1>6. /\ at' = Topology.peer[via] /\ header' = h2 /\ hops' = hops + 1 /\ hops < MaxHops
        /\ status' = IF at' = to THEN "received" ELSE "walking"
        /\ noc' = noc /\ flow' = flow
    <2> DEFINE route == [via |-> via, to |-> to, header |-> h2]
    <2>1. route.via = via /\ route.to = to /\ route.header = h2
      OBVIOUS
    <2> HIDE DEF route, via, to, h2
    <2>2. RouteOfProtocol(noc, at, flow[2], header) = {route} /\ {route} # {}
      BY <1>5 DEF route
    <2>3. /\ \E r \in {route} :
               /\ at' = Topology.peer[r.via]
               /\ header' = r.header
               /\ hops' = hops + 1
               /\ status' = IF at' = r.to THEN "received" ELSE "walking"
          /\ hops < MaxHops /\ noc' = noc /\ flow' = flow
      BY <2>2 DEF Hop
    <2> QED BY <2>1, <2>3
  <1>7. at' = <<o, Opposite(direction), dim, 1>> /\ at' \in NetDevices(Topology)
    BY <1>4, <1>6 DEF NextHop, OneWay, Topology
  <1>8. at'[1] = o /\ at'[3] = dim
    BY <1>7
  <1>9. GetOffset(header, dim) # 0 /\ DoneBefore(order, header, dim)
        /\ Points(h2, place[o], place[t]) /\ Manhattan(place, at[1], t) = Manhattan(place, o, t) + 1
    BY <1>4 DEF NextHop
  <1>10. /\ HeaderOn(h2, DOMAIN size)
         /\ \A e \in DOMAIN size \ {dim} : GetOffset(h2, e) = GetOffset(header, e)
    <2>1. DOMAIN header.distance = DOMAIN size
      BY <1>3 DEF HeaderOn
    <2> QED BY <2>1, <1>4 DEF NextHop
  <1>11. status' = "received" <=> o = t
    BY <1>6, <1>7
  <1>12. hops' + Manhattan(place, o, t) = Manhattan(place, flow[1], t)
    <2>1. hops + Manhattan(place, at[1], t) = Manhattan(place, flow[1], t) /\ hops \in Nat
      BY DEF OnWay, WalkInv
    <2>2. Manhattan(place, o, t) \in Nat
      BY <1>1, <1>2, ManhattanType
    <2> HIDE DEF t
    <2> QED BY <2>1, <2>2, <1>6, <1>9
  <1>13. DoneBefore(order, h2, dim)
    BY <1>1, <1>9, <1>10, StaysDone
  <1>14. OnWay(size, step, place, order)'
    BY <1>1, <1>6, <1>8, <1>9, <1>10, <1>11, <1>12, <1>13 DEF OnWay, Topology
  <1>15. WalkInv'
    <2>1. hops' \in 0 .. MaxHops
      BY <1>6, MaxHopsAssumption DEF WalkInv
    <2>2. /\ noc' \in Noc /\ flow' \in noc'.flows
          /\ at' \in NetDevices(Topology)' \cup InternalInputDevices(noc)'
          /\ status' \in {"walking", "received"}
      BY <1>6, <1>7 DEF WalkInv, Topology
    <2> QED BY <2>1, <2>2, <1>14 DEF WalkInv
  <1> QED BY <1>8, <1>9, <1>14, <1>15

LEMMA WalkInvNext == ASSUME WalkInv, [Hop]_walkVars PROVE WalkInv'
  <1>1. CASE Hop
    BY <1>1, HopStep DEF WalkInv
  <1>2. CASE UNCHANGED walkVars
    BY <1>2 DEF walkVars, WalkInv, OnWay, Topology
  <1> QED BY <1>1, <1>2

LEMMA Walks == WalkSpec /\ OnOrderedGrid(noc) /\ noc.dimensionOrder = DimensionOrder(noc) => []WalkInv
  <1>1. WalkInit /\ OnOrderedGrid(noc) /\ noc.dimensionOrder = DimensionOrder(noc) => WalkInv
    BY WalkInvInit
  <1>2. WalkInv /\ [Hop]_walkVars => WalkInv'
    BY WalkInvNext
  <1> QED BY <1>1, <1>2, PTL DEF WalkSpec

LEMMA WalkInvTypes == ASSUME WalkInv PROVE WalkTypeOK /\ RouteIsFound
  <1>1. PICK size, step, place, order : HeaderOn(header, DOMAIN size)
    BY DEF WalkInv, OnWay
  <1>2. DOMAIN header.distance = DOMAIN size
    BY <1>1 DEF HeaderOn
  <1>3. header \in [distance : [DOMAIN header.distance -> Byte], source : [DOMAIN header.distance -> Byte]]
    BY <1>1, <1>2 DEF HeaderOn
  <1>4. WalkTypeOK
    BY <1>3 DEF WalkInv, WalkTypeOK
  <1>5. RouteIsFound
    BY DEF WalkInv, RouteIsFound
  <1> QED BY <1>4, <1>5

LEMMA WalkInvDistances == ASSUME WalkInv PROVE HeaderTellsDistance /\ TakesShortestRoute
  <1>1. PICK size, step, place, order : OnWay(size, step, place, order)
    BY DEF WalkInv
  <1>2. Grid(Topology, size, step, place)
    BY <1>1 DEF OnWay, OrderedGrid, Topology
  <1>3. flow[1] \in TopologyNode(Topology) /\ flow[2] \in TopologyNode(Topology)
    BY FlowEnds DEF WalkInv
  <1>4. at[1] \in TopologyNode(Topology) /\ HeaderOn(header, DOMAIN size)
        /\ Points(header, place[at[1]], place[flow[2]])
    BY <1>1 DEF OnWay
  <1> DEFINE m == at[1]
             s == flow[1]
             t == flow[2]
  <1>5. OffsetSum(header) = Manhattan(place, m, t)
    <2>1. place[m] \in [DOMAIN size -> 0 .. 127] /\ place[t] \in [DOMAIN size -> 0 .. 127]
      BY <1>2, <1>3, <1>4, GridTypes
    <2>2. Points(header, place[m], place[t])
      BY <1>4
    <2> HIDE DEF m, t
    <2> QED BY <2>1, <2>2, <1>4, OffsetSumIs DEF Manhattan
  <1>6. HopsBetween(m, t) = Manhattan(place, m, t) /\ HopsBetween(s, t) = Manhattan(place, s, t)
    <2>1. m \in TopologyNode(Topology) /\ s \in TopologyNode(Topology) /\ t \in TopologyNode(Topology)
      BY <1>3, <1>4
    <2> HIDE DEF m, s, t
    <2> QED BY <2>1, <1>2, HopsAreManhattan
  <1>7. HeaderTellsDistance
    BY <1>5, <1>6 DEF HeaderTellsDistance
  <1>8. TakesShortestRoute
    <2> SUFFICES ASSUME status = "received" PROVE m = t /\ hops = HopsBetween(s, t)
      BY DEF TakesShortestRoute
    <2>1. m = t /\ hops + Manhattan(place, m, t) = Manhattan(place, s, t) /\ hops \in Nat
      BY <1>1 DEF OnWay, WalkInv
    <2>2. Manhattan(place, m, t) = 0
      <3>1. m \in TopologyNode(Topology) /\ t \in TopologyNode(Topology)
        BY <1>3, <1>4
      <3>2. m = t
        BY <2>1
      <3> HIDE DEF m, t
      <3> QED BY <3>1, <3>2, <1>2, ManhattanType
    <2> QED BY <2>1, <2>2, <1>6
  <1> QED BY <1>7, <1>8

\* The first place of a dimension in the order, or 0.
RankOf(order, dim) == Seqs!SelectInSeq(order, LAMBDA e : e = dim)

LEMMA RankIs ==
  ASSUME NEW D, NEW order, IsOrder(order, D), NEW dim
  PROVE  /\ dim \in D => /\ RankOf(order, dim) \in 1 .. Len(order)
                         /\ order[RankOf(order, dim)] = dim
         /\ dim \notin D => RankOf(order, dim) = 0
  <1> DEFINE I == {i \in 1 .. Len(order) : order[i] = dim}
  <1>1. order \in Seq(D) /\ Len(order) \in Nat
    BY DEF IsOrder
  <1>2. CASE dim \in D
    <2>1. PICK i \in 1 .. Len(order) : order[i] = dim
      BY <1>2 DEF IsOrder
    <2>2. I = {i}
      BY <2>1 DEF IsOrder
    <2>3. RankOf(order, dim) = Seqs!Min(I)
      BY <2>2 DEF RankOf, Seqs!SelectInSeq
    <2>4. Seqs!Min({i}) = i
      BY <1>1, <2>1 DEF Seqs!Min
    <2> QED BY <2>1, <2>2, <2>3, <2>4, <1>2
  <1>3. CASE dim \notin D
    <2>1. I = {}
      BY <1>1, <1>3
    <2> QED BY <2>1, <1>3 DEF RankOf, Seqs!SelectInSeq
  <1> QED BY <1>2, <1>3

\* The dimension of the device never comes before that of the last one in the order.
RanksRise ==
  LET order == noc.dimensionOrder
      Rank(d) == Seqs!SelectInSeq(order, LAMBDA dim : dim = d[3])
  IN at' # at /\ order # <<>> => Rank(at) <= Rank(at')

LEMMA HopInOrder == ASSUME WalkInv, [Hop]_walkVars PROVE RanksRise
  <1> SUFFICES ASSUME at' # at
               PROVE  RankOf(noc.dimensionOrder, at[3]) <= RankOf(noc.dimensionOrder, at'[3])
    BY DEF RanksRise, RankOf
  <1>1. PICK size, step, place, order : OnWay(size, step, place, order)
    BY DEF WalkInv
  <1>2. Hop
    BY DEF walkVars
  <1>3. at'[3] \in DOMAIN size /\ GetOffset(header, at'[3]) # 0
    BY <1>1, <1>2, HopStep
  <1>4. IsOrder(order, DOMAIN size) /\ order = noc.dimensionOrder /\ DoneBefore(order, header, at[3])
    BY <1>1 DEF OnWay, OrderedGrid
  <1> DEFINE i == RankOf(order, at[3])
             j == RankOf(order, at'[3])
  <1>5. j \in 1 .. Len(order) /\ order[j] = at'[3]
    BY <1>3, <1>4, RankIs
  <1>6. i = 0 \/ (i \in 1 .. Len(order) /\ order[i] = at[3])
    BY <1>4, RankIs
  <1>7. Len(order) \in Nat
    BY <1>4 DEF IsOrder
  <1> HIDE DEF i, j
  <1>8. ~(j < i)
    <2> SUFFICES ASSUME j < i PROVE FALSE
      OBVIOUS
    <2>1. i \in 1 .. Len(order) /\ order[i] = at[3]
      BY <1>5, <1>6, <1>7
    <2> QED BY <2>1, <1>3, <1>4, <1>5 DEF DoneBefore
  <1> QED BY <1>4, <1>5, <1>6, <1>7, <1>8 DEF i, j

(***************************************************************************)
(* Numbers with mixed bases: the coordinates of a node are its digits.     *)
(***************************************************************************)
LEMMA DivMod ==
  ASSUME NEW k \in Nat \ {0}, NEW n \in Nat
  PROVE  /\ n % k \in 0 .. k - 1 /\ n \div k \in Nat
         /\ n = k * (n \div k) + (n % k)
  OBVIOUS

LEMMA DivModUnique ==
  ASSUME NEW k \in Nat \ {0}, NEW q \in Nat, NEW r \in 0 .. k - 1
  PROVE  (k * q + r) \div k = q /\ (k * q + r) % k = r
  OBVIOUS

LEMMA TimesNat ==
  ASSUME NEW a \in Nat, NEW b \in Nat
  PROVE  /\ a * b \in Nat /\ a * b = b * a
         /\ a # 0 /\ b # 0 => a * b # 0
  OBVIOUS

LEMMA TimesLess ==
  ASSUME NEW k \in Nat, NEW a \in Int, NEW b \in Int, a < b
  PROVE  k * a + k <= k * b /\ k * a \in Int /\ k * b \in Int
  OBVIOUS

\* Two digits at once.
Nested(a, b, n) == n \div (a * b) = (n \div a) \div b

LEMMA TwoDigits ==
  ASSUME NEW a \in Nat \ {0}, NEW b \in Nat \ {0}, NEW n \in Nat
  PROVE  /\ a * b \in Nat \ {0}
         /\ Nested(a, b, n)
         /\ n % (a * b) = a * ((n \div a) % b) + (n % a)
         /\ (n % (a * b)) \div a = (n \div a) % b
  <1> DEFINE q == n \div a
             r == n % a
             p == q \div b
             s == q % b
  <1>1. r \in 0 .. a - 1 /\ q \in Nat /\ n = a * q + r
    BY DivMod
  <1> HIDE DEF q, r
  <1>2. s \in 0 .. b - 1 /\ p \in Nat /\ q = b * p + s
    BY <1>1, DivMod
  <1> HIDE DEF p, s
  <1>3. a * b \in Nat \ {0}
    BY TimesNat
  <1>4. a * s + r \in 0 .. a * b - 1
    <2>1. a * s + a <= a * b /\ a * s \in Int /\ a * b \in Int
      BY <1>2, TimesLess
    <2>2. a * s \in Nat
      BY <1>2, TimesNat
    <2> QED BY <2>1, <2>2, <1>1
  <1>5. n = (a * b) * p + (a * s + r)
    <2>1. a * (b * p + s) = (a * b) * p + a * s
      BY <1>2
    <2>2. a * q = (a * b) * p + a * s
      BY <2>1, <1>2
    <2> QED BY <2>2, <1>1, <1>2
  <1>6. n \div (a * b) = p /\ n % (a * b) = a * s + r
    <2> DEFINE k == a * b
               u == a * s + r
    <2> HIDE DEF k, u
    <2>1. k \in Nat \ {0} /\ u \in 0 .. k - 1 /\ n = k * p + u
      BY <1>3, <1>4, <1>5 DEF k, u
    <2>2. n \div k = p /\ n % k = u
      BY <2>1, <1>2, DivModUnique
    <2> QED BY <2>2 DEF k, u
  <1>7. (a * s + r) \div a = s
    BY <1>1, <1>2, DivModUnique
  <1> QED BY <1>3, <1>6, <1>7 DEF q, r, p, s, Nested

\* The values of the digits: each is the one before, multiplied by its base.
MixedBase(size, d, step) ==
  /\ d \in Nat /\ size \in [0 .. d - 1 -> 1 .. 128]
  /\ \A k \in 0 .. d : step[k] \in Nat \ {0}
  /\ step[0] = 1
  /\ \A k \in 0 .. d - 1 : step[k + 1] = step[k] * size[k]

Digits(size, step, n) == [k \in DOMAIN size |-> (n \div step[k]) % size[k]]

LEMMA BaseTypes ==
  ASSUME NEW size, NEW d, NEW step, MixedBase(size, d, step)
  PROVE  /\ d \in Nat /\ DOMAIN size = 0 .. d - 1
         /\ \A k \in 0 .. d : step[k] \in Nat \ {0}
         /\ \A k \in 0 .. d - 1 :
              /\ size[k] \in 1 .. 128 /\ size[k] \in Nat \ {0}
              /\ k \in 0 .. d /\ k + 1 \in 0 .. d /\ step[k + 1] = step[k] * size[k]
  <1>1. d \in Nat /\ size \in [0 .. d - 1 -> 1 .. 128] /\ \A k \in 0 .. d : step[k] \in Nat \ {0}
    BY DEF MixedBase
  <1>2. \A k \in 0 .. d - 1 : size[k] \in 1 .. 128
    BY <1>1
  <1>3. \A k \in 0 .. d - 1 : size[k] \in Nat \ {0}
    BY <1>2
  <1>4. \A k \in 0 .. d - 1 : k \in 0 .. d /\ k + 1 \in 0 .. d
    BY <1>1
  <1>5. \A k \in 0 .. d - 1 : step[k + 1] = step[k] * size[k]
    BY DEF MixedBase
  <1> QED BY <1>1, <1>2, <1>3, <1>4, <1>5

\* The greater values are multiples of the smaller ones.
LEMMA Multiple ==
  ASSUME NEW size, NEW d, NEW step, MixedBase(size, d, step), NEW j \in 0 .. d
  PROVE  \A k \in j .. d : \E c \in Nat \ {0} : step[k] = step[j] * c
  <1> DEFINE P == {i \in 0 .. d - j : \E c \in Nat \ {0} : step[j + i] = step[j] * c}
  <1>1. d \in Nat /\ j \in Nat /\ d - j \in Nat /\ step[j] \in Nat \ {0}
    BY DEF MixedBase
  <1>2. 0 \in P
    <2>1. step[j + 0] = step[j] * 1
      BY <1>1
    <2> QED BY <2>1, <1>1
  <1>3. ASSUME NEW i \in 1 .. d - j, i - 1 \in P PROVE i \in P
    <2>1. PICK c \in Nat \ {0} : step[j + (i - 1)] = step[j] * c
      BY <1>3
    <2> DEFINE k == j + (i - 1)
    <2>2. k \in 0 .. d - 1 /\ j + i = k + 1
      BY <1>1
    <2> HIDE DEF k
    <2>3. step[k + 1] = step[k] * size[k] /\ size[k] \in Nat \ {0}
      BY <2>2, BaseTypes
    <2>4. c * size[k] \in Nat \ {0}
      BY <2>3, TimesNat
    <2>5. step[k + 1] = step[j] * (c * size[k])
      <3>1. step[k + 1] = (step[j] * c) * size[k]
        BY <2>1, <2>3 DEF k
      <3> QED BY <3>1, <2>3, <1>1
    <2> QED BY <2>2, <2>4, <2>5
  <1> HIDE DEF P
  <1>4. P \in SUBSET (0 .. d - j)
    BY DEF P
  <1>5. P = 0 .. d - j
    BY <1>1, <1>2, <1>3, <1>4, Induction
  <1> SUFFICES ASSUME NEW k \in j .. d PROVE \E c \in Nat \ {0} : step[k] = step[j] * c
    OBVIOUS
  <1>6. k - j \in P /\ j + (k - j) = k
    BY <1>1, <1>5
  <1> QED BY <1>6 DEF P

\* What is known of digit k.
DigitIs(size, step, n, k) ==
  /\ Digits(size, step, n)[k] = (n \div step[k]) % size[k]
  /\ Digits(size, step, n)[k] \in 0 .. size[k] - 1
  /\ n \div step[k] \in Nat /\ n % step[k] \in 0 .. step[k] - 1
  /\ n % step[k + 1] = step[k] * Digits(size, step, n)[k] + (n % step[k])

LEMMA DigitTypes ==
  ASSUME NEW size, NEW d, NEW step, MixedBase(size, d, step), NEW n \in Nat
  PROVE  /\ Digits(size, step, n) \in [0 .. d - 1 -> 0 .. 127]
         /\ DOMAIN Digits(size, step, n) = 0 .. d - 1
         /\ \A k \in 0 .. d - 1 : DigitIs(size, step, n, k)
  <1>1. ASSUME NEW k \in 0 .. d - 1
        PROVE  /\ (n \div step[k]) % size[k] \in 0 .. size[k] - 1
               /\ (n \div step[k]) % size[k] \in 0 .. 127
               /\ n \div step[k] \in Nat /\ n % step[k] \in 0 .. step[k] - 1
               /\ n % step[k + 1] = step[k] * ((n \div step[k]) % size[k]) + (n % step[k])
    <2> DEFINE a == step[k]
               b == size[k]
    <2>1. a \in Nat \ {0} /\ b \in Nat \ {0} /\ b \in 1 .. 128 /\ step[k + 1] = a * b
      BY BaseTypes
    <2> HIDE DEF a, b
    <2>2. n \div a \in Nat /\ n % a \in 0 .. a - 1
      BY <2>1, DivMod
    <2>3. (n \div a) % b \in 0 .. b - 1
      BY <2>1, <2>2, DivMod
    <2>4. (n \div a) % b \in 0 .. 127
      BY <2>1, <2>3
    <2>5. n % (a * b) = a * ((n \div a) % b) + (n % a)
      BY <2>1, TwoDigits
    <2> QED BY <2>1, <2>2, <2>3, <2>4, <2>5 DEF a, b
  <1>2. DOMAIN size = 0 .. d - 1
    BY BaseTypes
  <1>3. \A k \in 0 .. d - 1 : Digits(size, step, n)[k] = (n \div step[k]) % size[k]
    BY <1>2 DEF Digits
  <1>4. Digits(size, step, n) \in [0 .. d - 1 -> 0 .. 127]
    BY <1>1, <1>2 DEF Digits
  <1>5. ASSUME NEW k \in 0 .. d - 1 PROVE DigitIs(size, step, n, k)
    BY <1>1, <1>3 DEF DigitIs
  <1> QED BY <1>4, <1>5

LEMMA DigitAt ==
  ASSUME NEW size, NEW d, NEW step, MixedBase(size, d, step), NEW n \in Nat, NEW k \in 0 .. d - 1
  PROVE  /\ Digits(size, step, n)[k] = (n \div step[k]) % size[k]
         /\ Digits(size, step, n)[k] \in 0 .. size[k] - 1
  <1>1. DigitIs(size, step, n, k)
    BY DigitTypes
  <1> QED BY <1>1 DEF DigitIs

\* A number below the last value is known by its digits.
LEMMA DigitsTell ==
  ASSUME NEW size, NEW d, NEW step, MixedBase(size, d, step),
         NEW m \in 0 .. step[d] - 1, NEW n \in 0 .. step[d] - 1,
         Digits(size, step, m) = Digits(size, step, n)
  PROVE  m = n
  <1> DEFINE P == {k \in 0 .. d : m % step[k] = n % step[k]}
  <1>1. d \in Nat /\ m \in Nat /\ n \in Nat /\ step[d] \in Nat \ {0}
    BY BaseTypes
  <1>2. 0 \in P
    <2>1. step[0] = 1
      BY DEF MixedBase
    <2>2. m % 1 = 0 /\ n % 1 = 0
      BY <1>1
    <2> QED BY <2>1, <2>2, <1>1
  <1>3. ASSUME NEW i \in 1 .. d, i - 1 \in P PROVE i \in P
    <2>1. PICK k \in 0 .. d - 1 : k = i - 1 /\ i = k + 1
      BY <1>1
    <2>2. /\ m % step[k + 1] = step[k] * Digits(size, step, m)[k] + (m % step[k])
          /\ n % step[k + 1] = step[k] * Digits(size, step, n)[k] + (n % step[k])
      <3>1. DigitIs(size, step, m, k) /\ DigitIs(size, step, n, k)
        BY <1>1, DigitTypes
      <3> QED BY <3>1 DEF DigitIs
    <2>3. m % step[k] = n % step[k]
      BY <1>3, <2>1
    <2>4. m % step[k + 1] = n % step[k + 1]
      BY <2>2, <2>3
    <2> QED BY <2>1, <2>4, <1>1
  <1> HIDE DEF P
  <1>4. P \in SUBSET (0 .. d)
    BY DEF P
  <1>5. d \in P
    <2>1. P = 0 .. d
      BY <1>1, <1>2, <1>3, <1>4, Induction
    <2> QED BY <2>1, <1>1
  <1>6. m % step[d] = m /\ n % step[d] = n
    <2> DEFINE a == step[d]
    <2>1. a \in Nat \ {0} /\ m \in 0 .. a - 1 /\ n \in 0 .. a - 1
      BY <1>1
    <2> HIDE DEF a
    <2>2. a * 0 + m = m /\ a * 0 + n = n
      BY <2>1, <1>1
    <2>3. (a * 0 + m) % a = m /\ (a * 0 + n) % a = n
      BY <2>1, DivModUnique
    <2> QED BY <2>2, <2>3 DEF a
  <1> QED BY <1>5, <1>6 DEF P

\* Where a digit can become greater by one.
LEMMA DigitBelow ==
  ASSUME NEW size, NEW d, NEW step, MixedBase(size, d, step), NEW n \in Nat, NEW k \in 0 .. d - 1
  PROVE  n % step[k + 1] < step[k + 1] - step[k] <=> Digits(size, step, n)[k] < size[k] - 1
  <1> DEFINE a == step[k]
             b == size[k]
             x == Digits(size, step, n)[k]
             r == n % step[k]
             y == n % step[k + 1]
  <1>1. a \in Nat \ {0} /\ b \in Nat \ {0} /\ step[k + 1] = a * b
    BY BaseTypes
  <1>2. x \in 0 .. b - 1 /\ r \in 0 .. a - 1 /\ y = a * x + r
    <2>1. DigitIs(size, step, n, k)
      BY DigitTypes
    <2> QED BY <2>1, <1>1 DEF DigitIs
  <1> HIDE DEF a, b, x, r, y
  <1>3. x \in Int /\ b - 1 \in Int /\ b \in Int /\ a * x \in Int /\ a * b \in Int /\ a * (b - 1) \in Int
    BY <1>1, <1>2
  <1>4. a * (b - 1) = a * b - a
    BY <1>1
  <1>5. x < b - 1 => y < a * b - a
    <2> SUFFICES ASSUME x < b - 1 PROVE y < a * b - a
      OBVIOUS
    <2>1. a * x + a <= a * (b - 1)
      BY <1>1, <1>3, TimesLess
    <2> QED BY <2>1, <1>1, <1>2, <1>3, <1>4
  <1>6. ~(x < b - 1) => ~(y < a * b - a)
    <2> SUFFICES ASSUME ~(x < b - 1) PROVE ~(y < a * b - a)
      OBVIOUS
    <2>1. x = b - 1
      BY <1>1, <1>2
    <2> QED BY <2>1, <1>1, <1>2, <1>3, <1>4
  <1> QED BY <1>1, <1>5, <1>6 DEF a, b, x, y

\* What is added to a number does not reach the digits below it, nor those above when
\* there is no carry.
SameDigit(a, b, e, n) == ((n + e) \div a) % b = (n \div a) % b

LEMMA LowerDigit ==
  ASSUME NEW a \in Nat \ {0}, NEW b \in Nat \ {0}, NEW c \in Nat \ {0}, NEW n \in Nat
  PROVE  SameDigit(a, b, (a * b) * c, n)
  <1> DEFINE q == n \div a
             r == n % a
             p == q \div b
             s == q % b
  <1>1. r \in 0 .. a - 1 /\ q \in Nat /\ n = a * q + r
    BY DivMod
  <1> HIDE DEF q, r
  <1>2. s \in 0 .. b - 1 /\ p \in Nat /\ q = b * p + s
    BY <1>1, DivMod
  <1> HIDE DEF p, s
  <1>3. b * c \in Nat /\ q + b * c \in Nat /\ p + c \in Nat
    BY <1>1, <1>2, TimesNat
  <1>4. n + (a * b) * c = a * (q + b * c) + r
    <2>1. (a * b) * c = a * (b * c)
      OBVIOUS
    <2>2. a * (q + b * c) = a * q + a * (b * c)
      BY <1>1, <1>3
    <2> QED BY <2>1, <2>2, <1>1, <1>3
  <1>5. (n + (a * b) * c) \div a = q + b * c
    <2> DEFINE w == q + b * c
    <2>1. w \in Nat /\ n + (a * b) * c = a * w + r
      BY <1>3, <1>4
    <2> HIDE DEF w
    <2> QED BY <2>1, <1>1, DivModUnique DEF w
  <1>6. q + b * c = b * (p + c) + s
    BY <1>2
  <1>7. (b * (p + c) + s) % b = s
    BY <1>2, <1>3, DivModUnique
  <1> QED BY <1>5, <1>6, <1>7 DEF q, s, SameDigit

LEMMA SameQuotient ==
  ASSUME NEW a \in Nat \ {0}, NEW e \in Nat, NEW n \in Nat, (n % a) + e < a
  PROVE  (n + e) \div a = n \div a
  <1> DEFINE q == n \div a
             r == n % a
  <1>1. r \in 0 .. a - 1 /\ q \in Nat /\ n = a * q + r /\ r + e < a
    BY DivMod
  <1> HIDE DEF q, r
  <1>2. r + e \in 0 .. a - 1 /\ n + e = a * q + (r + e)
    BY <1>1
  <1>3. (a * q + (r + e)) \div a = q
    BY <1>1, <1>2, DivModUnique
  <1> QED BY <1>2, <1>3 DEF q

LEMMA NextDigit ==
  ASSUME NEW a \in Nat \ {0}, NEW b \in Nat \ {0}, NEW n \in Nat, (n \div a) % b < b - 1
  PROVE  ((n + a) \div a) % b = ((n \div a) % b) + 1
  <1> DEFINE q == n \div a
             r == n % a
             p == q \div b
             s == q % b
  <1>1. r \in 0 .. a - 1 /\ q \in Nat /\ n = a * q + r
    BY DivMod
  <1>0. s < b - 1
    OBVIOUS
  <1> HIDE DEF q, r
  <1>2. s \in 0 .. b - 1 /\ p \in Nat /\ q = b * p + s
    BY <1>1, DivMod
  <1> HIDE DEF p, s
  <1>3. n + a = a * (q + 1) + r /\ q + 1 \in Nat
    BY <1>1
  <1>4. (a * (q + 1) + r) \div a = q + 1
    BY <1>1, <1>3, DivModUnique
  <1>5. q + 1 = b * p + (s + 1) /\ s + 1 \in 0 .. b - 1
    BY <1>0, <1>2
  <1>6. (b * p + (s + 1)) % b = s + 1
    BY <1>2, <1>5, DivModUnique
  <1> QED BY <1>3, <1>4, <1>5, <1>6 DEF q, s

LEMMA DigitUp ==
  ASSUME NEW size, NEW d, NEW step, MixedBase(size, d, step),
         NEW n \in 0 .. step[d] - 1, NEW k \in 0 .. d - 1, Digits(size, step, n)[k] < size[k] - 1
  PROVE  /\ n + step[k] \in 0 .. step[d] - 1
         /\ Digits(size, step, n + step[k]) = Plus(Digits(size, step, n), k)
  <1> DEFINE e == step[k]
             f == step[k + 1]
             o == n + e
             p == Digits(size, step, n)
             q == Digits(size, step, o)
  <1>1. /\ d \in Nat /\ n \in Nat /\ step[d] \in Nat \ {0} /\ DOMAIN size = 0 .. d - 1
        /\ e \in Nat \ {0} /\ size[k] \in Nat \ {0} /\ f = e * size[k] /\ f \in Nat \ {0}
    BY BaseTypes
  <1>2. o \in Nat
    BY <1>1
  <1>3. (n % f) + e < f
    <2>1. n % f < f - e
      BY <1>1, DigitBelow
    <2> HIDE DEF e, f
    <2>2. n % f \in 0 .. f - 1
      BY <1>1, DivMod
    <2>3. n % f \in Int
      BY <1>1, <2>2
    <2> QED BY <2>1, <2>3, <1>1
  <1>4. o \div f = n \div f
    <2> HIDE DEF e, f
    <2> QED BY <1>1, <1>3, SameQuotient
  <1>5. ASSUME NEW j \in k + 1 .. d PROVE o \div step[j] = n \div step[j]
    <2>1. k + 1 \in 0 .. d
      BY <1>1
    <2>2. PICK c \in Nat \ {0} : step[j] = f * c
      BY <2>1, Multiple
    <2> HIDE DEF f, o
    <2>3. Nested(f, c, o) /\ Nested(f, c, n)
      BY <1>1, <1>2, TwoDigits
    <2>4. o \div (f * c) = (o \div f) \div c /\ n \div (f * c) = (n \div f) \div c
      BY <2>3 DEF Nested
    <2> QED BY <2>2, <2>4, <1>4
  <1>6. o \in 0 .. step[d] - 1
    <2> DEFINE g == step[d]
    <2>1. o \div g = n \div g /\ g \in Nat \ {0} /\ n \in 0 .. g - 1
      BY <1>1, <1>5
    <2> HIDE DEF g, o
    <2>2. n \div g = 0
      <3>1. g * 0 + n = n
        BY <1>1, <2>1
      <3>2. (g * 0 + n) \div g = 0
        BY <2>1, DivModUnique
      <3> QED BY <3>1, <3>2
    <2>3. o = g * (o \div g) + (o % g) /\ o % g \in 0 .. g - 1
      BY <1>2, <2>1, DivMod
    <2>4. g * 0 = 0
      BY <2>1
    <2> QED BY <2>1, <2>2, <2>3, <2>4 DEF g
  <1>7. p[k] = (n \div e) % size[k] /\ q[k] = (o \div e) % size[k]
    <2>1. o \in Nat /\ n \in Nat
      BY <1>1, <1>2
    <2> HIDE DEF o, e
    <2>2. Digits(size, step, n)[k] = (n \div step[k]) % size[k]
      BY <2>1, DigitAt
    <2>3. Digits(size, step, o)[k] = (o \div step[k]) % size[k]
      BY <2>1, DigitAt
    <2> QED BY <2>2, <2>3 DEF e
  <1>8. q[k] = p[k] + 1
    <2> DEFINE b == size[k]
    <2>1. b \in Nat \ {0} /\ (n \div e) % b < b - 1
      BY <1>1, <1>7
    <2> HIDE DEF b, e
    <2>2. ((n + e) \div e) % b = ((n \div e) % b) + 1
      BY <1>1, <2>1, NextDigit
    <2> QED BY <2>2, <1>7 DEF b
  <1>9. ASSUME NEW j \in 0 .. d - 1, j # k PROVE q[j] = p[j]
    <2>1. p[j] = (n \div step[j]) % size[j] /\ q[j] = (o \div step[j]) % size[j]
      <3>1. o \in Nat /\ n \in Nat
        BY <1>1, <1>2
      <3> HIDE DEF o
      <3>2. Digits(size, step, n)[j] = (n \div step[j]) % size[j]
        BY <3>1, DigitAt
      <3>3. Digits(size, step, o)[j] = (o \div step[j]) % size[j]
        BY <3>1, DigitAt
      <3> QED BY <3>2, <3>3
    <2>2. CASE k < j
      <3>1. j \in k + 1 .. d
        BY <1>1, <2>2
      <3> QED BY <3>1, <2>1, <1>5
    <2>3. CASE j < k
      <3>1. j + 1 \in 0 .. d /\ k \in j + 1 .. d
        BY <1>1, <2>3
      <3>2. PICK c \in Nat \ {0} : e = step[j + 1] * c
        BY <3>1, Multiple
      <3> DEFINE a == step[j]
                 b == size[j]
      <3>3. a \in Nat \ {0} /\ b \in Nat \ {0} /\ step[j + 1] = a * b
        BY BaseTypes
      <3> HIDE DEF a, b
      <3>4. SameDigit(a, b, (a * b) * c, n)
        BY <1>1, <3>3, LowerDigit
      <3>5. ((n + (a * b) * c) \div a) % b = (n \div a) % b
        BY <3>4 DEF SameDigit
      <3> QED BY <3>2, <3>3, <3>5, <2>1 DEF a, b
    <2> QED BY <2>2, <2>3, <1>1, <1>9
  <1> HIDE DEF p, q
  <1>10. p \in [0 .. d - 1 -> 0 .. 127] /\ q \in [0 .. d - 1 -> 0 .. 127]
    BY <1>1, <1>2, DigitTypes DEF p, q
  <1>11. q = Plus(p, k)
    BY <1>8, <1>9, <1>10 DEF Plus
  <1> QED BY <1>6, <1>11 DEF p, q

LEMMA DigitDown ==
  ASSUME NEW size, NEW d, NEW step, MixedBase(size, d, step),
         NEW n \in 0 .. step[d] - 1, NEW k \in 0 .. d - 1, 0 < Digits(size, step, n)[k]
  PROVE  /\ n - step[k] \in 0 .. step[d] - 1
         /\ Digits(size, step, n - step[k]) = Minus(Digits(size, step, n), k)
         /\ Digits(size, step, n - step[k])[k] < size[k] - 1
  <1> DEFINE a == step[k]
             b == size[k]
             m == n - a
             p == Digits(size, step, n)
             q == Digits(size, step, m)
  <1>1. /\ d \in Nat /\ n \in Nat /\ step[d] \in Nat \ {0}
        /\ a \in Nat \ {0} /\ b \in Nat \ {0}
    BY BaseTypes
  <1>2. /\ p[k] = (n \div a) % b /\ p[k] \in 0 .. b - 1
        /\ n \div a \in Nat /\ n = a * (n \div a) + (n % a) /\ n % a \in 0 .. a - 1
    <2>1. p[k] = (n \div a) % b /\ p[k] \in 0 .. b - 1
      BY <1>1, DigitAt
    <2> HIDE DEF a, b
    <2> QED BY <2>1, <1>1, DivMod
  <1>3. m \in Nat /\ m \div a = n \div a - 1 /\ n \div a - 1 \in Nat
    <2> DEFINE u == n \div a
               r == n % a
    <2>1. u \in Nat /\ u # 0 /\ r \in 0 .. a - 1 /\ n = a * u + r
      <3>1. u # 0
        <4> SUFFICES ASSUME u = 0 PROVE FALSE
          OBVIOUS
        <4>1. p[k] = 0 % b
          BY <1>2
        <4> HIDE DEF b
        <4>2. 0 % b = 0
          BY <1>1
        <4> QED BY <4>1, <4>2
      <3> QED BY <3>1, <1>2
    <2> HIDE DEF u, r
    <2>2. u - 1 \in Nat /\ m = a * (u - 1) + r
      BY <2>1, <1>1
    <2> HIDE DEF m, a
    <2>3. a * (u - 1) \in Nat
      BY <2>2, <1>1, TimesNat
    <2>4. (a * (u - 1) + r) \div a = u - 1
      BY <2>1, <2>2, <1>1, DivModUnique
    <2> QED BY <2>1, <2>2, <2>3, <2>4 DEF u
  <1>4. q[k] = (m \div a) % b
    BY <1>1, <1>3, DigitAt
  <1>5. q[k] = p[k] - 1
    <2> DEFINE u == n \div a
               v == u \div b
               s == u % b
    <2>1. s \in 0 .. b - 1 /\ v \in Nat /\ u = b * v + s
      <3> HIDE DEF u, b
      <3>1. u \in Nat
        BY <1>2 DEF u
      <3> QED BY <3>1, <1>1, DivMod
    <2>2. s = p[k] /\ q[k] = (u - 1) % b
      BY <1>2, <1>3, <1>4
    <2> HIDE DEF u, v, s, b, p, q
    <2>3. s - 1 \in 0 .. b - 1 /\ u - 1 = b * v + (s - 1)
      BY <2>1, <2>2, <1>1 DEF p
    <2>4. (b * v + (s - 1)) % b = s - 1
      BY <2>1, <2>3, <1>1, DivModUnique
    <2> QED BY <2>2, <2>3, <2>4
  <1>6. m \in 0 .. step[d] - 1
    BY <1>1, <1>3
  <1>7. q[k] < b - 1
    <2>1. p[k] \in 0 .. b - 1
      BY <1>2
    <2> HIDE DEF p, q, b
    <2> QED BY <2>1, <1>1, <1>5
  <1>8. p = Plus(q, k)
    <2>1. m + a = n
      BY <1>1
    <2>2. Digits(size, step, m + a) = Plus(q, k)
      <3> HIDE DEF m
      <3> QED BY <1>6, <1>7, DigitUp
    <2> QED BY <2>1, <2>2
  <1>9. q \in [0 .. d - 1 -> 0 .. 127]
    BY <1>3, DigitTypes
  <1> HIDE DEF p, q
  <1>10. q = Minus(p, k)
    <2>1. DOMAIN p = 0 .. d - 1 /\ \A j \in 0 .. d - 1 : p[j] = IF j = k THEN q[j] + 1 ELSE q[j]
      BY <1>8, <1>9 DEF Plus
    <2>2. \A j \in 0 .. d - 1 : q[j] \in Int
      <3>1. \A j \in 0 .. d - 1 : q[j] \in 0 .. 127
        BY <1>9
      <3> QED BY <3>1
    <2>3. \A j \in 0 .. d - 1 : Minus(p, k)[j] = q[j]
      BY <2>1, <2>2 DEF Minus
    <2>4. Minus(p, k) = [j \in 0 .. d - 1 |-> Minus(p, k)[j]]
      BY <2>1 DEF Minus
    <2>5. q = [j \in 0 .. d - 1 |-> q[j]]
      BY <1>9
    <2> HIDE DEF Minus
    <2> QED BY <2>3, <2>4, <2>5
  <1> QED BY <1>6, <1>7, <1>10 DEF p, q

(***************************************************************************)
(* How many nodes the first dimensions have together.                      *)
(***************************************************************************)
Products(it, f, T) ==
  /\ it \in [T -> Nat]
  /\ \A s \in T : it[s] = IF s = {} THEN 1 ELSE f[Some(s)] * it[s \ {Some(s)}]

LEMMA NumberOfNodesIs ==
  ASSUME NEW f, NEW k \in Nat, \A j \in 0 .. k - 1 : f[j] \in Nat
  PROVE  \E it : Products(it, f, SUBSET (0 .. k - 1)) /\ GetNumberOfNodes(f, k) = it[0 .. k - 1]
  <1> DEFINE D == 0 .. k - 1
             it == CHOOSE it : it = [s \in SUBSET D |-> IF s = {} THEN 1 ELSE f[Some(s)] * it[s \ {Some(s)}]]
             G == [x \in (SUBSET D) \X Nat |-> IF x[1] = {} THEN 1 ELSE f[Some(x[1])] * x[2]]
  <1>0. IsFiniteSet(D)
    BY FS_Interval
  <1>1. G \in [(SUBSET D) \X Nat -> Nat]
    <2>1. ASSUME NEW s \in SUBSET D, s # {}, NEW v \in Nat PROVE f[Some(s)] * v \in Nat
      <3>1. f[Some(s)] \in Nat
        BY <2>1 DEF Some
      <3> QED BY <3>1, TimesNat
    <2> QED BY <2>1
  <1>2. ASSUME NEW s \in SUBSET D, s # {}, NEW v \in Nat PROVE G[<<s, v>>] = f[Some(s)] * v
    BY <1>2
  <1>7. GetNumberOfNodes(f, k) = it[D]
    BY DEF GetNumberOfNodes, Funcs!FoldFunctionOnSet, Funcs!MapThenFoldSet, Some
  <1> HIDE DEF G, D
  <1>3. PICK a \in [SUBSET D -> Nat] : Folds(a, G, 1, SUBSET D)
    BY <1>0, <1>1, FoldsExist
  <1>4. ASSUME NEW s \in SUBSET D
        PROVE  a[s] = IF s = {} THEN 1 ELSE f[Some(s)] * a[s \ {Some(s)}]
    <2>1. a[s \ {Some(s)}] \in Nat
      OBVIOUS
    <2>2. a[s] = IF s = {} THEN 1 ELSE G[<<s, a[s \ {Some(s)}]>>]
      BY <1>3 DEF Folds
    <2> QED BY <2>1, <2>2, <1>2
  <1>5. a = [s \in SUBSET D |-> IF s = {} THEN 1 ELSE f[Some(s)] * a[s \ {Some(s)}]]
    <2>1. a = [s \in SUBSET D |-> a[s]]
      OBVIOUS
    <2> QED BY <1>4, <2>1
  <1>6. it = [s \in SUBSET D |-> IF s = {} THEN 1 ELSE f[Some(s)] * it[s \ {Some(s)}]]
    BY <1>5
  <1> HIDE DEF it
  <1>8. ASSUME NEW s \in SUBSET D
        PROVE  it[s] = IF s = {} THEN 1 ELSE f[Some(s)] * it[s \ {Some(s)}]
    BY <1>6
  <1>9. \A s \in SUBSET D : it[s] = a[s]
    <2> DEFINE Q == {s \in SUBSET D : it[s] = a[s]}
    <2>1. {} \in Q
      BY <1>4, <1>8
    <2>2. ASSUME NEW s \in SUBSET D, s # {}, s \ {Some(s)} \in Q PROVE s \in Q
      BY <2>2, <1>4, <1>8
    <2> HIDE DEF Q
    <2>3. Q \in SUBSET (SUBSET D)
      BY DEF Q
    <2>4. Q = SUBSET D
      BY <2>1, <2>2, <2>3, <1>0, SubsetInduction
    <2> QED BY <2>4 DEF Q
  <1>10. Products(a, f, SUBSET D)
    BY <1>3, <1>4 DEF Products
  <1> QED BY <1>7, <1>9, <1>10 DEF D

\* Any factor can be taken out of a product.
Factor(it, f, s, j) == it[s] = f[j] * it[s \ {j}]

LEMMA TakeFactor ==
  ASSUME NEW D, IsFiniteSet(D), NEW f, \A j \in D : f[j] \in Nat,
         NEW it, Products(it, f, SUBSET D), NEW s \in SUBSET D, NEW j \in s
  PROVE  Factor(it, f, s, j)
  <1> DEFINE n == Cardinality(D)
             Taken(u) == \A i \in u : it[u] = f[i] * it[u \ {i}]
             P == {k \in 0 .. n : \A u \in Small(D, k) : Taken(u)}
  <1>0. n \in Nat
    BY FS_CardinalityType
  <1>1. 0 \in P
    <2>1. \A u \in SUBSET D : Cardinality(u) = 0 <=> u = {}
      BY WithoutOne
    <2>2. \A u \in Small(D, 0) : u = {}
      BY <2>1, SmallSubset
    <2>3. \A u \in Small(D, 0) : Taken(u)
      BY <2>2
    <2> QED BY <2>3, <1>0
  <1>2. ASSUME NEW k \in 1 .. n, k - 1 \in P PROVE k \in P
    <2>1. ASSUME NEW u \in Small(D, k), NEW i \in u PROVE it[u] = f[i] * it[u \ {i}]
      <3> DEFINE x == Some(u)
                 w == u \ {x}
                 z == w \ {i}
      <3>1. u \in SUBSET D /\ Cardinality(u) \in 0 .. k /\ IsFiniteSet(u)
        <4>1. u \in SUBSET D /\ Cardinality(u) \in 0 .. k
          BY SmallSubset
        <4> QED BY <4>1, WithoutOne
      <3>2. x \in u /\ w \in SUBSET D /\ u \ {i} \in SUBSET D /\ z \in SUBSET D
        BY <3>1 DEF Some
      <3>3. it[u] = f[x] * it[w]
        BY <3>1 DEF Products
      <3>4. CASE i = x
        BY <3>3, <3>4
      <3>5. CASE i # x
        <4>1. ASSUME NEW y \in u PROVE u \ {y} \in Small(D, k - 1)
          <5>1. Cardinality(u \ {y}) = Cardinality(u) - 1 /\ Cardinality(u \ {y}) \in Nat
            BY <3>1, FS_RemoveElement, FS_CardinalityType
          <5>2. Cardinality(u \ {y}) \in 0 .. k - 1
            BY <5>1, <3>1
          <5> QED BY <3>1, <5>2, SmallSubset
        <4>2. Taken(w) /\ Taken(u \ {i})
          BY <4>1, <3>2, <1>2
        <4>3. i \in w /\ x \in u \ {i} /\ (u \ {i}) \ {x} = z
          BY <3>2, <3>5
        <4>4. it[w] = f[i] * it[z] /\ it[u \ {i}] = f[x] * it[z]
          BY <4>2, <4>3
        <4>5. f[i] \in Nat /\ f[x] \in Nat /\ it[z] \in Nat
          BY <3>1, <3>2 DEF Products
        <4> DEFINE a == f[i]
                   b == f[x]
                   c == it[z]
        <4>6. it[u] = b * (a * c) /\ it[u \ {i}] = b * c
          BY <3>3, <4>4
        <4>7. a \in Nat /\ b \in Nat /\ c \in Nat
          BY <4>5
        <4> HIDE DEF a, b, c
        <4>8. b * (a * c) = a * (b * c)
          BY <4>7
        <4> QED BY <4>6, <4>8 DEF a
      <3> QED BY <3>4, <3>5
    <2> QED BY <2>1
  <1>3. n \in P
    <2> HIDE DEF P
    <2>1. P \in SUBSET (0 .. n)
      BY DEF P
    <2>2. P = 0 .. n
      BY <2>1, <1>0, <1>1, <1>2, Induction
    <2> QED BY <2>2, <1>0
  <1>4. s \in Small(D, n)
    <2>1. Cardinality(s) \in 0 .. n
      BY WithoutOne
    <2> QED BY <2>1, <1>0, SmallSubset
  <1> QED BY <1>3, <1>4 DEF Factor

LEMMA NumberOfNodesSteps ==
  ASSUME NEW f, NEW d \in Nat, \A j \in 0 .. d - 1 : f[j] \in Nat
  PROVE  /\ GetNumberOfNodes(f, 0) = 1
         /\ \A k \in 0 .. d : GetNumberOfNodes(f, k) \in Nat
         /\ \A k \in 0 .. d - 1 : GetNumberOfNodes(f, k + 1) = GetNumberOfNodes(f, k) * f[k]
  <1>1. GetNumberOfNodes(f, 0) = 1
    <2>1. ASSUME NEW k \in Nat, k = 0 PROVE GetNumberOfNodes(f, k) = 1
      <3>1. \A j \in 0 .. k - 1 : f[j] \in Nat
        BY <2>1
      <3>2. PICK it : Products(it, f, SUBSET (0 .. k - 1)) /\ GetNumberOfNodes(f, k) = it[0 .. k - 1]
        BY <3>1, NumberOfNodesIs
      <3>3. 0 .. k - 1 = {}
        BY <2>1
      <3> QED BY <3>2, <3>3 DEF Products
    <2> QED BY <2>1
  <1>2. ASSUME NEW k \in 0 .. d PROVE GetNumberOfNodes(f, k) \in Nat
    <2>1. k \in Nat /\ \A j \in 0 .. k - 1 : f[j] \in Nat
      OBVIOUS
    <2>2. PICK it : Products(it, f, SUBSET (0 .. k - 1)) /\ GetNumberOfNodes(f, k) = it[0 .. k - 1]
      BY <2>1, NumberOfNodesIs
    <2> QED BY <2>2 DEF Products
  <1>3. ASSUME NEW k \in 0 .. d - 1
        PROVE  GetNumberOfNodes(f, k + 1) = GetNumberOfNodes(f, k) * f[k]
    <2> DEFINE S == 0 .. k - 1
               D == 0 .. (k + 1) - 1
    <2>1. k \in Nat /\ k + 1 \in Nat /\ (\A j \in S : f[j] \in Nat) /\ (\A j \in D : f[j] \in Nat)
          /\ k \in D /\ S = D \ {k} /\ f[k] \in Nat
      OBVIOUS
    <2>2. PICK a : Products(a, f, SUBSET S) /\ GetNumberOfNodes(f, k) = a[S]
      BY <2>1, NumberOfNodesIs
    <2>3. PICK b : Products(b, f, SUBSET D) /\ GetNumberOfNodes(f, k + 1) = b[D]
      BY <2>1, NumberOfNodesIs
    <2>4. IsFiniteSet(D) /\ IsFiniteSet(S)
      BY <2>1, FS_Interval
    <2> HIDE DEF S, D
    <2>5. b[D] = f[k] * b[S]
      <3>1. D \in SUBSET D /\ k \in D /\ Products(b, f, SUBSET D) /\ \A j \in D : f[j] \in Nat
        BY <2>1, <2>3
      <3>2. Factor(b, f, D, k)
        BY <3>1, <2>4, TakeFactor
      <3>3. b[D] = f[k] * b[D \ {k}]
        BY <3>2 DEF Factor
      <3> QED BY <3>3, <2>1
    <2>6. a[S] = b[S]
      <3> DEFINE Q == {s \in SUBSET S : a[s] = b[s]}
      <3>1. {} \in Q
        BY <2>2, <2>3 DEF Products
      <3>2. ASSUME NEW s \in SUBSET S, s # {}, s \ {Some(s)} \in Q PROVE s \in Q
        <4>1. s \in SUBSET D
          BY <2>1
        <4> QED BY <4>1, <3>2, <2>2, <2>3 DEF Products
      <3> HIDE DEF Q
      <3>3. Q \in SUBSET (SUBSET S)
        BY DEF Q
      <3>4. Q = SUBSET S
        BY <3>1, <3>2, <3>3, <2>4, SubsetInduction
      <3> QED BY <3>4 DEF Q
    <2>7. a[S] \in Nat
      BY <2>2 DEF Products
    <2> QED BY <2>1, <2>2, <2>3, <2>5, <2>6, <2>7
  <1> QED BY <1>1, <1>2, <1>3

(***************************************************************************)
(* A mesh is a grid: in every dimension the nodes of a line are linked,    *)
(* and their coordinates are their digits.                                 *)
(***************************************************************************)
\* Node n is not the last one of its line in dimension dim.
HasNext(step, n, dim) == n % step[dim + 1] < step[dim + 1] - step[dim]

MeshOf(t, size, d, step) ==
  /\ MixedBase(size, d, step) /\ t.nodes = step[d]
  /\ t.devices = Devices(t.channels, t.nodes) /\ t.peer = Peers(t.channels)
  /\ \A c \in t.channels : \E n \in TopologyNode(t), dim \in 0 .. d - 1 :
       /\ c = Channel(n, n + step[dim], dim, 1)
       /\ \E e \in 0 .. d - 1 : step[e] = step[dim] /\ HasNext(step, n, e)
  /\ \A n \in TopologyNode(t), dim \in 0 .. d - 1 :
       HasNext(step, n, dim) => Channel(n, n + step[dim], dim, 1) \in t.channels
  /\ \A m, n \in TopologyNode(t) :
       /\ GetDestinationRelativeDimensionalPosition(t, m, n)
            = LinePosition(Coordinates(t, m), Coordinates(t, n))
       /\ Coordinates(t, n) = Digits(size, step, n)

Places(t, size, step) == [n \in TopologyNode(t) |-> Digits(size, step, n)]

LEMMA MeshIsGrid ==
  ASSUME NEW t, NEW size, NEW d, NEW step, MeshOf(t, size, d, step)
  PROVE  Grid(t, size, step, Places(t, size, step))
  <1> DEFINE place == Places(t, size, step)
             D == 0 .. d - 1
             N == TopologyNode(t)
  <1>1. /\ MixedBase(size, d, step) /\ t.nodes = step[d]
        /\ t.devices = Devices(t.channels, t.nodes) /\ t.peer = Peers(t.channels)
    BY DEF MeshOf
  <1>2. /\ d \in Nat /\ DOMAIN size = D /\ step[d] \in Nat \ {0}
        /\ \A k \in D : step[k] \in Nat \ {0}
        /\ size \in [D -> 1 .. 128]
    BY <1>1, BaseTypes DEF MixedBase
  <1>3. N = 0 .. step[d] - 1
    BY <1>1 DEF TopologyNode
  <1>4. IsFiniteSet(D) /\ -1 \notin D
    <2>1. IsFiniteSet(0 .. d - 1)
      BY <1>2, FS_Interval
    <2> QED BY <2>1
  <1>5. \A n \in N : place[n] = Digits(size, step, n) /\ n \in Nat
    BY <1>2, <1>3 DEF Places
  <1>6. place \in [N -> [D -> 0 .. 127]]
    <2>1. \A n \in N : Digits(size, step, n) \in [D -> 0 .. 127]
      BY <1>1, <1>5, DigitTypes
    <2> QED BY <2>1 DEF Places
  <1>7. ASSUME NEW m \in N, NEW n \in N, place[m] = place[n] PROVE m = n
    BY <1>1, <1>3, <1>5, <1>7, DigitsTell
  <1>8. ASSUME NEW n \in N, NEW dim \in D
        PROVE  /\ place[n][dim] < size[dim]
               /\ HasNext(step, n, dim) <=> place[n][dim] < size[dim] - 1
    <2>1. n \in Nat /\ place[n] = Digits(size, step, n)
      BY <1>5
    <2>2. Digits(size, step, n)[dim] \in 0 .. size[dim] - 1 /\ size[dim] \in Nat \ {0}
      BY <1>1, <2>1, DigitAt, BaseTypes
    <2>3. HasNext(step, n, dim) <=> Digits(size, step, n)[dim] < size[dim] - 1
      BY <1>1, <2>1, DigitBelow DEF HasNext
    <2> QED BY <2>1, <2>2, <2>3
  <1>9. ASSUME NEW n \in N, NEW dim \in D, place[n][dim] < size[dim] - 1
        PROVE  /\ n + step[dim] \in N
               /\ place[n + step[dim]] = Plus(place[n], dim)
               /\ Channel(n, n + step[dim], dim, 1) \in t.channels
    <2>1. place[n] = Digits(size, step, n) /\ n \in 0 .. step[d] - 1
      BY <1>3, <1>5
    <2>2. /\ n + step[dim] \in 0 .. step[d] - 1
          /\ Digits(size, step, n + step[dim]) = Plus(Digits(size, step, n), dim)
      BY <1>1, <1>9, <2>1, DigitUp
    <2>3. place[n + step[dim]] = Digits(size, step, n + step[dim])
      BY <1>3, <1>5, <2>2
    <2>4. Channel(n, n + step[dim], dim, 1) \in t.channels
      BY <1>8, <1>9 DEF MeshOf
    <2> QED BY <2>1, <2>2, <2>3, <2>4, <1>3
  <1>10. ASSUME NEW n \in N, NEW dim \in D, 0 < place[n][dim]
         PROVE  /\ n - step[dim] \in N
                /\ place[n - step[dim]] = Minus(place[n], dim)
    <2>1. place[n] = Digits(size, step, n) /\ n \in 0 .. step[d] - 1
      BY <1>3, <1>5
    <2>2. /\ n - step[dim] \in 0 .. step[d] - 1
          /\ Digits(size, step, n - step[dim]) = Minus(Digits(size, step, n), dim)
      BY <1>1, <1>10, <2>1, DigitDown
    <2>3. place[n - step[dim]] = Digits(size, step, n - step[dim])
      BY <1>3, <1>5, <2>2
    <2> QED BY <2>1, <2>2, <2>3, <1>3
  <1>11. ASSUME NEW c \in t.channels
         PROVE  \E n \in N, dim \in D :
                  /\ c = Channel(n, n + step[dim], dim, 1)
                  /\ \E e \in D : step[e] = step[dim] /\ place[n][e] < size[e] - 1
    <2>1. PICK n \in N, dim \in D :
            /\ c = Channel(n, n + step[dim], dim, 1)
            /\ \E e \in D : step[e] = step[dim] /\ HasNext(step, n, e)
      BY DEF MeshOf
    <2>2. \E e \in D : step[e] = step[dim] /\ place[n][e] < size[e] - 1
      BY <2>1, <1>8
    <2> QED BY <2>1, <2>2
  <1>12. ASSUME NEW m \in N, NEW n \in N
         PROVE  /\ GetDestinationRelativeDimensionalPosition(t, m, n) = LinePosition(place[m], place[n])
                /\ Coordinates(t, n) = place[n]
    BY <1>5 DEF MeshOf
  <1> HIDE DEF place, D, N
  <1> QED
    BY <1>1, <1>2, <1>4, <1>6, <1>7, <1>8, <1>9, <1>10, <1>11, <1>12 DEF Grid, D, N, place

\* The values of the digits in MeshND.
NodeSteps(size, d) == [k \in 0 .. d |-> GetNumberOfNodes(size, k)]

LEMMA NodeStepsAreBase ==
  ASSUME NEW d \in Nat, NEW size \in [0 .. d - 1 -> 1 .. 128]
  PROVE  MixedBase(size, d, NodeSteps(size, d))
  <1> DEFINE N(k) == GetNumberOfNodes(size, k)
             P == {k \in 0 .. d : N(k) # 0}
  <1>1. \A j \in 0 .. d - 1 : size[j] \in Nat /\ size[j] # 0
    <2>1. \A j \in 0 .. d - 1 : size[j] \in 1 .. 128
      OBVIOUS
    <2>2. \A x \in 1 .. 128 : x \in Nat /\ x # 0
      OBVIOUS
    <2> QED BY <2>1, <2>2
  <1>2. /\ N(0) = 1 /\ \A k \in 0 .. d : N(k) \in Nat
        /\ \A k \in 0 .. d - 1 : N(k + 1) = N(k) * size[k]
    BY <1>1, NumberOfNodesSteps
  <1> HIDE DEF N
  <1>3. 0 \in P
    BY <1>2
  <1>4. ASSUME NEW k \in 1 .. d, k - 1 \in P PROVE k \in P
    <2>1. PICK j \in 0 .. d - 1 : j = k - 1 /\ k = j + 1
      OBVIOUS
    <2>2. N(j + 1) = N(j) * size[j] /\ N(j) \in Nat /\ N(j) # 0 /\ size[j] \in Nat /\ size[j] # 0
      BY <1>1, <1>2, <1>4, <2>1
    <2>3. N(j + 1) # 0
      BY <2>2, TimesNat
    <2> QED BY <2>1, <2>3
  <1>5. \A k \in 0 .. d : N(k) \in Nat \ {0}
    <2> HIDE DEF P
    <2>1. P \in SUBSET (0 .. d)
      BY DEF P
    <2>2. P = 0 .. d
      BY <1>3, <1>4, <2>1, Induction
    <2> QED BY <1>2, <2>2 DEF P
  <1> DEFINE step == NodeSteps(size, d)
  <1>6. \A k \in 0 .. d : step[k] = N(k)
    BY DEF NodeSteps, N
  <1>7. \A k \in 0 .. d - 1 : k \in 0 .. d /\ k + 1 \in 0 .. d
    OBVIOUS
  <1>8. 0 \in 0 .. d
    OBVIOUS
  <1> HIDE DEF step
  <1>9. (\A k \in 0 .. d : step[k] \in Nat \ {0}) /\ step[0] = 1
    BY <1>2, <1>5, <1>6, <1>8
  <1>10. \A k \in 0 .. d - 1 : step[k + 1] = step[k] * size[k]
    BY <1>2, <1>6, <1>7
  <1>11. MixedBase(size, d, step)
    BY <1>9, <1>10 DEF MixedBase
  <1> QED BY <1>11 DEF step

LEMMA MeshNDIsMesh ==
  ASSUME NEW d \in Nat, NEW size \in [0 .. d - 1 -> 1 .. 128]
  PROVE  MeshOf(MeshND(size, GetNumberOfNodes(size, d)), size, d, NodeSteps(size, d))
  <1> DEFINE nodes == GetNumberOfNodes(size, d)
             t == MeshND(size, nodes)
             step == NodeSteps(size, d)
             D == 0 .. d - 1
             Line(k) == {i \in 0 .. nodes - 1 : i % GetNumberOfNodes(size, k + 1)
                                      < GetNumberOfNodes(size, k + 1) - GetNumberOfNodes(size, k)}
  <1>1. /\ t.class = "MeshND" /\ t.size = size /\ t.nodes = nodes
        /\ t.channels = MeshNDChannels(size, nodes)
        /\ t.devices = Devices(t.channels, t.nodes) /\ t.peer = Peers(t.channels)
    BY DEF MeshND, InstalledND
  <1>2. MixedBase(size, d, step)
    BY NodeStepsAreBase
  <1>3. /\ \A k \in 0 .. d : step[k] = GetNumberOfNodes(size, k)
        /\ d \in 0 .. d /\ \A k \in D : k \in 0 .. d /\ k + 1 \in 0 .. d
        /\ DOMAIN size = D
    BY DEF NodeSteps
  <1>4. TopologyNode(t) = 0 .. nodes - 1
    BY <1>1 DEF TopologyNode
  <1>5. t.channels = UNION {StepChannels(GetNumberOfNodes(size, k), k, Line(k)) : k \in D}
    BY <1>1, <1>3 DEF MeshNDChannels
  <1> HIDE DEF t, step, D, nodes
  <1>6. ASSUME NEW k \in D PROVE \A i \in TopologyNode(t) : i \in Line(k) <=> HasNext(step, i, k)
    BY <1>3, <1>4 DEF HasNext
  <1>7. ASSUME NEW k \in D PROVE Line(k) \subseteq TopologyNode(t)
    BY <1>4
  <1> HIDE DEF Line
  <1>8. \A c : c \in t.channels <=> \E k \in D : \E i \in Line(k) : c = Channel(i, i + step[k], k, 1)
    <2>1. \A k \in D : GetNumberOfNodes(size, k) = step[k]
      BY <1>3
    <2>2. \A k \in D : \A c : c \in StepChannels(step[k], k, Line(k))
                               <=> \E i \in Line(k) : c = Channel(i, i + step[k], k, 1)
      BY DEF StepChannels
    <2>3. \A c : c \in t.channels <=> \E k \in D : c \in StepChannels(step[k], k, Line(k))
      <3>1. t.channels = UNION {StepChannels(step[k], k, Line(k)) : k \in D}
        BY <1>5, <2>1
      <3> QED BY <3>1
    <2>4. ASSUME NEW c
          PROVE  c \in t.channels <=> \E k \in D : \E i \in Line(k) : c = Channel(i, i + step[k], k, 1)
      <3>1. ASSUME c \in t.channels PROVE \E k \in D : \E i \in Line(k) : c = Channel(i, i + step[k], k, 1)
        <4>1. PICK k \in D : c \in StepChannels(step[k], k, Line(k))
          BY <2>3, <3>1
        <4> QED BY <2>2, <4>1
      <3>2. ASSUME NEW k \in D, NEW i \in Line(k), c = Channel(i, i + step[k], k, 1) PROVE c \in t.channels
        <4>1. c \in StepChannels(step[k], k, Line(k))
          BY <2>2, <3>2
        <4> QED BY <2>3, <4>1
      <3> QED BY <3>1, <3>2
    <2> QED BY <2>4
  <1>9. \A n \in TopologyNode(t) : Coordinates(t, n) = Digits(size, step, n)
    BY <1>1, <1>3 DEF Coordinates, CoordinatesND, Digits
  <1>10. \A m, n \in TopologyNode(t) :
           GetDestinationRelativeDimensionalPosition(t, m, n)
             = LinePosition(Coordinates(t, m), Coordinates(t, n))
    BY <1>1 DEF GetDestinationRelativeDimensionalPosition, MeshNDPosition, Coordinates
  <1>11. ASSUME NEW c \in t.channels
         PROVE  \E n \in TopologyNode(t), dim \in D :
                  /\ c = Channel(n, n + step[dim], dim, 1)
                  /\ \E e \in D : step[e] = step[dim] /\ HasNext(step, n, e)
    <2>1. PICK k \in D : \E i \in Line(k) : c = Channel(i, i + step[k], k, 1)
      BY <1>8
    <2> QED BY <2>1, <1>6, <1>7
  <1>12. \A n \in TopologyNode(t), dim \in D :
           HasNext(step, n, dim) => Channel(n, n + step[dim], dim, 1) \in t.channels
    BY <1>6, <1>8
  <1>13. t.nodes = step[d]
    BY <1>1, <1>3 DEF nodes
  <1>14. MeshOf(t, size, d, step)
    BY <1>1, <1>2, <1>9, <1>10, <1>11, <1>12, <1>13 DEF MeshOf, D
  <1> QED BY <1>14 DEF t, step, nodes

(***************************************************************************)
(* Mesh2D and Mesh3D.                                                      *)
(***************************************************************************)
LEMMA SmallNumber ==
  ASSUME NEW a \in Nat \ {0}, NEW n \in 0 .. a - 1
  PROVE  n % a = n /\ n \div a = 0
  <1>1. a * 0 + n = n /\ 0 \in Nat
    OBVIOUS
  <1>2. (a * 0 + n) \div a = 0 /\ (a * 0 + n) % a = n
    BY DivModUnique
  <1> QED BY <1>1, <1>2

\* The last digit needs no remainder.
LEMMA LastDigit ==
  ASSUME NEW a \in Nat \ {0}, NEW b \in Nat \ {0}, NEW n \in 0 .. a * b - 1
  PROVE  n \div a \in 0 .. b - 1 /\ (n \div a) % b = n \div a
  <1> DEFINE q == n \div a
             k == a * b
  <1>1. n \in Nat /\ k \in Nat \ {0} /\ n \in 0 .. k - 1
    BY TwoDigits
  <1>2. Nested(a, b, n)
    BY <1>1, TwoDigits
  <1>3. q \in Nat /\ q \div b = n \div k
    <2>1. q \in Nat
      BY <1>1, DivMod
    <2> QED BY <2>1, <1>2 DEF Nested
  <1> HIDE DEF k, q
  <1>4. n \div k = 0
    BY <1>1, SmallNumber
  <1>5. q % b \in 0 .. b - 1 /\ q = b * (q \div b) + (q % b)
    BY <1>3, DivMod
  <1>6. q = q % b
    <2>1. q \div b = 0
      BY <1>3, <1>4
    <2>2. b * 0 = 0
      OBVIOUS
    <2> QED BY <2>1, <2>2, <1>5
  <1> QED BY <1>5, <1>6 DEF q

\* The node after this one is on the same line.
LEMMA SameLine ==
  ASSUME NEW h \in Nat \ {0}, NEW w \in Nat \ {0}, NEW n \in 0 .. h * w - 1
  PROVE  /\ n % h < h - 1 <=> (n + 1) % h # 0
         /\ n % h < h - 1 => n \in 0 .. h * w - 2
         /\ n = 0 /\ h # 1 => n % h < h - 1
  <1> DEFINE q == n \div h
             r == n % h
  <1>1. n \in Nat /\ h * w \in Nat \ {0}
    BY TwoDigits
  <1>2. r \in 0 .. h - 1 /\ q \in Nat /\ n = h * q + r
    BY <1>1, DivMod
  <1> HIDE DEF q, r
  <1>3. ASSUME r < h - 1 PROVE (n + 1) % h # 0
    <2>1. r + 1 \in 0 .. h - 1 /\ n + 1 = h * q + (r + 1)
      BY <1>2, <1>3
    <2>2. (h * q + (r + 1)) % h = r + 1
      BY <2>1, <1>2, DivModUnique
    <2>3. r + 1 # 0
      BY <1>2
    <2> QED BY <2>1, <2>2, <2>3
  <1>4. ASSUME ~(r < h - 1) PROVE (n + 1) % h = 0
    <2>1. n + 1 = h * (q + 1) + 0 /\ q + 1 \in Nat /\ 0 \in 0 .. h - 1
      BY <1>2, <1>4
    <2>2. (h * (q + 1) + 0) % h = 0
      BY <2>1, DivModUnique
    <2> QED BY <2>1, <2>2
  <1>5. ASSUME r < h - 1 PROVE n \in 0 .. h * w - 2
    <2> SUFFICES ASSUME n = h * w - 1 PROVE FALSE
      BY <1>1
    <2>1. n = h * (w - 1) + (h - 1) /\ w - 1 \in Nat /\ h - 1 \in 0 .. h - 1
      <3>1. h * (w - 1) = h * w - h
        OBVIOUS
      <3> QED BY <3>1, <1>1
    <2>2. (h * (w - 1) + (h - 1)) % h = h - 1
      BY <2>1, DivModUnique
    <2>3. r = h - 1
      BY <2>1, <2>2 DEF r
    <2> QED BY <2>3, <1>2, <1>5
  <1>6. ASSUME n = 0, h # 1 PROVE r < h - 1
    <2>1. 0 \in 0 .. h - 1
      OBVIOUS
    <2>2. 0 % h = 0
      BY <2>1, SmallNumber
    <2> QED BY <2>2, <1>6 DEF r
  <1> QED BY <1>3, <1>4, <1>5, <1>6 DEF r

\* The horizontal channels; in lines of one node the first two nodes are linked, too.
LEMMA HorizontalAre ==
  ASSUME NEW h \in Nat \ {0}, NEW w \in Nat \ {0}
  PROVE  /\ \A c \in HorizontalChannels(h, h * w) : \E n \in 0 .. h * w - 1 :
              /\ c = Channel(n, n + 1, 0, 1)
              /\ n % h < h - 1 \/ (h = 1 /\ n = 0 /\ w # 1)
         /\ \A n \in 0 .. h * w - 1 :
              n % h < h - 1 => Channel(n, n + 1, 0, 1) \in HorizontalChannels(h, h * w)
  <1> DEFINE nodes == h * w
  <1>1. nodes \in Nat \ {0}
    BY TimesNat
  <1>2. ASSUME NEW c \in HorizontalChannels(h, nodes)
        PROVE  \E n \in 0 .. nodes - 1 :
                 /\ c = Channel(n, n + 1, 0, 1)
                 /\ n % h < h - 1 \/ (h = 1 /\ n = 0 /\ w # 1)
    <2>1. PICK n \in 0 .. nodes - 2 : c = Channel(n, n + 1, 0, 1) /\ (n = 0 \/ (n + 1) % h # 0)
      BY DEF HorizontalChannels
    <2>2. n \in 0 .. nodes - 1 /\ n \in Nat
      BY <1>1, <2>1
    <2>3. CASE h = 1
      <3>1. n + 1 = h * (n + 1) + 0 /\ 0 \in 0 .. h - 1 /\ n + 1 \in Nat
        BY <2>2, <2>3
      <3>2. (n + 1) % h = 0
        BY <3>1, DivModUnique
      <3>3. n = 0
        BY <3>2, <2>1
      <3>4. w # 1
        <4> SUFFICES ASSUME w = 1 PROVE FALSE
          OBVIOUS
        <4>1. nodes = 1
          BY <2>3
        <4> HIDE DEF nodes
        <4> QED BY <4>1, <2>1
      <3> QED BY <2>1, <2>2, <2>3, <3>3, <3>4
    <2>4. CASE h # 1
      <3>1. n % h < h - 1
        BY <2>1, <2>2, <2>4, SameLine
      <3> QED BY <2>1, <2>2, <3>1
    <2> QED BY <2>3, <2>4
  <1>3. ASSUME NEW n \in 0 .. nodes - 1, n % h < h - 1
        PROVE  Channel(n, n + 1, 0, 1) \in HorizontalChannels(h, nodes)
    <2>1. n \in 0 .. nodes - 2 /\ (n + 1) % h # 0
      BY <1>3, SameLine
    <2> QED BY <2>1 DEF HorizontalChannels
  <1> QED BY <1>2, <1>3

Size2D(h, v) == [k \in 0 .. 1 |-> IF k = 0 THEN h ELSE v]
Step2D(h, v) == [k \in 0 .. 2 |-> IF k = 0 THEN 1 ELSE IF k = 1 THEN h ELSE h * v]

LEMMA Mesh2DIsMesh ==
  ASSUME NEW h \in 1 .. 128, NEW v \in 1 .. 128
  PROVE  MeshOf(Mesh2D(h, h * v), Size2D(h, v), 2, Step2D(h, v))
  <1> DEFINE nodes == h * v
             t == Mesh2D(h, nodes)
             size == Size2D(h, v)
             step == Step2D(h, v)
  <1>1. /\ t.class = "Mesh2D" /\ t.hSize = h /\ t.nodes = nodes
        /\ t.channels = HorizontalChannels(h, nodes) \cup StepChannels(h, 1, 0 .. nodes - h - 1)
        /\ t.devices = Devices(t.channels, t.nodes) /\ t.peer = Peers(t.channels)
        /\ TopologyNode(t) = 0 .. nodes - 1
    BY DEF Mesh2D, Installed2D, TopologyNode
  <1>2. h \in Nat \ {0} /\ v \in Nat \ {0} /\ nodes \in Nat \ {0}
    BY TimesNat
  <1>3. /\ size[0] = h /\ size[1] = v /\ size \in [0 .. 1 -> 1 .. 128] /\ DOMAIN size = 0 .. 1
        /\ step[0] = 1 /\ step[1] = h /\ step[2] = nodes
    BY DEF Size2D, Step2D
  <1> HIDE DEF t, size, step
  <1>4. MixedBase(size, 2, step)
    <2>1. \A k \in 0 .. 2 : k = 0 \/ k = 1 \/ k = 2
      OBVIOUS
    <2>2. \A k \in 0 .. 2 - 1 : k = 0 \/ k = 1
      OBVIOUS
    <2>3. \A k \in 0 .. 2 : step[k] \in Nat \ {0}
      BY <2>1, <1>2, <1>3
    <2>4. step[0 + 1] = step[0] * size[0] /\ step[1 + 1] = step[1] * size[1]
      BY <1>2, <1>3
    <2>5. \A k \in 0 .. 2 - 1 : step[k + 1] = step[k] * size[k]
      BY <2>2, <2>4
    <2>6. size \in [0 .. 2 - 1 -> 1 .. 128]
      BY <1>3
    <2> QED BY <2>3, <2>5, <2>6, <1>3 DEF MixedBase
  <1>5. ASSUME NEW n \in 0 .. nodes - 1
        PROVE  /\ HasNext(step, n, 0) <=> n % h < h - 1
               /\ HasNext(step, n, 1) <=> n \in 0 .. nodes - h - 1
    <2>1. HasNext(step, n, 0) <=> n % h < h - 1
      BY <1>3 DEF HasNext
    <2>2. HasNext(step, n, 1) <=> n % nodes < nodes - h
      BY <1>3 DEF HasNext
    <2> HIDE DEF nodes
    <2>3. n % nodes = n
      BY <1>2, SmallNumber
    <2> QED BY <2>1, <2>2, <2>3, <1>2
  <1>6. ASSUME NEW c \in t.channels
        PROVE  \E n \in TopologyNode(t), dim \in 0 .. 2 - 1 :
                 /\ c = Channel(n, n + step[dim], dim, 1)
                 /\ \E e \in 0 .. 2 - 1 : step[e] = step[dim] /\ HasNext(step, n, e)
    <2>0. 0 \in 0 .. 2 - 1 /\ 1 \in 0 .. 2 - 1
      OBVIOUS
    <2>1. CASE c \in HorizontalChannels(h, nodes)
      <3>1. PICK n \in 0 .. nodes - 1 :
              /\ c = Channel(n, n + 1, 0, 1)
              /\ n % h < h - 1 \/ (h = 1 /\ n = 0 /\ v # 1)
        BY <1>2, <2>1, HorizontalAre
      <3>2. \E e \in 0 .. 2 - 1 : step[e] = step[0] /\ HasNext(step, n, e)
        <4>1. CASE n % h < h - 1
          BY <4>1, <1>5, <2>0
        <4>2. CASE h = 1 /\ n = 0 /\ v # 1
          <5>1. nodes = v
            BY <4>2
          <5>2. n \in 0 .. nodes - h - 1
            <6> HIDE DEF nodes
            <6> QED BY <5>1, <4>2
          <5> QED BY <5>2, <4>2, <1>3, <1>5, <2>0
        <4> QED BY <3>1, <4>1, <4>2
      <3> QED BY <3>1, <3>2, <2>0, <1>1, <1>3
    <2>2. CASE c \in StepChannels(h, 1, 0 .. nodes - h - 1)
      <3>1. PICK n \in 0 .. nodes - h - 1 : c = Channel(n, n + h, 1, 1)
        BY <2>2 DEF StepChannels
      <3>2. n \in 0 .. nodes - 1
        <4> HIDE DEF nodes
        <4> QED BY <1>2
      <3> QED BY <3>1, <3>2, <2>0, <1>1, <1>3, <1>5
    <2> QED BY <2>1, <2>2, <1>1
  <1>7. ASSUME NEW n \in TopologyNode(t), NEW dim \in 0 .. 2 - 1, HasNext(step, n, dim)
        PROVE  Channel(n, n + step[dim], dim, 1) \in t.channels
    <2>1. n \in 0 .. nodes - 1
      BY <1>1
    <2>2. CASE dim = 0
      BY <2>1, <2>2, <1>1, <1>2, <1>3, <1>5, <1>7, HorizontalAre
    <2>3. CASE dim = 1
      <3>1. n \in 0 .. nodes - h - 1
        BY <2>1, <2>3, <1>5, <1>7
      <3> QED BY <3>1, <2>3, <1>1, <1>3 DEF StepChannels
    <2> QED BY <2>2, <2>3
  <1>8. ASSUME NEW n \in TopologyNode(t) PROVE Coordinates(t, n) = Digits(size, step, n)
    <2>1. n \in Nat /\ n \in 0 .. nodes - 1
      BY <1>1, <1>2
    <2>2. n % h \in 0 .. 127 /\ (n \div 1) % h = n % h
      <3>1. n % h \in 0 .. h - 1
        BY <1>2, <2>1, DivMod
      <3>2. n % h \in 0 .. 127
        BY <3>1
      <3>3. n \div 1 = n
        BY <2>1
      <3> QED BY <3>2, <3>3
    <2>3. n \div h \in 0 .. 127 /\ (n \div h) % v = n \div h
      <3>1. n \div h \in 0 .. v - 1 /\ (n \div h) % v = n \div h
        BY <1>2, <2>1, LastDigit
      <3> QED BY <3>1
    <2>4. Coordinates(t, n) = [dim \in {0, 1} |-> ToByte(IF dim = 0 THEN n % h ELSE n \div h)]
      BY <1>1 DEF Coordinates, Coordinates2D
    <2>5. \A x \in 0 .. 127 : ToByte(x) = x
      BY DEF ToByte
    <2>6. Digits(size, step, n) = [k \in {0, 1} |-> (n \div step[k]) % size[k]]
      <3>1. DOMAIN size = {0, 1}
        BY <1>3
      <3> QED BY <3>1 DEF Digits
    <2>7. \A k \in {0, 1} :
            ToByte(IF k = 0 THEN n % h ELSE n \div h) = (n \div step[k]) % size[k]
      BY <2>2, <2>3, <2>5, <1>3
    <2> QED BY <2>4, <2>6, <2>7
  <1>9. \A m, n \in TopologyNode(t) :
          GetDestinationRelativeDimensionalPosition(t, m, n)
            = LinePosition(Coordinates(t, m), Coordinates(t, n))
    BY <1>1 DEF GetDestinationRelativeDimensionalPosition, Mesh2DPosition, Coordinates
  <1>10. MeshOf(t, size, 2, step)
    BY <1>1, <1>3, <1>4, <1>6, <1>7, <1>8, <1>9 DEF MeshOf
  <1> QED BY <1>10 DEF t, size, step

Size3D(h, v, w) == [k \in 0 .. 2 |-> IF k = 0 THEN h ELSE IF k = 1 THEN v ELSE w]
Step3D(h, v, w) ==
  [k \in 0 .. 3 |-> IF k = 0 THEN 1 ELSE IF k = 1 THEN h ELSE IF k = 2 THEN h * v ELSE (h * v) * w]

LEMMA Mesh3DIsMesh ==
  ASSUME NEW h \in 1 .. 128, NEW v \in 1 .. 128, NEW w \in 1 .. 128
  PROVE  MeshOf(Mesh3D(h, v, (h * v) * w), Size3D(h, v, w), 3, Step3D(h, v, w))
  <1> DEFINE layer == h * v
             nodes == layer * w
             t == Mesh3D(h, v, nodes)
             size == Size3D(h, v, w)
             step == Step3D(h, v, w)
             Line == {i \in 0 .. nodes - 1 : i % layer < layer - h}
  <1>1. /\ t.class = "Mesh3D" /\ t.hSize = h /\ t.vSize = v /\ t.nodes = nodes
        /\ t.channels = HorizontalChannels(h, nodes) \cup StepChannels(h, 1, Line)
                          \cup StepChannels(layer, 2, 0 .. nodes - layer - 1)
        /\ t.devices = Devices(t.channels, t.nodes) /\ t.peer = Peers(t.channels)
        /\ TopologyNode(t) = 0 .. nodes - 1
    BY DEF Mesh3D, Installed3D, TopologyNode, LayerChannels, Mesh3DUpChannels
  <1>2. h \in Nat \ {0} /\ v \in Nat \ {0} /\ w \in Nat \ {0} /\ layer \in Nat \ {0}
    BY TimesNat
  <1>3. /\ size[0] = h /\ size[1] = v /\ size[2] = w
        /\ size \in [0 .. 2 -> 1 .. 128] /\ DOMAIN size = 0 .. 2
        /\ step[0] = 1 /\ step[1] = h /\ step[2] = layer /\ step[3] = nodes
    BY DEF Size3D, Step3D
  <1>4. layer = h * v
    OBVIOUS
  <1> HIDE DEF t, size, step
  <1>5. v * w \in Nat \ {0} /\ nodes = h * (v * w)
    BY <1>2, TimesNat
  <1> HIDE DEF layer
  <1>6. nodes \in Nat \ {0} /\ nodes = layer * w
    BY <1>2, TimesNat
  <1> HIDE DEF nodes
  <1>7. MixedBase(size, 3, step)
    <2>1. \A k \in 0 .. 3 : k = 0 \/ k = 1 \/ k = 2 \/ k = 3
      OBVIOUS
    <2>2. \A k \in 0 .. 3 - 1 : k = 0 \/ k = 1 \/ k = 2
      OBVIOUS
    <2>3. \A k \in 0 .. 3 : step[k] \in Nat \ {0}
      BY <2>1, <1>2, <1>3, <1>6
    <2>4. step[0 + 1] = step[0] * size[0] /\ step[1 + 1] = step[1] * size[1]
            /\ step[2 + 1] = step[2] * size[2]
      BY <1>2, <1>3, <1>4, <1>6
    <2>5. \A k \in 0 .. 3 - 1 : step[k + 1] = step[k] * size[k]
      BY <2>2, <2>4
    <2>6. size \in [0 .. 3 - 1 -> 1 .. 128]
      BY <1>3
    <2> QED BY <2>3, <2>5, <2>6, <1>3 DEF MixedBase
  <1>8. ASSUME NEW n \in 0 .. nodes - 1
        PROVE  /\ HasNext(step, n, 0) <=> n % h < h - 1
               /\ HasNext(step, n, 1) <=> n \in Line
               /\ HasNext(step, n, 2) <=> n \in 0 .. nodes - layer - 1
    <2>1. HasNext(step, n, 0) <=> n % h < h - 1
      BY <1>3 DEF HasNext
    <2>2. HasNext(step, n, 1) <=> n \in Line
      BY <1>3 DEF HasNext
    <2>3. HasNext(step, n, 2) <=> n % nodes < nodes - layer
      BY <1>3 DEF HasNext
    <2>4. n % nodes = n
      BY <1>6, SmallNumber
    <2> QED BY <2>1, <2>2, <2>3, <2>4, <1>2, <1>6
  <1>9. ASSUME NEW c \in t.channels
        PROVE  \E n \in TopologyNode(t), dim \in 0 .. 3 - 1 :
                 /\ c = Channel(n, n + step[dim], dim, 1)
                 /\ \E e \in 0 .. 3 - 1 : step[e] = step[dim] /\ HasNext(step, n, e)
    <2>0. 0 \in 0 .. 3 - 1 /\ 1 \in 0 .. 3 - 1 /\ 2 \in 0 .. 3 - 1
      OBVIOUS
    <2>1. CASE c \in HorizontalChannels(h, nodes)
      <3>1. PICK n \in 0 .. nodes - 1 :
              /\ c = Channel(n, n + 1, 0, 1)
              /\ n % h < h - 1 \/ (h = 1 /\ n = 0 /\ v * w # 1)
        BY <1>2, <1>5, <2>1, HorizontalAre
      <3>2. \E e \in 0 .. 3 - 1 : step[e] = step[0] /\ HasNext(step, n, e)
        <4>1. CASE n % h < h - 1
          BY <4>1, <1>8, <2>0
        <4>2. CASE h = 1 /\ n = 0 /\ v # 1
          <5>1. layer = v
            BY <4>2, <1>4
          <5>2. 0 \in 0 .. layer - 1 /\ 0 % layer = 0
            BY <1>2, SmallNumber
          <5>3. n \in Line
            BY <5>1, <5>2, <4>2, <1>2
          <5> QED BY <5>3, <4>2, <1>3, <1>8, <2>0
        <4>3. CASE h = 1 /\ n = 0 /\ v = 1 /\ w # 1
          <5>1. layer = 1
            BY <4>3, <1>4
          <5>2. nodes = w
            BY <5>1, <1>6
          <5>3. n \in 0 .. nodes - layer - 1
            BY <5>1, <5>2, <4>3
          <5> QED BY <5>1, <5>3, <1>3, <1>8, <2>0
        <4>4. v = 1 /\ w = 1 => v * w = 1
          OBVIOUS
        <4> QED BY <3>1, <4>1, <4>2, <4>3, <4>4
      <3> QED BY <3>1, <3>2, <2>0, <1>1, <1>3
    <2>2. CASE c \in StepChannels(h, 1, Line)
      <3>1. PICK n \in Line : c = Channel(n, n + h, 1, 1)
        BY <2>2 DEF StepChannels
      <3>2. n \in 0 .. nodes - 1
        OBVIOUS
      <3>3. HasNext(step, n, 1)
        BY <3>1, <3>2, <1>8
      <3> HIDE DEF Line
      <3> QED BY <3>1, <3>2, <3>3, <2>0, <1>1, <1>3
    <2>3. CASE c \in StepChannels(layer, 2, 0 .. nodes - layer - 1)
      <3>1. PICK n \in 0 .. nodes - layer - 1 : c = Channel(n, n + layer, 2, 1)
        BY <2>3 DEF StepChannels
      <3>2. n \in 0 .. nodes - 1
        BY <1>2, <1>6
      <3> QED BY <3>1, <3>2, <2>0, <1>1, <1>3, <1>8
    <2> QED BY <2>1, <2>2, <2>3, <1>1
  <1>10. ASSUME NEW n \in TopologyNode(t), NEW dim \in 0 .. 3 - 1, HasNext(step, n, dim)
         PROVE  Channel(n, n + step[dim], dim, 1) \in t.channels
    <2>1. n \in 0 .. nodes - 1
      BY <1>1
    <2>2. CASE dim = 0
      <3>1. n \in 0 .. h * (v * w) - 1 /\ n % h < h - 1
        BY <2>1, <2>2, <1>5, <1>8, <1>10
      <3>2. Channel(n, n + 1, 0, 1) \in HorizontalChannels(h, nodes)
        BY <3>1, <1>2, <1>5, HorizontalAre
      <3> QED BY <3>2, <2>2, <1>1, <1>3
    <2>3. CASE dim = 1
      <3>1. n \in Line
        BY <2>1, <2>3, <1>8, <1>10
      <3> HIDE DEF Line
      <3> QED BY <3>1, <2>3, <1>1, <1>3 DEF StepChannels
    <2>4. CASE dim = 2
      <3>1. n \in 0 .. nodes - layer - 1
        BY <2>1, <2>4, <1>8, <1>10
      <3> QED BY <3>1, <2>4, <1>1, <1>3 DEF StepChannels
    <2> QED BY <2>2, <2>3, <2>4
  <1>11. ASSUME NEW n \in TopologyNode(t) PROVE Coordinates(t, n) = Digits(size, step, n)
    <2>1. n \in Nat /\ n \in 0 .. nodes - 1
      BY <1>1, <1>6
    <2>2. n % h \in 0 .. 127 /\ (n \div 1) % h = n % h
      <3>1. n % h \in 0 .. h - 1
        BY <1>2, <2>1, DivMod
      <3>2. n % h \in 0 .. 127
        BY <3>1
      <3>3. n \div 1 = n
        BY <2>1
      <3> QED BY <3>2, <3>3
    <2>3. (n % layer) \div h = (n \div h) % v /\ (n % layer) \div h \in 0 .. 127
      <3>1. (n % (h * v)) \div h = (n \div h) % v
        BY <1>2, <2>1, TwoDigits
      <3>2. n \div h \in Nat
        BY <1>2, <2>1, DivMod
      <3>3. (n \div h) % v \in 0 .. v - 1
        BY <1>2, <3>2, DivMod
      <3>4. (n \div h) % v \in 0 .. 127
        BY <3>3
      <3> QED BY <3>1, <3>4 DEF layer
    <2>4. n \div layer \in 0 .. 127 /\ (n \div layer) % w = n \div layer
      <3>1. n \div layer \in 0 .. w - 1 /\ (n \div layer) % w = n \div layer
        BY <1>2, <1>6, <2>1, LastDigit
      <3> QED BY <3>1
    <2>5. Coordinates(t, n) =
            [dim \in 0 .. 2 |-> ToByte(CASE dim = 0 -> n % h
                                         [] dim = 1 -> (n % layer) \div h
                                         [] dim = 2 -> n \div layer)]
      BY <1>1 DEF Coordinates, Coordinates3D, layer
    <2>6. \A x \in 0 .. 127 : ToByte(x) = x
      BY DEF ToByte
    <2>7. Digits(size, step, n) = [k \in 0 .. 2 |-> (n \div step[k]) % size[k]]
      BY <1>3 DEF Digits
    <2>8. ASSUME NEW k \in 0 .. 2
          PROVE  ToByte(CASE k = 0 -> n % h [] k = 1 -> (n % layer) \div h [] k = 2 -> n \div layer)
                   = (n \div step[k]) % size[k]
      <3>1. CASE k = 0
        BY <3>1, <2>2, <2>6, <1>3
      <3>2. CASE k = 1
        BY <3>2, <2>3, <2>6, <1>3
      <3>3. CASE k = 2
        BY <3>3, <2>4, <2>6, <1>3
      <3> QED BY <3>1, <3>2, <3>3
    <2> QED BY <2>5, <2>7, <2>8
  <1>12. \A m, n \in TopologyNode(t) :
           GetDestinationRelativeDimensionalPosition(t, m, n)
             = LinePosition(Coordinates(t, m), Coordinates(t, n))
    BY <1>1 DEF GetDestinationRelativeDimensionalPosition, Mesh3DPosition, Coordinates
  <1>13. MeshOf(t, size, 3, step)
    BY <1>1, <1>3, <1>7, <1>9, <1>10, <1>11, <1>12 DEF MeshOf
  <1> QED BY <1>13 DEF t, size, step, nodes, layer

(***************************************************************************)
(* Meshes are grids.                                                       *)
(***************************************************************************)
LEMMA OrderOfTwo ==
  ASSUME NEW a \in 0 .. 1, NEW b \in 0 .. 1, a # b
  PROVE  IsOrder(<<a, b>>, 0 .. 1)
  <1> DEFINE order == <<a, b>>
  <1>1. order \in Seq(0 .. 1) /\ Len(order) = 2 /\ order[1] = a /\ order[2] = b
    OBVIOUS
  <1> HIDE DEF order
  <1>2. \A i \in 1 .. Len(order) : i = 1 \/ i = 2
    BY <1>1
  <1>3. 1 \in 1 .. Len(order) /\ 2 \in 1 .. Len(order)
    BY <1>1
  <1>4. \A dim \in 0 .. 1 : dim = a \/ dim = b
    OBVIOUS
  <1>5. IsOrder(order, 0 .. 1)
    BY <1>1, <1>2, <1>3, <1>4 DEF IsOrder
  <1> QED BY <1>5 DEF order

LEMMA OrderOfThree ==
  ASSUME NEW a \in 0 .. 2, NEW b \in 0 .. 2, NEW c \in 0 .. 2, a # b, b # c, a # c
  PROVE  IsOrder(<<a, b, c>>, 0 .. 2)
  <1> DEFINE order == <<a, b, c>>
  <1>1. order \in Seq(0 .. 2) /\ Len(order) = 3 /\ order[1] = a /\ order[2] = b /\ order[3] = c
    OBVIOUS
  <1> HIDE DEF order
  <1>2. \A i \in 1 .. Len(order) : i = 1 \/ i = 2 \/ i = 3
    BY <1>1
  <1>3. 1 \in 1 .. Len(order) /\ 2 \in 1 .. Len(order) /\ 3 \in 1 .. Len(order)
    BY <1>1
  <1>4. \A dim \in 0 .. 2 : dim = a \/ dim = b \/ dim = c
    OBVIOUS
  <1>5. IsOrder(order, 0 .. 2)
    BY <1>1, <1>2, <1>3, <1>4 DEF IsOrder
  <1> QED BY <1>5 DEF order

LEMMA MeshesAreGrids == ASSUME NEW n, DimensionOrderMesh(n) PROVE OnOrderedGrid(n)
  <1>1. n.router = "FourWayRouter"
    BY DEF DimensionOrderMesh
  <1>2. CASE XyMesh(n)
    <2>1. PICK h \in 1 .. 128, v \in 1 .. 128 : n.topology = Mesh2D(h, h * v)
      BY <1>2 DEF XyMesh, MeshSize
    <2> DEFINE size == Size2D(h, v)
               step == Step2D(h, v)
    <2>2. Grid(n.topology, size, step, Places(n.topology, size, step))
      BY <2>1, Mesh2DIsMesh, MeshIsGrid
    <2>3. DOMAIN size = 0 .. 1
      BY DEF Size2D
    <2>4. n.protocol = "XyRouting" /\ n.routeXFirst \in BOOLEAN /\ DimensionOrder(n) = XyOrder(n)
      BY <1>2 DEF XyMesh, DimensionOrder
    <2>5. IsOrder(XyOrder(n), 0 .. 1)
      <3>1. IsOrder(<<0, 1>>, 0 .. 1) /\ IsOrder(<<1, 0>>, 0 .. 1)
        BY OrderOfTwo
      <3> QED BY <3>1, <2>4 DEF XyOrder
    <2> HIDE DEF size, step
    <2>6. OrderedGrid(n, size, step, Places(n.topology, size, step), XyOrder(n))
      BY <1>1, <2>2, <2>3, <2>4, <2>5 DEF OrderedGrid
    <2> QED BY <2>6 DEF OnOrderedGrid
  <1>3. CASE XyzMesh(n)
    <2>1. PICK h \in 1 .. 128, v \in 1 .. 128, w \in 1 .. 128 : n.topology = Mesh3D(h, v, (h * v) * w)
      BY <1>3 DEF XyzMesh, MeshSize
    <2> DEFINE size == Size3D(h, v, w)
               step == Step3D(h, v, w)
    <2>2. Grid(n.topology, size, step, Places(n.topology, size, step))
      BY <2>1, Mesh3DIsMesh, MeshIsGrid
    <2>3. DOMAIN size = 0 .. 2
      BY DEF Size3D
    <2>4. /\ n.protocol = "XyzRouting" /\ DimensionOrder(n) = XyzOrder(n)
          /\ n.routeXFirst \in BOOLEAN /\ n.routeXSecond \in BOOLEAN
          /\ n.routeYFirst \in BOOLEAN /\ n.routeYSecond \in BOOLEAN
      BY <1>3 DEF XyzMesh, DimensionOrder
    <2>5. IsOrder(XyzOrder(n), 0 .. 2)
      <3>1. IsOrder(<<0, 1, 2>>, 0 .. 2) /\ IsOrder(<<0, 2, 1>>, 0 .. 2)
        BY OrderOfThree
      <3>2. IsOrder(<<1, 0, 2>>, 0 .. 2) /\ IsOrder(<<1, 2, 0>>, 0 .. 2)
        BY OrderOfThree
      <3>3. IsOrder(<<2, 0, 1>>, 0 .. 2) /\ IsOrder(<<2, 1, 0>>, 0 .. 2)
        BY OrderOfThree
      <3>4. XyzOrder(n) \in {<<0, 1, 2>>, <<0, 2, 1>>, <<1, 0, 2>>, <<1, 2, 0>>, <<2, 0, 1>>, <<2, 1, 0>>}
        <4>1. XyzXFirstOrder(n) \in {<<0, 1, 2>>, <<0, 2, 1>>}
          BY <2>4 DEF XyzXFirstOrder
        <4>2. XyzYFirstOrder(n) \in {<<1, 0, 2>>, <<1, 2, 0>>}
          BY <2>4 DEF XyzYFirstOrder
        <4>3. XyzZFirstOrder(n) \in {<<2, 0, 1>>, <<2, 1, 0>>}
          BY <2>4 DEF XyzZFirstOrder
        <4>4. XyzOrder(n) \in {XyzXFirstOrder(n), XyzYFirstOrder(n), XyzZFirstOrder(n)}
          BY <2>4 DEF XyzOrder
        <4> QED BY <4>1, <4>2, <4>3, <4>4
      <3> QED BY <3>1, <3>2, <3>3, <3>4
    <2> HIDE DEF size, step
    <2>6. OrderedGrid(n, size, step, Places(n.topology, size, step), XyzOrder(n))
      BY <1>1, <2>2, <2>3, <2>4, <2>5 DEF OrderedGrid
    <2> QED BY <2>6 DEF OnOrderedGrid
  <1>4. CASE DorMesh(n)
    <2> DEFINE d == Len(n.routingOrder)
               size == n.topology.size
    <2>1. d \in Nat /\ IsOrder(n.routingOrder, 0 .. d - 1)
      <3>1. IsOrder(n.routingOrder, 0 .. d - 1)
        BY <1>4 DEF DorMesh
      <3>2. n.routingOrder \in Seq(0 .. d - 1)
        BY <3>1 DEF IsOrder
      <3> HIDE DEF d
      <3>3. Len(n.routingOrder) \in Nat
        BY <3>2
      <3> QED BY <3>1, <3>3 DEF d
    <2>2. size \in [0 .. d - 1 -> 1 .. 128] /\ n.topology = MeshND(size, GetNumberOfNodes(size, d))
      BY <1>4 DEF DorMesh, MeshSize
    <2> HIDE DEF d, size
    <2> DEFINE step == NodeSteps(size, d)
    <2>3. Grid(n.topology, size, step, Places(n.topology, size, step))
      BY <2>1, <2>2, MeshNDIsMesh, MeshIsGrid
    <2>4. DOMAIN size = 0 .. d - 1 /\ n.protocol = "DorRouting" /\ DimensionOrder(n) = n.routingOrder
      BY <1>4, <2>2 DEF DorMesh, DimensionOrder
    <2> HIDE DEF step
    <2>5. OrderedGrid(n, size, step, Places(n.topology, size, step), n.routingOrder)
      BY <1>1, <2>1, <2>3, <2>4 DEF OrderedGrid
    <2> QED BY <2>5 DEF OnOrderedGrid
  <1> QED BY <1>2, <1>3, <1>4 DEF DimensionOrderMesh

\* A mesh with the order of dimensions that the attributes of its protocol ask for.
MeshWithOrder(n) == DimensionOrderMesh(n) /\ n.dimensionOrder = DimensionOrder(n)

LEMMA MeshWalks == WalkSpec /\ MeshWithOrder(noc) => []WalkInv
  <1>1. MeshWithOrder(noc) => OnOrderedGrid(noc) /\ noc.dimensionOrder = DimensionOrder(noc)
    BY MeshesAreGrids DEF MeshWithOrder
  <1> QED BY <1>1, Walks, PTL

(***************************************************************************)
(* The theorems.                                                           *)
(***************************************************************************)

\* The flit stays in the network, and its header is made of bytes: SetOffset takes one
\* hop off an offset that is not 0.
THEOREM WalkKeepsTypes == WalkSpec /\ MeshWithOrder(noc) => []WalkTypeOK
  <1>1. WalkInv => WalkTypeOK
    BY WalkInvTypes
  <1> QED BY <1>1, MeshWalks, PTL

\* XyRouting, XyzRouting and DorRouting find a route until the flit has arrived: the
\* router has an output device in the direction that the header asks for, and the
\* destination an input device that fits.
THEOREM MeshRouteIsFound == WalkSpec /\ MeshWithOrder(noc) => []RouteIsFound
  <1>1. WalkInv => RouteIsFound
    BY WalkInvTypes
  <1> QED BY <1>1, MeshWalks, PTL

\* What GetDestinationRelativeDimensionalPosition computes from the numbers of the nodes,
\* and RequestNewRoute uses up, is the length of the shortest way through the channels
\* that Install has created.
THEOREM MeshHeaderTellsDistance == WalkSpec /\ MeshWithOrder(noc) => []HeaderTellsDistance
  <1>1. WalkInv => HeaderTellsDistance
    BY WalkInvDistances
  <1> QED BY <1>1, MeshWalks, PTL

\* A flit is received by its destination and nowhere else, after as many hops as the
\* shortest way through the channels has.
THEOREM MeshTakesShortestRoute == WalkSpec /\ MeshWithOrder(noc) => []TakesShortestRoute
  <1>1. WalkInv => TakesShortestRoute
    BY WalkInvDistances
  <1> QED BY <1>1, MeshWalks, PTL

\* A flit never returns to a dimension that comes earlier in the order the attributes of
\* the protocol ask for.
THEOREM MeshDimensionsInOrder == WalkSpec /\ MeshWithOrder(noc) => DimensionsInOrder
  <1>1. WalkInv /\ [Hop]_walkVars => RanksRise
    BY HopInOrder
  <1>2. WalkInv /\ [Hop]_walkVars => [RanksRise]_walkVars
    BY <1>1
  <1> QED BY <1>2, MeshWalks, PTL DEF WalkSpec, DimensionsInOrder, RanksRise

------------------------------------------------------------------------------
(***************************************************************************)
(* Many flits: dimension order routing leads to the destination.  Where a  *)
(* head flit may be, how far it has to go, and the order of the channels:  *)
(* those of a dimension come after those of the dimensions before it.      *)
(***************************************************************************)
Place == [n \in MeshNode |-> Coordinates(Mesh, n)]
Order == DimensionOrder(Network)

\* A head that came over a channel came in the dimension of the device; it does not
\* turn back, nor return to an earlier dimension.
KeepsTurns(h, d) ==
  d \in MeshNetDevice =>
    /\ Place[MeshPeer[d][1]][d[3]] # Place[d[1]][d[3]]
    /\ GetOffset(h, d[3]) # 0 => (HasForwardDirection(h, d[3]) <=> d[2] = "BACK")
    /\ DoneBefore(Order, h, d[3])

MeshWay ==
  {w \in [device : MeshDevice, to : MeshNode, header : MeshHeader] :
     /\ w.device[1] # w.to
     /\ Points(w.header, Place[w.device[1]], Place[w.to])
     /\ KeepsTurns(w.header, w.device)}

MeshDistance == [n \in MeshNode |-> [t \in MeshNode |-> Manhattan(Place, n, t)]]

\* In its dimension a channel comes after the one before it in its direction.
Along(d) == LET c == Place[d[1]][d[3]]
            IN IF d[2] = "FORWARD" THEN c ELSE 128 - c
MeshRank == [d \in MeshNetDevice |-> 129 * RankOf(Order, d[3]) + Along(d)]
HighestRank == 129 * (Len(Order) + 1)

(***************************************************************************)
(* The mesh is a grid; some sizes and steps fit.                           *)
(***************************************************************************)
SizeAndStep == CHOOSE w : \E size, step : w = <<size, step>> /\ OrderedGrid(Network, size, step, Place, Order)
MeshSizes == SizeAndStep[1]
MeshStep == SizeAndStep[2]
Dimension == DOMAIN MeshSizes

LEMMA MeshGrid ==
  /\ OrderedGrid(Network, MeshSizes, MeshStep, Place, Order)
  /\ Grid(Mesh, MeshSizes, MeshStep, Place) /\ Grid(Network.topology, MeshSizes, MeshStep, Place)
  /\ Network.router = "FourWayRouter" /\ IsOrder(Order, Dimension)
  <1>1. OnOrderedGrid(Network)
    BY MeshAssumption, MeshesAreGrids
  <1>2. PICK size, step, place, order : OrderedGrid(Network, size, step, place, order)
    BY <1>1 DEF OnOrderedGrid
  <1>3. order = Order
    BY <1>2 DEF OrderedGrid, Order
  <1>4. Grid(Mesh, size, step, place)
    BY <1>2 DEF OrderedGrid, Mesh
  <1>5. /\ place \in [MeshNode -> [DOMAIN size -> 0 .. 127]]
        /\ \A n \in MeshNode : Coordinates(Mesh, n) = place[n]
    BY <1>4 DEF Grid, MeshNode
  <1>6. Place = place
    BY <1>5 DEF Place
  <1>7. OrderedGrid(Network, size, step, Place, Order)
    BY <1>2, <1>3, <1>6
  <1>8. \E x, y : SizeAndStep = <<x, y>> /\ OrderedGrid(Network, x, y, Place, Order)
    BY <1>7 DEF SizeAndStep
  <1>9. OrderedGrid(Network, MeshSizes, MeshStep, Place, Order)
    BY <1>8 DEF MeshSizes, MeshStep
  <1> QED BY <1>9 DEF OrderedGrid, Mesh, Dimension

LEMMA MeshPlaces ==
  /\ IsFiniteSet(Dimension) /\ MeshNode = TopologyNode(Mesh) /\ MeshNode \subseteq Nat
  /\ \A n \in MeshNode : Place[n] \in [Dimension -> 0 .. 127] /\ DOMAIN Place[n] = Dimension
  /\ \A n \in MeshNode : MeshDimension = Dimension /\ Coordinates(Mesh, n) = Place[n]
  <1>1. MeshNode = TopologyNode(Mesh)
    BY DEF MeshNode
  <1>2. IsFiniteSet(Dimension) /\ MeshNode \subseteq Nat
        /\ \A n \in MeshNode : Place[n] \in [Dimension -> 0 .. 127] /\ DOMAIN Place[n] = Dimension
    BY <1>1, MeshGrid, GridTypes DEF Dimension
  <1>3. ASSUME NEW n \in MeshNode PROVE MeshDimension = Dimension /\ Coordinates(Mesh, n) = Place[n]
    <2>1. Mesh.nodes \in Nat
      BY MeshGrid DEF Grid
    <2>2. 0 \in MeshNode
      BY <1>1, <2>1 DEF TopologyNode
    <2>3. Coordinates(Mesh, 0) = Place[0]
      BY <2>2 DEF Place
    <2> QED BY <2>2, <2>3, <1>2 DEF MeshDimension, Place
  <1> QED BY <1>1, <1>2, <1>3

\* The two devices of a channel.
Ends(d, e, m, n, dim) ==
  \/ d = <<m, "FORWARD", dim, 1>> /\ e = <<n, "BACK", dim, 1>>
  \/ d = <<n, "BACK", dim, 1>> /\ e = <<m, "FORWARD", dim, 1>>

LEMMA MeshEnds ==
  ASSUME NEW d \in MeshNetDevice
  PROVE  /\ MeshPeer[d] \in MeshNetDevice /\ MeshPeer[MeshPeer[d]] = d /\ MeshPeer[d] # d
         /\ d[1] \in MeshNode /\ d[2] \in {"FORWARD", "BACK"} /\ d[3] \in Dimension
         /\ \E m, n \in MeshNode :
              /\ Ends(d, MeshPeer[d], m, n, d[3])
              /\ \E e \in Dimension : Place[n] = Plus(Place[m], e)
  <1>1. NetDevices(Mesh) = NetDevicesOf(Mesh.channels)
    BY MeshGrid DEF Grid, NetDevices, Peers
  <1>2. PICK c \in Mesh.channels : d = ForwardDevice(c) \/ d = BackDevice(c)
    BY <1>1 DEF MeshNetDevice, NetDevicesOf
  <1>3. /\ c = Channel(c.forward, c.forward + MeshStep[c.dim], c.dim, 1)
        /\ c.forward \in MeshNode /\ c.back \in MeshNode /\ c.dim \in Dimension
        /\ ForwardDevice(c) \in MeshNetDevice /\ BackDevice(c) \in MeshNetDevice
        /\ MeshPeer[ForwardDevice(c)] = BackDevice(c)
        /\ MeshPeer[BackDevice(c)] = ForwardDevice(c)
    BY MeshGrid, GridPeers DEF MeshNode, MeshNetDevice, MeshPeer, Dimension
  <1>4. c.number = 1
    BY <1>3 DEF Channel
  <1>5. ForwardDevice(c) = <<c.forward, "FORWARD", c.dim, 1>> /\ BackDevice(c) = <<c.back, "BACK", c.dim, 1>>
    BY <1>4 DEF ForwardDevice, BackDevice
  <1>6. \E e \in Dimension : Place[c.back] = Plus(Place[c.forward], e)
    BY MeshGrid, ChannelEnds DEF Dimension
  <1>7. Ends(d, MeshPeer[d], c.forward, c.back, d[3])
    BY <1>2, <1>3, <1>5 DEF Ends
  <1>8. /\ MeshPeer[d] \in MeshNetDevice /\ MeshPeer[MeshPeer[d]] = d /\ MeshPeer[d] # d
        /\ d[1] \in MeshNode /\ d[2] \in {"FORWARD", "BACK"} /\ d[3] \in Dimension
    BY <1>2, <1>3, <1>5
  <1> QED BY <1>3, <1>6, <1>7, <1>8

LEMMA MeshDevices ==
  /\ \A d \in MeshDevice : d[1] \in MeshNode
  /\ \A n \in MeshNode : MeshInjectionDevice[n] \in MeshDevice \ MeshNetDevice /\ MeshInjectionDevice[n][1] = n
  /\ InternalInputDevices(Network) = {MeshInjectionDevice[n] : n \in MeshNode}
  <1>1. InternalInputDevices(Network) = {MeshInjectionDevice[n] : n \in MeshNode}
    BY MeshGrid DEF InternalInputDevices, MeshInjectionDevice, MeshNode, Mesh
  <1>2. ASSUME NEW n \in MeshNode
        PROVE  MeshInjectionDevice[n] \in MeshDevice \ MeshNetDevice /\ MeshInjectionDevice[n][1] = n
    <2>1. MeshInjectionDevice[n] = InternalInputDevice(n, FourWay)
      BY DEF MeshInjectionDevice
    <2>2. \A d \in MeshNetDevice : d[2] # "NONE"
      BY MeshEnds
    <2> QED BY <1>1, <2>1, <2>2 DEF MeshDevice, InternalInputDevice
  <1>3. ASSUME NEW d \in MeshDevice PROVE d[1] \in MeshNode
    BY <1>1, <1>2, MeshEnds DEF MeshDevice
  <1> QED BY <1>1, <1>2, <1>3

(***************************************************************************)
(* Headers of the mesh: an offset that is no longer than a coordinate.     *)
(***************************************************************************)
LEMMA OffsetsOnMesh ==
  /\ \A o \in MeshOffset : o \in 0 .. 127 /\ 0 .. o \subseteq MeshOffset
  /\ \A n \in MeshNode, dim \in Dimension : 0 .. Place[n][dim] \subseteq MeshOffset
  <1>1. ASSUME NEW o \in MeshOffset, NEW x \in 0 .. o PROVE o \in 0 .. 127 /\ x \in MeshOffset
    <2>1. o \in 0 .. 127 /\ x \in 0 .. 127
      BY DEF MeshOffset
    <2>2. PICK n \in MeshNode, dim \in MeshDimension : o <= Coordinates(Mesh, n)[dim]
      BY DEF MeshOffset
    <2>3. Coordinates(Mesh, n)[dim] \in 0 .. 127
      BY <2>2, MeshPlaces
    <2>4. x <= Coordinates(Mesh, n)[dim]
      <3> DEFINE c == Coordinates(Mesh, n)[dim]
      <3>1. o <= c /\ c \in 0 .. 127 /\ o \in 0 .. 127
        BY <2>1, <2>2, <2>3
      <3> HIDE DEF c
      <3>2. x <= c
        BY <3>1
      <3> QED BY <3>2 DEF c
    <2> QED BY <2>1, <2>4 DEF MeshOffset
  <1>2. ASSUME NEW n \in MeshNode, NEW dim \in Dimension, NEW x \in 0 .. Place[n][dim] PROVE x \in MeshOffset
    <2>1. Place[n][dim] \in 0 .. 127 /\ Coordinates(Mesh, n) = Place[n] /\ dim \in MeshDimension
      BY MeshPlaces
    <2>2. x \in 0 .. 127 /\ x <= Coordinates(Mesh, n)[dim]
      <3> DEFINE c == Place[n][dim]
      <3>1. c \in 0 .. 127 /\ x \in 0 .. c /\ Coordinates(Mesh, n)[dim] = c
        BY <2>1
      <3> HIDE DEF c
      <3>2. x \in 0 .. 127 /\ x <= c
        BY <3>1
      <3> QED BY <3>1, <3>2
    <2> QED BY <2>1, <2>2 DEF MeshOffset
  <1>3. \A o \in MeshOffset : o \in 0 .. 127
    BY DEF MeshOffset
  <1> QED BY <1>1, <1>2, <1>3

MeshByte == MeshOffset \cup {WithDirectionBit(o) : o \in MeshOffset}

LEMMA HeaderShape ==
  /\ MeshByte = MeshOffset \cup {128 + o : o \in MeshOffset} /\ MeshByte \subseteq Byte /\ MeshOffset \subseteq Byte
  /\ MeshHeader = [distance : [MeshDimension -> MeshByte], source : [MeshDimension -> MeshOffset]]
  <1>1. \A o \in MeshOffset : WithDirectionBit(o) = 128 + o
    BY OffsetsOnMesh DEF WithDirectionBit
  <1>2. MeshByte = MeshOffset \cup {128 + o : o \in MeshOffset}
    BY <1>1 DEF MeshByte
  <1>3. MeshByte \subseteq Byte /\ MeshOffset \subseteq Byte
    BY <1>2, OffsetsOnMesh DEF Byte
  <1> QED BY <1>2, <1>3 DEF MeshHeader, NocHeaders, MeshByte

LEMMA HeaderTypes ==
  ASSUME NEW n \in MeshNode, NEW h \in MeshHeader
  PROVE  HeaderOn(h, Dimension) /\ DOMAIN h.distance = Dimension
  <1>1. h \in [distance : [Dimension -> MeshByte], source : [Dimension -> MeshOffset]]
    BY HeaderShape, MeshPlaces
  <1>2. h \in [distance : [Dimension -> Byte], source : [Dimension -> Byte]]
    BY <1>1, HeaderShape
  <1> QED BY <1>2 DEF HeaderOn

LEMMA NewHeaderOnMesh ==
  ASSUME NEW s \in MeshNode, NEW t \in MeshNode
  PROVE  MeshNewHeader(s, t) \in MeshHeader /\ Points(MeshNewHeader(s, t), Place[s], Place[t])
  <1> DEFINE p == Place[s]
             q == Place[t]
  <1>1. MeshNewHeader(s, t) = [distance |-> LinePosition(p, q), source |-> p]
    <2>1. GetDestinationRelativeDimensionalPosition(Mesh, s, t) = LinePosition(p, q) /\ Coordinates(Mesh, s) = p
      BY MeshGrid DEF Grid, MeshNode
    <2> QED BY <2>1 DEF MeshNewHeader, HeaderOfHead
  <1>2. p \in [Dimension -> 0 .. 127] /\ q \in [Dimension -> 0 .. 127] /\ DOMAIN p = Dimension
    BY MeshPlaces
  <1>3. ASSUME NEW dim \in Dimension PROVE LinePosition(p, q)[dim] \in MeshByte /\ p[dim] \in MeshOffset
    <2> DEFINE a == p[dim]
               b == q[dim]
    <2>1. a \in 0 .. 127 /\ b \in 0 .. 127
      BY <1>2
    <2>2. 0 .. a \subseteq MeshOffset /\ 0 .. b \subseteq MeshOffset
      BY OffsetsOnMesh
    <2>3. LinePosition(p, q)[dim] = IF b < a THEN WithDirectionBit(a - b) ELSE b - a
      BY <1>2 DEF LinePosition
    <2> HIDE DEF a, b
    <2>4. a \in MeshOffset /\ (b < a => a - b \in MeshOffset) /\ (~(b < a) => b - a \in MeshOffset)
      BY <2>1, <2>2
    <2> QED BY <2>3, <2>4 DEF MeshByte, a
  <1>4. LinePosition(p, q) \in [Dimension -> MeshByte] /\ p \in [Dimension -> MeshOffset]
    <2>1. LinePosition(p, q) = [dim \in Dimension |-> LinePosition(p, q)[dim]]
      BY <1>2 DEF LinePosition
    <2> HIDE DEF p, q
    <2> QED BY <2>1, <1>2, <1>3
  <1>5. MeshNewHeader(s, t) \in MeshHeader
    BY <1>1, <1>4, HeaderShape, MeshPlaces
  <1>6. Points(MeshNewHeader(s, t), Place[s], Place[t])
    BY MeshGrid, MeshPlaces, HeaderOfHeadPoints DEF MeshNewHeader
  <1> QED BY <1>5, <1>6

\* SetOffset leaves a header of the mesh.
LEMMA OffsetUsedOnMesh ==
  ASSUME NEW n \in MeshNode, NEW h \in MeshHeader, NEW dim \in Dimension, GetOffset(h, dim) # 0
  PROVE  OffsetUsed(h, dim) \in MeshHeader
  <1> DEFINE byte == h.distance[dim]
             o == GetOffset(h, dim) - 1
             used == IF HasForwardDirection(h, dim) THEN ToByte(o) ELSE WithDirectionBit(ToByte(o))
  <1>1. MeshHeader = [distance : [Dimension -> MeshByte], source : [Dimension -> MeshOffset]]
    BY HeaderShape, MeshPlaces
  <1>2. h.distance \in [Dimension -> MeshByte] /\ h.source \in [Dimension -> MeshOffset]
        /\ h = [distance |-> h.distance, source |-> h.source]
    BY <1>1
  <1>3. OffsetUsed(h, dim) = [h EXCEPT !.distance[dim] = used]
    BY DEF OffsetUsed, SetOffset
  <1>4. PICK c \in MeshOffset : byte = c \/ byte = 128 + c
    BY <1>2, HeaderShape
  <1>5. c \in 0 .. 127 /\ 0 .. c \subseteq MeshOffset
    BY OffsetsOnMesh
  <1>6. GetOffset(h, dim) = c
    <2>1. (c % 128 = c) /\ ((128 + c) % 128 = c)
      BY <1>5
    <2> HIDE DEF byte
    <2>2. byte % 128 = c
      BY <2>1, <1>4
    <2> QED BY <2>2 DEF GetOffset, byte
  <1>7. ToByte(o) \in MeshOffset
    <2>1. o = c - 1 /\ c # 0
      BY <1>6
    <2> HIDE DEF o
    <2>2. o \in 0 .. c /\ o \in 0 .. 127
      BY <2>1, <1>5
    <2> QED BY <2>2, <1>5 DEF ToByte
  <1>8. used \in MeshByte
    <2> HIDE DEF o
    <2> QED BY <1>7 DEF MeshByte
  <1> HIDE DEF used
  <1>9. [h EXCEPT !.distance[dim] = used] = [distance |-> [h.distance EXCEPT ![dim] = used], source |-> h.source]
    BY <1>2
  <1>10. [h.distance EXCEPT ![dim] = used] \in [Dimension -> MeshByte]
    BY <1>2, <1>8
  <1> QED BY <1>1, <1>2, <1>3, <1>9, <1>10

(***************************************************************************)
(* The route of a head.                                                    *)
(***************************************************************************)
\* Whatever a device asks for, the four way router has only devices of the node.
LEMMA FourWayDevices ==
  ASSUME NEW n \in MeshNode, NEW direction, NEW dim
  PROVE  FourWayGetNetDevice(Network, n, direction, dim) \subseteq {d \in MeshNetDevice : d[1] = n}
  <1>1. NodeDevices(Network, n) = {d \in MeshNetDevice : d[1] = n}
    <2>1. Mesh.devices = Devices(Mesh.channels, Mesh.nodes) /\ NetDevices(Mesh) = NetDevicesOf(Mesh.channels)
      BY MeshGrid DEF Grid, NetDevices, Peers
    <2> QED BY <2>1 DEF NodeDevices, Devices, MeshNetDevice, MeshNode, TopologyNode, Mesh
  <1> QED BY <1>1 DEF FourWayGetNetDevice, FirstOf, Towards

LEMMA RoutesOnMesh ==
  ASSUME NEW d \in MeshDevice, NEW t \in MeshNode, NEW h \in MeshHeader
  PROVE  MeshRequestNewRoute(d, t, h)
           \subseteq {r \in [via : MeshNetDevice, to : MeshNetDevice, header : MeshHeader] : r.to[1] = t}
  <1> DEFINE dim == PreferredDimension(Order, h)
             direction == IF HasForwardDirection(h, dim) THEN "FORWARD" ELSE "BACK"
             used == OffsetUsed(h, dim)
  <1>1. MeshRequestNewRoute(d, t, h) = DimensionOrderRoutes(Network, Order, d, t, h)
    BY MeshGrid DEF OrderedGrid, Order, DimensionOrder, MeshRequestNewRoute, RouteOfProtocol,
                    DorRequestNewRoute, XyRequestNewRoute, XyzRequestNewRoute
  <1>2. CASE HasArrived(h)
    BY <1>1, <1>2 DEF DimensionOrderRoutes
  <1>3. CASE ~HasArrived(h)
    <2>1. MeshRequestNewRoute(d, t, h) = Routes(Network, d, t, direction, dim, used)
      BY <1>1, <1>3 DEF DimensionOrderRoutes
    <2>2. dim \in Dimension /\ GetOffset(h, dim) # 0
      BY <1>3, HeaderTypes, MeshGrid, PreferredIs
    <2>3. used \in MeshHeader
      <3> HIDE DEF dim
      <3> QED BY <2>2, OffsetUsedOnMesh
    <2>4. d[1] \in MeshNode /\ Network.router = "FourWayRouter"
      BY MeshDevices, MeshGrid
    <2> HIDE DEF dim, direction, used
    <2>5. GetOutputNetDevice(Network, d[1], d, direction, dim) \subseteq MeshNetDevice
      BY <2>4, FourWayDevices DEF GetOutputNetDevice
    <2>6. ASSUME NEW via
          PROVE  GetInputNetDevice(Network, t, via, Opposite(direction), dim)
                   \subseteq {x \in MeshNetDevice : x[1] = t}
      BY <2>4, FourWayDevices DEF GetInputNetDevice
    <2> QED BY <2>1, <2>3, <2>5, <2>6 DEF Routes
  <1> QED BY <1>2, <1>3

\* The route of a head on its way, and the device at its other end.
HeadHop(d, t, h, dim, direction, o) ==
  /\ dim \in Dimension /\ direction \in {"FORWARD", "BACK"} /\ o \in MeshNode
  /\ MeshRequestNewRoute(d, t, h)
       = {[via |-> <<d[1], direction, dim, 1>>, to |-> <<t, Opposite(direction), dim, 1>>,
           header |-> OffsetUsed(h, dim)]}
  /\ <<d[1], direction, dim, 1>> \in MeshNetDevice
  /\ MeshPeer[<<d[1], direction, dim, 1>>] = <<o, Opposite(direction), dim, 1>>
  /\ <<o, Opposite(direction), dim, 1>> \in MeshNetDevice
  /\ GetOffset(h, dim) # 0 /\ DoneBefore(Order, h, dim)
  /\ DoneBefore(Order, OffsetUsed(h, dim), dim)
  /\ Points(OffsetUsed(h, dim), Place[o], Place[t])
  /\ Manhattan(Place, d[1], t) = Manhattan(Place, o, t) + 1
  /\ StepTo(Place, d[1], t, dim, direction, o)

LEMMA HeadHops ==
  ASSUME NEW d \in MeshDevice, NEW t \in MeshNode, d[1] # t, NEW h \in MeshHeader,
         Points(h, Place[d[1]], Place[t])
  PROVE  \E dim, direction, o : HeadHop(d, t, h, dim, direction, o)
  <1>1. HeaderOn(h, Dimension) /\ DOMAIN h.distance = Dimension /\ d[1] \in MeshNode
    BY HeaderTypes, MeshDevices
  <1>2. d[1] \in TopologyNode(Network.topology) /\ t \in TopologyNode(Network.topology)
        /\ MeshNode = TopologyNode(Network.topology)
    BY <1>1 DEF MeshNode, Mesh
  <1>3. Hops(Network, d, Place, Order, t, h, Dimension)
    BY <1>1, <1>2, MeshGrid, HopOnGrid DEF Dimension
  <1>4. PICK dim \in Dimension, direction \in {"FORWARD", "BACK"}, o \in MeshNode :
          NextHop(Network, d, Place, Order, t, h, dim, direction, o)
    BY <1>2, <1>3 DEF Hops
  <1>5. OneWay(Network, RouteOfProtocol(Network, d, t, h), d[1], t, direction, dim, OffsetUsed(h, dim), o)
    BY <1>4 DEF NextHop
  <1>6. /\ GetOffset(h, dim) # 0 /\ DoneBefore(Order, h, dim)
        /\ Points(OffsetUsed(h, dim), Place[o], Place[t])
        /\ Manhattan(Place, d[1], t) = Manhattan(Place, o, t) + 1
        /\ StepTo(Place, d[1], t, dim, direction, o)
        /\ \A e \in Dimension \ {dim} : GetOffset(OffsetUsed(h, dim), e) = GetOffset(h, e)
    BY <1>1, <1>4 DEF NextHop
  <1>7. DoneBefore(Order, OffsetUsed(h, dim), dim)
    BY <1>6, MeshGrid, StaysDone
  <1>8. /\ MeshRequestNewRoute(d, t, h)
            = {[via |-> <<d[1], direction, dim, 1>>, to |-> <<t, Opposite(direction), dim, 1>>,
                header |-> OffsetUsed(h, dim)]}
        /\ MeshPeer[<<d[1], direction, dim, 1>>] = <<o, Opposite(direction), dim, 1>>
        /\ <<o, Opposite(direction), dim, 1>> \in MeshNetDevice
    BY <1>5 DEF OneWay, MeshRequestNewRoute, MeshPeer, MeshNetDevice, Mesh
  <1>9. <<d[1], direction, dim, 1>> \in MeshNetDevice
    <2> DEFINE via == <<d[1], direction, dim, 1>>
               to == <<t, Opposite(direction), dim, 1>>
               used == OffsetUsed(h, dim)
    <2>1. MeshRequestNewRoute(d, t, h) = {[via |-> via, to |-> to, header |-> used]}
      BY <1>8
    <2> HIDE DEF via, to, used
    <2>2. [via |-> via, to |-> to, header |-> used] \in [via : MeshNetDevice, to : MeshNetDevice, header : MeshHeader]
      BY <2>1, RoutesOnMesh
    <2>3. via \in MeshNetDevice
      BY <2>2
    <2> QED BY <2>3 DEF via
  <1> QED BY <1>4, <1>6, <1>7, <1>8, <1>9 DEF HeadHop

\* Where the head arrives it keeps the turns.
LEMMA HeadKeepsTurns ==
  ASSUME NEW d \in MeshDevice, NEW t \in MeshNode, NEW h, NEW dim, NEW direction, NEW o,
         HeadHop(d, t, h, dim, direction, o)
  PROVE  KeepsTurns(OffsetUsed(h, dim), <<o, Opposite(direction), dim, 1>>)
  <1> DEFINE e == <<o, Opposite(direction), dim, 1>>
             via == <<d[1], direction, dim, 1>>
             used == OffsetUsed(h, dim)
             n == d[1]
             x == Place[n][dim]
             y == Place[o][dim]
             z == Place[t][dim]
  <1>1. n \in MeshNode /\ o \in MeshNode /\ dim \in Dimension /\ direction \in {"FORWARD", "BACK"}
    BY MeshDevices DEF HeadHop
  <1>2. /\ Place[n] \in [Dimension -> 0 .. 127] /\ Place[o] \in [Dimension -> 0 .. 127]
        /\ Place[t] \in [Dimension -> 0 .. 127]
    BY <1>1, MeshPlaces
  <1>3. x \in 0 .. 127 /\ y \in 0 .. 127 /\ z \in 0 .. 127
    BY <1>1, <1>2
  <1>4. IF direction = "FORWARD" THEN x < z /\ y = x + 1 ELSE z < x /\ y = x - 1
    <2>1. StepTo(Place, n, t, dim, direction, o)
      BY DEF HeadHop
    <2> QED BY <2>1, <1>1, <1>2 DEF StepTo, Plus, Minus
  <1>5. Points(used, Place[o], Place[t])
    BY DEF HeadHop
  <1>6. MeshPeer[e] = via
    <2>1. MeshPeer[via] = e /\ via \in MeshNetDevice
      BY DEF HeadHop
    <2> QED BY <2>1, MeshEnds
  <1>7. Place[MeshPeer[e][1]][e[3]] # Place[e[1]][e[3]]
    <2>1. MeshPeer[e][1] = n /\ e[1] = o /\ e[3] = dim
      BY <1>6
    <2>2. x # y
      <3> HIDE DEF x, y, z
      <3> QED BY <1>3, <1>4
    <2> HIDE DEF n, e
    <2> QED BY <2>1, <2>2
  <1>8. GetOffset(used, dim) # 0 => (HasForwardDirection(used, dim) <=> Opposite(direction) = "BACK")
    <2>1. /\ GetOffset(used, dim) = 0 <=> y = z
          /\ y < z => HasForwardDirection(used, dim)
          /\ z < y => ~HasForwardDirection(used, dim)
      BY <1>1, <1>2, <1>5, OffsetPoints
    <2> HIDE DEF x, y, z, used
    <2>2. CASE direction = "FORWARD"
      <3>1. y # z => y < z
        BY <1>3, <1>4, <2>2
      <3> QED BY <2>1, <2>2, <3>1 DEF Opposite
    <2>3. CASE direction = "BACK"
      <3>1. y # z => z < y
        BY <1>3, <1>4, <2>3
      <3> QED BY <2>1, <2>3, <3>1 DEF Opposite
    <2> QED BY <1>1, <2>2, <2>3
  <1>9. DoneBefore(Order, used, dim)
    BY DEF HeadHop
  <1>10. e[2] = Opposite(direction) /\ e[3] = dim
    OBVIOUS
  <1> HIDE DEF e, used
  <1>11. KeepsTurns(used, e)
    BY <1>7, <1>8, <1>9, <1>10 DEF KeepsTurns
  <1> QED BY <1>11 DEF e, used

(***************************************************************************)
(* The order of the channels.                                              *)
(***************************************************************************)
\* Ranks of the same dimension differ by their places along it.
LEMMA RanksOf ==
  ASSUME NEW d \in MeshNetDevice
  PROVE  /\ RankOf(Order, d[3]) \in 1 .. Len(Order) /\ Order[RankOf(Order, d[3])] = d[3]
         /\ Along(d) \in 0 .. 128 /\ Len(Order) \in Nat
         /\ MeshRank[d] = 129 * RankOf(Order, d[3]) + Along(d)
  <1>1. d[1] \in MeshNode /\ d[3] \in Dimension
    BY MeshEnds
  <1>2. Place[d[1]][d[3]] \in 0 .. 127
    BY <1>1, MeshPlaces
  <1>3. Along(d) \in 0 .. 128
    <2> DEFINE c == Place[d[1]][d[3]]
    <2>1. c \in 0 .. 127 /\ Along(d) = IF d[2] = "FORWARD" THEN c ELSE 128 - c
      BY <1>2 DEF Along
    <2> HIDE DEF c
    <2> QED BY <2>1
  <1>4. Len(Order) \in Nat
    BY MeshGrid DEF IsOrder
  <1>5. RankOf(Order, d[3]) \in 1 .. Len(Order) /\ Order[RankOf(Order, d[3])] = d[3]
    BY <1>1, MeshGrid, RankIs
  <1> QED BY <1>3, <1>4, <1>5 DEF MeshRank

LEMMA MeshRankType == MeshRank \in [MeshNetDevice -> 0 .. HighestRank] /\ HighestRank \in Nat
  <1>1. ASSUME NEW d \in MeshNetDevice PROVE MeshRank[d] \in 0 .. HighestRank
    <2> DEFINE i == RankOf(Order, d[3])
               a == Along(d)
               n == Len(Order)
    <2>1. i \in 1 .. n /\ a \in 0 .. 128 /\ n \in Nat /\ MeshRank[d] = 129 * i + a /\ HighestRank = 129 * (n + 1)
      BY RanksOf DEF HighestRank
    <2> HIDE DEF i, a, n
    <2> QED BY <2>1
  <1>2. HighestRank \in Nat
    BY MeshGrid DEF HighestRank, IsOrder
  <1> QED BY <1>1, <1>2 DEF MeshRank

\* The channel that a head takes comes after the one that brought it.
LEMMA HeadAscends ==
  ASSUME NEW d \in MeshNetDevice, NEW t \in MeshNode, NEW h, NEW dim, NEW direction, NEW o,
         KeepsTurns(h, d), HeadHop(d, t, h, dim, direction, o), Points(h, Place[d[1]], Place[t])
  PROVE  MeshRank[MeshPeer[d]] < MeshRank[<<d[1], direction, dim, 1>>]
  <1> DEFINE m == MeshPeer[d]
             via == <<d[1], direction, dim, 1>>
             i == RankOf(Order, d[3])
             j == RankOf(Order, dim)
  <1>1. /\ m \in MeshNetDevice /\ via \in MeshNetDevice /\ m[3] = d[3] /\ via[3] = dim
        /\ dim \in Dimension /\ d[3] \in Dimension
    <2>1. via \in MeshNetDevice /\ dim \in Dimension
      BY DEF HeadHop
    <2>2. PICK a, b \in MeshNode : Ends(d, MeshPeer[d], a, b, d[3])
      BY MeshEnds
    <2>3. m[3] = d[3]
      BY <2>2 DEF Ends
    <2> QED BY <2>1, <2>3, MeshEnds
  <1>2. /\ i \in 1 .. Len(Order) /\ j \in 1 .. Len(Order) /\ Len(Order) \in Nat
        /\ Order[i] = d[3] /\ Order[j] = dim
    <2> HIDE DEF m, via
    <2> QED BY <1>1, RanksOf
  <1>3. /\ Along(m) \in 0 .. 128 /\ MeshRank[m] = 129 * i + Along(m)
        /\ Along(via) \in 0 .. 128 /\ MeshRank[via] = 129 * j + Along(via)
    <2> HIDE DEF m, via
    <2> QED BY <1>1, RanksOf
  <1>4. ~(j < i)
    <2>1. DoneBefore(Order, h, d[3])
      BY DEF KeepsTurns
    <2>2. GetOffset(h, dim) # 0
      BY DEF HeadHop
    <2> HIDE DEF i, j
    <2> QED BY <2>1, <2>2, <1>2 DEF DoneBefore
  <1>5. CASE i < j
    <2> DEFINE a == Along(m)
               b == Along(via)
    <2>1. a \in 0 .. 128 /\ b \in 0 .. 128 /\ MeshRank[m] = 129 * i + a /\ MeshRank[via] = 129 * j + b
          /\ i \in Nat /\ j \in Nat
      BY <1>2, <1>3
    <2> HIDE DEF a, b, m, via, i, j
    <2>2. MeshRank[m] < MeshRank[via]
      BY <2>1, <1>5
    <2> QED BY <2>2 DEF m, via
  <1>6. CASE i = j
    <2>1. d[3] = dim
      BY <1>2, <1>6
    <2>2. PICK u, v \in MeshNode : Ends(d, MeshPeer[d], u, v, d[3]) /\ \E e \in Dimension : Place[v] = Plus(Place[u], e)
      BY MeshEnds
    <2>3. PICK e \in Dimension : Place[v] = Plus(Place[u], e)
      BY <2>2
    <2> DEFINE x == Place[u][dim]
               y == Place[v][dim]
    <2>4. x \in 0 .. 127 /\ y \in 0 .. 127 /\ Place[u] \in [Dimension -> 0 .. 127]
      BY <1>1, MeshPlaces
    <2>5. x # y
      BY <2>1, <2>2 DEF Ends, KeepsTurns
    <2>6. y = x + 1
      BY <2>3, <2>4, <2>5, <1>1 DEF Plus
    <2>7. direction = "FORWARD" <=> d[2] = "BACK"
      <3>1. HasForwardDirection(h, dim) <=> d[2] = "BACK"
        BY <2>1 DEF KeepsTurns, HeadHop
      <3>2. d[1] \in MeshNode /\ Place[d[1]] \in [Dimension -> 0 .. 127] /\ Place[t] \in [Dimension -> 0 .. 127]
        BY MeshEnds, MeshPlaces
      <3>3. StepTo(Place, d[1], t, dim, direction, o)
        BY DEF HeadHop
      <3>4. /\ Place[d[1]][dim] < Place[t][dim] => HasForwardDirection(h, dim)
            /\ Place[t][dim] < Place[d[1]][dim] => ~HasForwardDirection(h, dim)
        BY <3>2, <1>1, OffsetPoints
      <3> QED BY <3>1, <3>3, <3>4 DEF StepTo
    <2>8. direction \in {"FORWARD", "BACK"}
      BY DEF HeadHop
    <2>9. Along(m) < Along(via)
      <3>1. CASE d = <<u, "FORWARD", dim, 1>> /\ m = <<v, "BACK", dim, 1>>
        <4>1. via = <<u, "BACK", dim, 1>>
          BY <3>1, <2>7, <2>8
        <4>2. Along(m) = 128 - y /\ Along(via) = 128 - x
          BY <3>1, <4>1 DEF Along
        <4> HIDE DEF m, via, x, y
        <4> QED BY <4>2, <2>4, <2>6
      <3>2. CASE d = <<v, "BACK", dim, 1>> /\ m = <<u, "FORWARD", dim, 1>>
        <4>1. via = <<v, "FORWARD", dim, 1>>
          BY <3>2, <2>7, <2>8
        <4>2. Along(m) = x /\ Along(via) = y
          BY <3>2, <4>1 DEF Along
        <4> HIDE DEF m, via, x, y
        <4> QED BY <4>2, <2>4, <2>6
      <3> QED BY <2>1, <2>2, <3>1, <3>2 DEF Ends
    <2> DEFINE a == Along(m)
               b == Along(via)
    <2>10. a \in 0 .. 128 /\ b \in 0 .. 128 /\ MeshRank[m] = 129 * i + a /\ MeshRank[via] = 129 * j + b
          /\ i \in Nat /\ a < b
      BY <1>2, <1>3, <2>9
    <2> HIDE DEF a, b, m, via, i, j
    <2>11. MeshRank[m] < MeshRank[via]
      BY <2>10, <1>6
    <2> QED BY <2>11 DEF m, via
  <1>7. i < j \/ i = j
    <2> HIDE DEF i, j
    <2> QED BY <1>2, <1>4
  <1> QED BY <1>5, <1>6, <1>7

(***************************************************************************)
(* NocTransport on the mesh.                                               *)
(***************************************************************************)
\* Every such mesh is a topology, and dimension order routing a routing algorithm, as
\* NocTransport assumes them (NocMesh2D::Install, NocMesh3D::Install, NocMeshND::Install):
\* TopologyAssumption and RoutingAssumption hold for every size and order.
THEOREM MeshMeetsAssumptions ==
  /\ MeshNodeOf \in [MeshDevice -> MeshNode]
  /\ MeshInjectionDevice \in [MeshNode -> MeshDevice \ MeshNetDevice]
  /\ MeshDevice = MeshNetDevice \cup {MeshInjectionDevice[n] : n \in MeshNode}
  /\ \A n \in MeshNode : MeshNodeOf[MeshInjectionDevice[n]] = n
  /\ MeshPeer \in [MeshNetDevice -> MeshNetDevice]
  /\ \A d \in MeshNetDevice : MeshPeer[d] # d /\ MeshPeer[MeshPeer[d]] = d
  /\ \A s, t \in MeshNode : MeshNewHeader(s, t) \in MeshHeader
  /\ \A d \in MeshDevice, t \in MeshNode, h \in MeshHeader :
       MeshRequestNewRoute(d, t, h)
         \subseteq {r \in [via : MeshNetDevice, to : MeshNetDevice, header : MeshHeader] : r.to[1] = t}
  <1>1. MeshNodeOf \in [MeshDevice -> MeshNode] /\ \A n \in MeshNode : MeshNodeOf[MeshInjectionDevice[n]] = n
    BY MeshDevices DEF MeshNodeOf
  <1>2. MeshInjectionDevice \in [MeshNode -> MeshDevice \ MeshNetDevice]
    BY MeshDevices DEF MeshInjectionDevice
  <1>3. MeshDevice = MeshNetDevice \cup {MeshInjectionDevice[n] : n \in MeshNode}
    BY MeshDevices DEF MeshDevice
  <1>4. MeshPeer \in [MeshNetDevice -> MeshNetDevice]
    <2>1. MeshPeer = [d \in MeshNetDevice |-> MeshPeer[d]]
      BY MeshGrid DEF Grid, MeshPeer, Peers, MeshNetDevice, NetDevices
    <2> QED BY <2>1, MeshEnds
  <1> QED BY <1>1, <1>2, <1>3, <1>4, MeshEnds, NewHeaderOnMesh, RoutesOnMesh

LEMMA MeshIsConfigured ==
  /\ Node = MeshNode /\ NetDevice = MeshNetDevice /\ Device = MeshDevice
  /\ InjectionDevice = MeshInjectionDevice /\ Peer = MeshPeer /\ Header = MeshHeader
  /\ \A d \in MeshDevice : NodeOf[d] = d[1]
  /\ \A n \in MeshNode : InjectionDevice[n] \in MeshDevice \ MeshNetDevice /\ InjectionDevice[n][1] = n
  <1>1. InputDevice = InternalInputDevices(Network)
    BY ConfiguredAsMesh, MeshDevices DEF InputDevice
  <1>2. Device = MeshDevice
    BY <1>1, ConfiguredAsMesh DEF Device, MeshDevice
  <1>3. \A d \in MeshDevice : NodeOf[d] = d[1]
    BY ConfiguredAsMesh DEF MeshNodeOf
  <1> QED BY <1>2, <1>3, ConfiguredAsMesh, MeshDevices

\* What MeshWay says of its members.
WayHop(w, dim, direction, o) ==
  /\ w.device \in MeshDevice /\ w.device[1] \in MeshNode /\ w.to \in MeshNode /\ w.header \in MeshHeader
  /\ w.device[1] # w.to /\ Points(w.header, Place[w.device[1]], Place[w.to]) /\ KeepsTurns(w.header, w.device)
  /\ RequestNewRoute(w.device, w.to, w.header) = MeshRequestNewRoute(w.device, w.to, w.header)
  /\ HeadHop(w.device, w.to, w.header, dim, direction, o)

LEMMA WayHops ==
  ASSUME NEW w \in MeshWay
  PROVE  \E dim, direction, o : WayHop(w, dim, direction, o)
  <1>1. /\ w.device \in MeshDevice /\ w.to \in MeshNode /\ w.header \in MeshHeader
        /\ w.device[1] # w.to /\ Points(w.header, Place[w.device[1]], Place[w.to])
        /\ KeepsTurns(w.header, w.device)
    BY DEF MeshWay
  <1>2. w.device[1] \in MeshNode
    BY <1>1, MeshDevices
  <1>3. RequestNewRoute(w.device, w.to, w.header) = MeshRequestNewRoute(w.device, w.to, w.header)
    BY <1>1, ConfiguredAsMesh
  <1>4. PICK dim, direction, o : HeadHop(w.device, w.to, w.header, dim, direction, o)
    BY <1>1, HeadHops
  <1>5. WayHop(w, dim, direction, o)
    BY <1>1, <1>2, <1>3, <1>4 DEF WayHop
  <1> QED BY <1>5

\* Dimension order routing on every mesh brings a head nearer at every hop, and the last
\* hop ends at the device that takes it (NocRouter::ManageFlit and RequestNewRoute of
\* XyRouting, XyzRouting and DorRouting).
THEOREM MeshRoutesLead == RoutesLead(MeshWay, MeshDistance)
  <1>1. MeshWay \subseteq [device : Device, to : Node, header : Header]
    BY MeshIsConfigured DEF MeshWay
  <1>2. MeshDistance \in [Node -> [Node -> Nat]] /\ \A n \in Node : MeshDistance[n][n] = 0
    <2>1. \A n, t \in MeshNode : Manhattan(Place, n, t) \in Nat /\ (Manhattan(Place, n, t) = 0 <=> n = t)
      BY MeshGrid, MeshPlaces, ManhattanType
    <2> QED BY <2>1, MeshIsConfigured DEF MeshDistance
  <1>3. ASSUME NEW f \in Flow
        PROVE  [device |-> InjectionDevice[f[1]], to |-> f[2], header |-> NewHeader(f[1], f[2])] \in MeshWay
    <2>1. f[1] \in MeshNode /\ f[2] \in MeshNode /\ f[1] # f[2]
      BY MeshIsConfigured, ConfigurationAssumption
    <2>2. NewHeader(f[1], f[2]) = MeshNewHeader(f[1], f[2])
      BY <2>1, ConfiguredAsMesh
    <2>3. InjectionDevice[f[1]] \in MeshDevice \ MeshNetDevice /\ InjectionDevice[f[1]][1] = f[1]
      BY <2>1, MeshIsConfigured
    <2> QED BY <2>1, <2>2, <2>3, NewHeaderOnMesh DEF MeshWay, KeepsTurns
  <1>4. ASSUME NEW w \in MeshWay
        PROVE  /\ NodeOf[w.device] # w.to
               /\ RequestNewRoute(w.device, w.to, w.header) # {}
               /\ \A r \in RequestNewRoute(w.device, w.to, w.header) :
                    LET next == Peer[r.via]
                    IN /\ MeshDistance[NodeOf[next]][w.to] < MeshDistance[NodeOf[w.device]][w.to]
                       /\ IF NodeOf[next] = w.to THEN r.to = next
                          ELSE [device |-> next, to |-> w.to, header |-> r.header] \in MeshWay
    <2>1. PICK dim, direction, o : WayHop(w, dim, direction, o)
      BY WayHops
    <2> DEFINE n == w.device[1]
               t == w.to
               h == w.header
               next == <<o, Opposite(direction), dim, 1>>
               via == <<n, direction, dim, 1>>
               to == <<t, Opposite(direction), dim, 1>>
               used == OffsetUsed(h, dim)
    <2>2. /\ w.device \in MeshDevice /\ n \in MeshNode /\ t \in MeshNode /\ h \in MeshHeader /\ n # t
          /\ RequestNewRoute(w.device, t, h) = MeshRequestNewRoute(w.device, t, h)
          /\ HeadHop(w.device, t, h, dim, direction, o)
      BY <2>1 DEF WayHop
    <2>3. /\ o \in MeshNode /\ dim \in Dimension /\ GetOffset(h, dim) # 0
          /\ MeshRequestNewRoute(w.device, t, h) = {[via |-> via, to |-> to, header |-> used]}
          /\ MeshPeer[via] = next /\ next \in MeshNetDevice
          /\ Points(used, Place[o], Place[t])
          /\ Manhattan(Place, n, t) = Manhattan(Place, o, t) + 1
      BY <2>2 DEF HeadHop
    <2>4. used \in MeshHeader /\ KeepsTurns(used, next)
      BY <2>2, <2>3, OffsetUsedOnMesh, HeadKeepsTurns
    <2>5. MeshDistance[o][t] < MeshDistance[n][t]
      <3>1. Manhattan(Place, o, t) \in Nat /\ Manhattan(Place, n, t) \in Nat
        BY <2>2, <2>3, MeshGrid, MeshPlaces, ManhattanType
      <3>2. MeshDistance[o][t] = Manhattan(Place, o, t) /\ MeshDistance[n][t] = Manhattan(Place, n, t)
        BY <2>2, <2>3 DEF MeshDistance
      <3> QED BY <3>1, <3>2, <2>3
    <2>6. next[1] = o /\ (o = t => to = next)
      OBVIOUS
    <2> HIDE DEF next, via, to, used, n, t, h
    <2>7. next \in MeshDevice
      BY <2>3 DEF MeshDevice
    <2>8. NodeOf[next] = o /\ NodeOf[w.device] = n /\ Peer = MeshPeer
      BY <2>2, <2>6, <2>7, MeshIsConfigured DEF n
    <2>9. o # t => [device |-> next, to |-> t, header |-> used] \in MeshWay
      BY <2>2, <2>3, <2>4, <2>6, <2>7 DEF MeshWay
    <2>10. ASSUME NEW r \in RequestNewRoute(w.device, t, h)
           PROVE  r.via = via /\ r.to = to /\ r.header = used
      BY <2>2, <2>3
    <2>11. RequestNewRoute(w.device, t, h) # {}
      BY <2>2, <2>3
    <2> QED BY <2>2, <2>3, <2>5, <2>6, <2>8, <2>9, <2>10, <2>11 DEF t, h
  <1> QED BY <1>1, <1>2, <1>3, <1>4 DEF RoutesLead

\* Dimension order routing takes the channels of every mesh in an order: along a dimension
\* they follow each other, and no head returns to a dimension that comes earlier in the
\* order (XyRouting, XyzRouting and DorRouting, RequestNewRoute).
THEOREM MeshRoutesAscend == RoutesAscend(MeshWay, MeshRank, HighestRank)
  <1>1. ASSUME NEW w \in MeshWay, w.device \in NetDevice,
               NEW r \in RequestNewRoute(w.device, w.to, w.header)
        PROVE  MeshRank[Peer[w.device]] < MeshRank[r.via]
    <2>1. PICK dim, direction, o : WayHop(w, dim, direction, o)
      BY WayHops
    <2>2. /\ w.to \in MeshNode /\ Points(w.header, Place[w.device[1]], Place[w.to])
          /\ KeepsTurns(w.header, w.device) /\ HeadHop(w.device, w.to, w.header, dim, direction, o)
          /\ r \in MeshRequestNewRoute(w.device, w.to, w.header)
      BY <2>1 DEF WayHop
    <2>3. r.via = <<w.device[1], direction, dim, 1>>
      BY <2>2 DEF HeadHop
    <2>4. w.device \in MeshNetDevice /\ Peer = MeshPeer
      BY <1>1, MeshIsConfigured
    <2>5. MeshRank[MeshPeer[w.device]] < MeshRank[<<w.device[1], direction, dim, 1>>]
      BY <2>2, <2>4, HeadAscends
    <2> QED BY <2>3, <2>4, <2>5
  <1> QED BY <1>1, MeshRankType, MeshIsConfigured DEF RoutesAscend

\* No assertion of net devices, channels, routers and routing fails on any mesh with
\* dimension order routing, whatever is injected and in whatever order the events come.
THEOREM MeshNeverAborts == Spec => []NoAssertionFails
  <1>1. RoutesLead(MeshWay, MeshDistance)
    BY MeshRoutesLead
  <1> QED BY <1>1, NoAssertionEverFails

\* On every mesh with dimension order routing the flits arrive once, at their node, in the
\* order of their packet (NocNetDevice::Receive, NocChannel::TransmitEnd).
THEOREM MeshDeliversInOrder == Spec => DeliversInOrder
  <1>1. RoutesLead(MeshWay, MeshDistance)
    BY MeshRoutesLead
  <1> QED BY <1>1, DeliveryImplemented

\* On no mesh with dimension order routing do the queues wait for each other for ever:
\* while a flit is in a queue, a transmission is pending or can start
\* (NocNetDevice::ProcessBufferedPackets).
THEOREM MeshNeverWedged == Spec => []NoWedge
  <1>1. RoutesLead(MeshWay, MeshDistance) /\ RoutesAscend(MeshWay, MeshRank, HighestRank)
    BY MeshRoutesLead, MeshRoutesAscend
  <1> QED BY <1>1, NeverWedged

==============================================================================
