---------------------------- MODULE IncPirProofs ----------------------------
(***************************************************************************)
(* Proofs about PirSets and IncPir, for every database size, set size,     *)
(* number of sets, batch sizes, family of permutations and key derivation. *)
(*                                                                         *)
(* First the descriptions of PirSets: where the slots of a set lie in the  *)
(* database, that distinct elements have distinct positions, and what the  *)
(* parities of the server are.  Then IncPir: IInv is inductive, and the    *)
(* invariants of IncPir that it implies.  At the end what sets hold: that  *)
(* SizeInv keeps every sound set at setsize elements and a batch exchanges *)
(* as many as it adds (finite sets are counted along bijections), that the *)
(* search by the inverse permutation finds what the expansion holds, and   *)
(* that no remainder is taken by zero.                                     *)
(***************************************************************************)
EXTENDS IncPir, FiniteSetTheorems, TLAPS

\* The positions of the elements C when no slot is skipped.
Image(set, C) == {Position(set, DOMAIN set.aux, c) : c \in C}

\* The remainder of a number below twice the modulus, and of one above its opposite.
LEMMA ModAbove ==
    ASSUME NEW r \in Nat, r > 0, NEW a \in Int, 0 <= a, a < 2 * r
    PROVE  a % r = IF a < r THEN a ELSE a - r
OBVIOUS

LEMMA ModBelow ==
    ASSUME NEW r \in Nat, r > 0, NEW a \in Int, -r <= a, a < r
    PROVE  a % r = IF a >= 0 THEN a ELSE a + r
OBVIOUS
\* The components of a pair.
LEMMA PairType ==
    ASSUME NEW S, NEW T, NEW c \in S \X T
    PROVE  c[1] \in S /\ c[2] \in T
OBVIOUS
-----------------------------------------------------------------------------
(* Where the slots lie *)

\* The fields of a slot of a list.
LEMMA SlotType ==
    ASSUME NEW aux \in Seq(Slot), NEW i \in DOMAIN aux
    PROVE  aux[i].range \in 1 .. MaxDb /\ aux[i].cnt \in Count
<1>1. aux[i] \in Slot
  OBVIOUS
<1> QED  BY <1>1 DEF Slot

\* The rows of any slots of a list are finitely many.
LEMMA RowsFinite ==
    ASSUME NEW aux \in Seq(Slot), NEW J, J \subseteq DOMAIN aux
    PROVE  IsFiniteSet(Rows(aux, J)) /\ Cardinality(Rows(aux, J)) \in Nat
<1>1. IsFiniteSet(DOMAIN aux)
  <2>1. DOMAIN aux = 1 .. Len(aux) /\ Len(aux) \in Nat
    OBVIOUS
  <2> QED  BY <2>1, FS_Interval
<1>2. IsFiniteSet(Index)
  BY FS_Interval, SizeAssumption DEF Index
<1>3. IsFiniteSet((DOMAIN aux) \X Index)
  BY <1>1, <1>2, FS_Product
<1>4. Rows(aux, J) \subseteq (DOMAIN aux) \X Index
  BY DEF Rows
<1> QED  BY <1>3, <1>4, FS_Subset, FS_CardinalityType

\* One slot has as many rows as its range says.
LEMMA RowsOfSlot ==
    ASSUME NEW aux \in Seq(Slot), NEW i \in DOMAIN aux
    PROVE  Cardinality(Rows(aux, {i})) = aux[i].range
<1> DEFINE r == aux[i].range
           f == [x \in 0 .. r - 1 |-> <<i, x>>]
<1>1. r \in 1 .. MaxDb
  BY SlotType
<1>2. f \in Bijection(0 .. r - 1, Rows(aux, {i}))
  <2>1. f \in [0 .. r - 1 -> Rows(aux, {i})]
    BY <1>1, SizeAssumption DEF Rows, Index
  <2>2. f \in Injection(0 .. r - 1, Rows(aux, {i}))
    BY <2>1 DEF Injection, IsInjective
  <2>3. ASSUME NEW c \in Rows(aux, {i})
        PROVE  \E x \in 0 .. r - 1 : f[x] = c
    <3>1. c[1] = i /\ c[2] \in 0 .. r - 1 /\ c = <<c[1], c[2]>>
      BY <1>1, SizeAssumption DEF Rows, Index
    <3> QED  BY <3>1
  <2> QED  BY <2>1, <2>2, <2>3 DEF Bijection, Surjection
<1>3. IsFiniteSet(0 .. r - 1) /\ Cardinality(0 .. r - 1) = r
  BY <1>1, FS_Interval, SizeAssumption
<1> QED  BY <1>2, <1>3, FS_Bijection DEF ExistsBijection

\* A slot adds its range to the rows of slots that it is not among.
LEMMA RowsAdd ==
    ASSUME NEW aux \in Seq(Slot), NEW J, J \subseteq DOMAIN aux,
           NEW i \in DOMAIN aux, i \notin J
    PROVE  Cardinality(Rows(aux, J \cup {i})) = Cardinality(Rows(aux, J)) + aux[i].range
<1>1. /\ IsFiniteSet(Rows(aux, J)) /\ Cardinality(Rows(aux, J)) \in Nat
      /\ IsFiniteSet(Rows(aux, {i})) /\ Cardinality(Rows(aux, {i})) \in Nat
  BY RowsFinite
<1>2. Rows(aux, J \cup {i}) = Rows(aux, J) \cup Rows(aux, {i})
  BY DEF Rows
<1>3. Rows(aux, J) \cap Rows(aux, {i}) = {}
  BY DEF Rows
<1>4. Cardinality(Rows(aux, J) \cup Rows(aux, {i}))
          = Cardinality(Rows(aux, J)) + Cardinality(Rows(aux, {i})) - Cardinality({})
  BY <1>1, <1>3, FS_Union
<1>5. Cardinality({}) = 0
  BY FS_EmptySet
<1>6. Cardinality(Rows(aux, {i})) = aux[i].range
  BY RowsOfSlot
<1>7. Cardinality(Rows(aux, J \cup {i})) = Cardinality(Rows(aux, J) \cup Rows(aux, {i}))
  BY <1>2
<1>8. Cardinality(Rows(aux, J)) \in Nat /\ Cardinality(Rows(aux, {i})) \in Nat
  BY <1>1
<1> HIDE <1>2
<1> QED  BY <1>4, <1>5, <1>6, <1>7, <1>8

\* Rows are monotone in the slots.
LEMMA RowsMonotone ==
    ASSUME NEW aux \in Seq(Slot), NEW K, K \subseteq DOMAIN aux, NEW J, J \subseteq K
    PROVE  Cardinality(Rows(aux, J)) <= Cardinality(Rows(aux, K))
<1>1. Rows(aux, J) \subseteq Rows(aux, K)
  BY DEF Rows
<1> QED  BY <1>1, RowsFinite, FS_Subset

(***************************************************************************)
(* A slot ends before every set of slots that includes it and the ones     *)
(* before it does: slots do not overlap.                                   *)
(***************************************************************************)
LEMMA SlotEnds ==
    ASSUME NEW aux \in Seq(Slot), NEW J, J \subseteq DOMAIN aux, NEW i \in J,
           NEW K, K \subseteq DOMAIN aux, \A j \in J : j <= i => j \in K
    PROVE  /\ AccumRange(aux, J, i) \in Nat
           /\ AccumRange(aux, J, i) + aux[i].range <= Cardinality(Rows(aux, K))
<1> DEFINE Before == {j \in J : j < i}
<1>1. Before \subseteq DOMAIN aux /\ i \notin Before /\ i \in DOMAIN aux
  OBVIOUS
<1>2. Before \cup {i} \subseteq K
  BY <1>1
<1>3. Cardinality(Rows(aux, Before \cup {i})) = Cardinality(Rows(aux, Before)) + aux[i].range
  BY <1>1, RowsAdd
<1>4. Cardinality(Rows(aux, Before \cup {i})) <= Cardinality(Rows(aux, K))
  BY <1>2, RowsMonotone
<1>5. Cardinality(Rows(aux, Before)) \in Nat
  BY <1>1, RowsFinite
<1> QED  BY <1>3, <1>4, <1>5 DEF AccumRange
-----------------------------------------------------------------------------
(* Where the elements lie *)

\* The permutation of a key and a range, as a function on numbers.
LEMMA CycleWalkPermutes ==
    ASSUME NEW k \in Key, NEW r \in 1 .. MaxDb
    PROVE  /\ \A x \in 0 .. r - 1 : CycleWalk(x, r, k) \in 0 .. r - 1
           /\ \A x, y \in 0 .. r - 1 : CycleWalk(x, r, k) = CycleWalk(y, r, k) => x = y
           /\ \A y \in 0 .. r - 1 : \E x \in 0 .. r - 1 : CycleWalk(x, r, k) = y
<1> DEFINE f == Prp[k][r]  S == 0 .. r - 1
<1>1. f \in Bijection(S, S)
  BY PrpAssumption
<1>2. \A x \in S : CycleWalk(x, r, k) = f[x]
  BY DEF CycleWalk
<1> HIDE DEF f, S
<1>3. /\ \A x \in S : f[x] \in S
      /\ \A x, y \in S : f[x] = f[y] => x = y
      /\ \A y \in S : \E x \in S : f[x] = y
  BY <1>1 DEF Bijection, Injection, Surjection, IsInjective
<1>4. /\ \A x \in S : CycleWalk(x, r, k) \in S
      /\ \A x, y \in S : CycleWalk(x, r, k) = CycleWalk(y, r, k) => x = y
      /\ \A y \in S : \E x \in S : CycleWalk(x, r, k) = y
  BY <1>2, <1>3
<1> QED  BY <1>4 DEF S

\* A key derived from a set key is a key.
LEMMA SubKeyType ==
    ASSUME NEW sk \in Key, NEW i \in Nat, i >= 1
    PROVE  SubKey(sk, i) \in Key
<1>1. (i - 1) % 256 \in 0 .. 255
  OBVIOUS
<1> QED  BY <1>1, KdfAssumption DEF SubKey

\* The key under which Eval evaluates a slot.
SlotKey(set, i) == IF i = 1 THEN set.sk ELSE SubKey(set.sk, i)

LEMMA SlotKeyType ==
    ASSUME NEW set \in SetDesc, NEW i \in DOMAIN set.aux
    PROVE  SlotKey(set, i) \in Key
<1>1. set.sk \in Key /\ set.aux \in Seq(Slot)
  BY DEF SetDesc
<1>2. i \in Nat /\ i >= 1
  BY <1>1
<1> QED  BY <1>1, <1>2, SubKeyType DEF SlotKey

\* Adding a shift below the range, modulo the range, permutes the range.
LEMMA ShiftPermutes ==
    ASSUME NEW r \in Nat, r > 0, NEW t \in 0 .. r - 1
    PROVE  /\ \A y \in 0 .. r - 1 : (y + t) % r \in 0 .. r - 1
           /\ \A y, z \in 0 .. r - 1 : (y + t) % r = (z + t) % r => y = z
           /\ \A y \in 0 .. r - 1 : (y + 0) % r = y
<1>1. \A y \in 0 .. r - 1 : (y + t) % r = IF y + t < r THEN y + t ELSE y + t - r
  BY ModAbove
<1>2. \A y \in 0 .. r - 1 : y % r = y
  BY ModAbove
<1> QED  BY <1>1, <1>2

(***************************************************************************)
(* Eval maps the elements below the range of a slot into the range, and    *)
(* distinct ones to distinct rows, shifted or not.                         *)
(***************************************************************************)
LEMMA EvalInjective ==
    ASSUME NEW set, NEW n, WellFormed(set, n), NEW i \in DOMAIN set.aux
    PROVE  LET range == set.aux[i].range IN
           /\ \A x \in 0 .. range - 1 : Eval(set, i, x) \in 0 .. range - 1
           /\ \A x, y \in 0 .. range - 1 : Eval(set, i, x) = Eval(set, i, y) => x = y
<1> DEFINE range == set.aux[i].range
           k     == SlotKey(set, i)
<1>1. set \in SetDesc /\ set.aux \in Seq(Slot) /\ set.shift \in Nat
  BY DEF WellFormed, SetDesc
<1>2. k \in Key
  BY <1>1, SlotKeyType
<1>3. range \in 1 .. MaxDb /\ range \in Nat /\ range > 0
  BY <1>1, SlotType, SizeAssumption
<1>4. /\ \A x \in 0 .. range - 1 : CycleWalk(x, range, k) \in 0 .. range - 1
      /\ \A x, y \in 0 .. range - 1 : CycleWalk(x, range, k) = CycleWalk(y, range, k) => x = y
  BY <1>2, <1>3, CycleWalkPermutes
<1>5. \A x : Eval(set, i, x) = IF set.shift # 0 /\ i = 1
                               THEN (CycleWalk(x, range, k) + set.shift) % range
                               ELSE CycleWalk(x, range, k)
  BY DEF Eval, SlotKey
<1>6. CASE set.shift # 0 /\ i = 1
  <2>1. set.shift \in 0 .. range - 1
    BY <1>1, <1>3, <1>6 DEF WellFormed
  <2>2. /\ \A y \in 0 .. range - 1 : (y + set.shift) % range \in 0 .. range - 1
        /\ \A y, z \in 0 .. range - 1 :
              (y + set.shift) % range = (z + set.shift) % range => y = z
    BY <2>1, <1>3, ShiftPermutes
  <2>3. \A x : Eval(set, i, x) = (CycleWalk(x, range, k) + set.shift) % range
    BY <1>5, <1>6
  <2> HIDE DEF range, k
  <2>4. /\ \A x \in 0 .. range - 1 : Eval(set, i, x) \in 0 .. range - 1
        /\ \A x, y \in 0 .. range - 1 : Eval(set, i, x) = Eval(set, i, y) => x = y
    BY <2>2, <2>3, <1>4
  <2> QED  BY <2>4 DEF range
<1>7. CASE ~(set.shift # 0 /\ i = 1)
  <2>1. \A x : Eval(set, i, x) = CycleWalk(x, range, k)
    BY <1>5, <1>7
  <2> HIDE DEF range, k
  <2>2. /\ \A x \in 0 .. range - 1 : Eval(set, i, x) \in 0 .. range - 1
        /\ \A x, y \in 0 .. range - 1 : Eval(set, i, x) = Eval(set, i, y) => x = y
    BY <2>1, <1>4
  <2> QED  BY <2>2 DEF range
<1> QED  BY <1>6, <1>7

\* The elements (slot, x) of slots J with x below the range of the slot.
InRange(aux, J) == {c \in J \X Nat : c[2] < aux[c[1]].range}

\* An element lies in the rows of its slot, in particular within the coverage.
LEMMA PositionBounds ==
    ASSUME NEW set, NEW n, WellFormed(set, n), NEW J, J \subseteq DOMAIN set.aux,
           NEW c \in InRange(set.aux, J)
    PROVE  LET base == AccumRange(set.aux, J, c[1]) IN
           /\ base \in Nat
           /\ Position(set, J, c) \in base .. base + set.aux[c[1]].range - 1
           /\ Position(set, J, c) \in 0 .. n - 1
<1> DEFINE aux == set.aux  i == c[1]  base == AccumRange(aux, J, i)
<1>1. aux \in Seq(Slot) /\ n = Coverage(aux)
  BY DEF WellFormed, SetDesc
<1>2. i \in J /\ i \in DOMAIN aux /\ c[2] \in Nat /\ c[2] < aux[i].range
  BY DEF InRange
<1>3. aux[i].range \in Nat
  BY <1>1, <1>2, SlotType, SizeAssumption
<1>4. Eval(set, i, c[2]) \in 0 .. aux[i].range - 1
  BY <1>2, <1>3, EvalInjective
<1>5. base \in Nat /\ base + aux[i].range <= Coverage(aux)
  BY <1>1, <1>2, SlotEnds DEF Coverage
<1>6. Coverage(aux) \in Nat
  BY <1>1, RowsFinite DEF Coverage
<1>7. Position(set, J, c) = base + Eval(set, i, c[2])
  BY DEF Position
<1> HIDE DEF base, aux, i
<1>8. /\ base \in Nat
      /\ Position(set, J, c) \in base .. base + aux[i].range - 1
      /\ Position(set, J, c) \in 0 .. n - 1
  BY SMTT(60), <1>1, <1>3, <1>4, <1>5, <1>6, <1>7
<1> QED  BY <1>8 DEF base, aux, i

(***************************************************************************)
(* Distinct elements of a set have distinct positions: Eval is injective   *)
(* within a slot, and slots do not overlap.                                *)
(***************************************************************************)
LEMMA PositionInjective ==
    ASSUME NEW set, NEW n, WellFormed(set, n), NEW J, J \subseteq DOMAIN set.aux,
           NEW c \in InRange(set.aux, J), NEW d \in InRange(set.aux, J),
           Position(set, J, c) = Position(set, J, d)
    PROVE  c = d
<1> DEFINE aux == set.aux
<1>1. aux \in Seq(Slot)
  BY DEF WellFormed, SetDesc
<1>2. /\ c[1] \in J /\ c[2] \in Nat /\ c[2] < aux[c[1]].range /\ c = <<c[1], c[2]>>
      /\ d[1] \in J /\ d[2] \in Nat /\ d[2] < aux[d[1]].range /\ d = <<d[1], d[2]>>
  BY DEF InRange
<1>3. /\ aux[c[1]].range \in Nat /\ aux[d[1]].range \in Nat
      /\ c[1] \in Nat /\ d[1] \in Nat
  BY SMTT(60), <1>1, <1>2, SlotType, SizeAssumption
<1>4. \A i, j \in J : i < j => /\ AccumRange(aux, J, i) \in Nat
                              /\ AccumRange(aux, J, i) + aux[i].range <= AccumRange(aux, J, j)
  <2> TAKE i, j \in J
  <2> HAVE i < j
  <2> DEFINE K == {l \in J : l < j}
  <2>1. K \subseteq DOMAIN aux /\ \A l \in J : l <= i => l \in K
    BY <1>1
  <2> QED  BY <2>1, <1>1, SlotEnds DEF AccumRange
<1>5. /\ AccumRange(aux, J, c[1]) \in Nat
      /\ Position(set, J, c) \in AccumRange(aux, J, c[1])
                                   .. AccumRange(aux, J, c[1]) + aux[c[1]].range - 1
      /\ AccumRange(aux, J, d[1]) \in Nat
      /\ Position(set, J, d) \in AccumRange(aux, J, d[1])
                                   .. AccumRange(aux, J, d[1]) + aux[d[1]].range - 1
  BY PositionBounds
<1>6. c[1] = d[1]
  <2>1. ~(c[1] < d[1])
    BY <1>2, <1>3, <1>4, <1>5
  <2>2. ~(d[1] < c[1])
    BY <1>2, <1>3, <1>4, <1>5
  <2> QED  BY <2>1, <2>2, <1>3
<1>7. /\ Eval(set, c[1], c[2]) \in 0 .. aux[c[1]].range - 1
      /\ Eval(set, c[1], d[2]) \in 0 .. aux[c[1]].range - 1
      /\ Eval(set, c[1], c[2]) = Eval(set, c[1], d[2]) => c[2] = d[2]
  BY <1>2, <1>3, <1>6, EvalInjective
<1>8. Eval(set, c[1], c[2]) = Eval(set, c[1], d[2])
  BY <1>5, <1>6, <1>7 DEF Position
<1> QED  BY <1>2, <1>6, <1>7, <1>8
-----------------------------------------------------------------------------
(* Parities *)

\* No block cancels when every position is visited once.
LEMMA XorInjective ==
    ASSUME NEW f, \A c, d \in DOMAIN f : f[c] = f[d] => c = d
    PROVE  XorOf(f) = Range(f)
<1>1. ASSUME NEW c \in DOMAIN f
      PROVE  Cardinality({d \in DOMAIN f : f[d] = f[c]}) % 2 = 1
  <2>1. {d \in DOMAIN f : f[d] = f[c]} = {c}
    OBVIOUS
  <2>2. Cardinality({c}) = 1
    BY FS_Singleton
  <2> QED  BY <2>1, <2>2
<1>2. ASSUME NEW y \in Range(f)
      PROVE  Cardinality({d \in DOMAIN f : f[d] = y}) % 2 = 1
  <2>1. PICK c \in DOMAIN f : f[c] = y
    BY DEF Range
  <2> QED  BY <2>1, <1>1
<1> QED  BY <1>2 DEF XorOf

\* An injective map commutes with the symmetric difference.
LEMMA ImageSymDiff ==
    ASSUME NEW p, NEW A, NEW B, A \subseteq DOMAIN p, B \subseteq DOMAIN p,
           \A c, d \in DOMAIN p : p[c] = p[d] => c = d
    PROVE  {p[c] : c \in SymDiff(A, B)} = SymDiff({p[c] : c \in A}, {p[c] : c \in B})
BY DEF SymDiff

\* No slot is wider than the database.
LEMMA RangeBound ==
    ASSUME NEW set, NEW n, WellFormed(set, n), NEW i \in DOMAIN set.aux
    PROVE  set.aux[i].range <= n
<1>1. set.aux \in Seq(Slot) /\ n = Coverage(set.aux)
  BY DEF WellFormed, SetDesc
<1>2. /\ AccumRange(set.aux, DOMAIN set.aux, i) \in Nat
      /\ AccumRange(set.aux, DOMAIN set.aux, i) + set.aux[i].range <= Coverage(set.aux)
  BY <1>1, SlotEnds DEF Coverage
<1>3. set.aux[i].range \in Nat /\ Coverage(set.aux) \in Nat
  BY <1>1, SlotType, RowsFinite, SizeAssumption DEF Coverage
<1> QED  BY <1>1, <1>2, <1>3

\* The elements of a set whose counts fit lie in the ranges of their slots.
LEMMA FitsInRange ==
    ASSUME NEW set, NEW n, WellFormed(set, n), Fits(set)
    PROVE  Cells(set.aux, DOMAIN set.aux) \subseteq InRange(set.aux, DOMAIN set.aux)
<1>1. set.aux \in Seq(Slot)
  BY DEF WellFormed, SetDesc
<1>2. \A i \in DOMAIN set.aux : /\ set.aux[i].range \in Nat /\ set.aux[i].cnt \in Nat
                                /\ set.aux[i].cnt <= set.aux[i].range
  BY <1>1, SlotType, SizeAssumption DEF Fits, Count
<1>3. Count \subseteq Nat
  BY SizeAssumption DEF Count
<1>4. ASSUME NEW c \in Cells(set.aux, DOMAIN set.aux)
      PROVE  c \in InRange(set.aux, DOMAIN set.aux)
  <2>1. /\ c \in (DOMAIN set.aux) \X Nat /\ c[1] \in DOMAIN set.aux /\ c[2] \in Nat
        /\ c[2] < set.aux[c[1]].cnt
    BY <1>3 DEF Cells
  <2>2. c[2] < set.aux[c[1]].range
    BY <1>2, <2>1
  <2> QED  BY <2>1, <2>2 DEF InRange
<1> QED  BY <1>4

\* The client skips no slot of a set whose counts fit.
LEMMA FitsExpand ==
    ASSUME NEW set, NEW n, WellFormed(set, n), Fits(set)
    PROVE  Expand(set, n) = Image(set, Cells(set.aux, DOMAIN set.aux))
<1>1. set.aux \in Seq(Slot) /\ n = Coverage(set.aux)
  BY DEF WellFormed, SetDesc
<1>2. n \in Nat
  BY <1>1, RowsFinite DEF Coverage
<1>3. \A i \in DOMAIN set.aux : set.aux[i].cnt <= n
  <2> TAKE i \in DOMAIN set.aux
  <2>1. set.aux[i].range <= n
    BY RangeBound
  <2>2. set.aux[i].range \in Nat /\ set.aux[i].cnt \in Nat
    BY <1>1, SlotType, SizeAssumption DEF Count
  <2>3. set.aux[i].cnt <= set.aux[i].range
    BY DEF Fits
  <2> QED  BY <1>2, <2>1, <2>2, <2>3
<1>4. Expanded(set, n) = DOMAIN set.aux
  BY <1>3 DEF Expanded
<1> QED  BY <1>4 DEF Expand, Image

(***************************************************************************)
(* What generate_offline_reply computes for a set with one slot, without   *)
(* looking at aux, is the parity of what the client expands the set to.    *)
(***************************************************************************)
LEMMA OfflineParityIsExpansion ==
    ASSUME NEW set, NEW n, NEW m \in Nat, WellFormed(set, n), m <= n,
           set.aux = <<[range |-> n, cnt |-> m]>>
    PROVE  /\ OfflineParity(set, n, m) = Expand(set, n)
           /\ Expand(set, n) = {(CycleWalk(x, n, set.sk) + set.shift) % n : x \in 0 .. m - 1}
<1> DEFINE f == [x \in 0 .. m - 1 |-> (CycleWalk(x, n, set.sk) + set.shift) % n]
<1>1. /\ set.sk \in Key /\ set.shift \in Nat /\ set.aux \in Seq(Slot)
      /\ DOMAIN set.aux = {1} /\ set.aux[1].range = n /\ set.aux[1].cnt = m
  BY SMTT(60) DEF WellFormed, SetDesc
<1>2. n \in 1 .. MaxDb /\ n \in Nat /\ n > 0 /\ m \in Count
  <2>1. set.aux[1].range \in 1 .. MaxDb /\ set.aux[1].cnt \in Count
    BY <1>1, SlotType
  <2> QED  BY <2>1, <1>1, SizeAssumption
<1>3. set.shift \in 0 .. n - 1
  BY <1>1, <1>2 DEF WellFormed
<1>4. \A x \in 0 .. n - 1 : Eval(set, 1, x) = (CycleWalk(x, n, set.sk) + set.shift) % n
  <2>1. \A x \in 0 .. n - 1 : CycleWalk(x, n, set.sk) \in 0 .. n - 1
    BY <1>1, <1>2, CycleWalkPermutes
  <2>2. \A y \in 0 .. n - 1 : (y + 0) % n = y
    BY <1>2, <1>3, ShiftPermutes
  <2> QED  BY <2>1, <2>2, <1>1 DEF Eval
<1>5. AccumRange(set.aux, {1}, 1) = 0
  <2>1. Rows(set.aux, {j \in {1} : j < 1}) = {}
    BY DEF Rows
  <2> QED  BY <2>1, FS_EmptySet DEF AccumRange
<1>6. \A x \in 0 .. m - 1 : f[x] = Eval(set, 1, x)
  BY <1>2, <1>4
<1>7. \A x \in 0 .. n - 1 : Eval(set, 1, x) \in 0 .. n - 1
  BY <1>1, EvalInjective
<1>8. \A x \in 0 .. m - 1 : Position(set, {1}, <<1, x>>) = f[x]
  BY <1>2, <1>5, <1>6, <1>7 DEF Position
<1>9. \A x, y \in 0 .. m - 1 : f[x] = f[y] => x = y
  <2>1. \A x, y \in 0 .. n - 1 : Eval(set, 1, x) = Eval(set, 1, y) => x = y
    BY <1>1, EvalInjective
  <2> QED  BY <1>2, <1>6, <2>1
<1>10. OfflineParity(set, n, m) = Range(f)
  <2>1. XorOf(f) = Range(f)
    BY <1>9, XorInjective
  <2> QED  BY <2>1 DEF OfflineParity
<1>11. Cells(set.aux, {1}) = {<<1, x>> : x \in 0 .. m - 1}
  BY <1>1, <1>2, SizeAssumption DEF Cells, Count
<1>12. Fits(set)
  BY <1>1, <1>2 DEF Fits
<1>13. Expand(set, n) = {Position(set, {1}, c) : c \in Cells(set.aux, {1})}
  BY <1>1, <1>12, FitsExpand DEF Image
<1>14. Expand(set, n) = {f[x] : x \in 0 .. m - 1}
  <2> HIDE DEF f
  <2> QED  BY ZenonT(60), <1>8, <1>11, <1>13
<1>15. {f[x] : x \in 0 .. m - 1} = {(CycleWalk(x, n, set.sk) + set.shift) % n : x \in 0 .. m - 1}
  OBVIOUS
<1>16. Range(f) = {f[x] : x \in 0 .. m - 1}
  BY DEF Range
<1> QED  BY <1>10, <1>14, <1>15, <1>16
-----------------------------------------------------------------------------
(* Batches of additions *)

\* The indices a client expands a set to are below the size it knows.
LEMMA ExpandBounds ==
    ASSUME NEW set, NEW n, WellFormed(set, n), CountsOk(set, n), n <= MaxDb
    PROVE  Expand(set, n) \subseteq 0 .. n - 1
<1> DEFINE J == Expanded(set, n)
<1>1. set.aux \in Seq(Slot) /\ J \subseteq DOMAIN set.aux /\ n \in Nat
  <2>1. set.aux \in Seq(Slot) /\ n = Coverage(set.aux)
    BY DEF WellFormed, SetDesc
  <2> QED  BY <2>1, RowsFinite DEF Expanded, Coverage
<1>2. ASSUME NEW c \in Cells(set.aux, J)
      PROVE  c \in InRange(set.aux, J)
  <2>1. /\ c[1] \in J /\ c[1] \in DOMAIN set.aux /\ c[2] \in Nat /\ c \in J \X Nat
        /\ c[2] < set.aux[c[1]].cnt /\ set.aux[c[1]].cnt <= n
    <3>1. Count \subseteq Nat
      BY SizeAssumption DEF Count
    <3> QED  BY <3>1 DEF Cells, Expanded
  <2>2. set.aux[c[1]].range \in Nat /\ set.aux[c[1]].cnt \in Nat
    BY <1>1, <2>1, SlotType, SizeAssumption DEF Count
  <2>3. set.aux[c[1]].cnt <= set.aux[c[1]].range
    BY <1>1, <2>1, <2>2, SizeAssumption DEF CountsOk
  <2> QED  BY <2>1, <2>2, <2>3 DEF InRange
<1>3. \A c \in Cells(set.aux, J) : Position(set, J, c) \in 0 .. n - 1
  BY <1>1, <1>2, PositionBounds
<1> QED  BY <1>3 DEF Expand

\* An element of an old slot has the same position before and after a batch.
LEMMA PositionKept ==
    ASSUME NEW d, NEW n, NEW m, WellFormed(PrevSet(d), n), WellFormed(CurrSet(d), m),
           Appends(d), NEW c, c[1] \in DOMAIN d.aux_prev
    PROVE  Position(PrevSet(d), DOMAIN d.aux_prev, c) = Position(CurrSet(d), DOMAIN d.aux_curr, c)
<1> DEFINE i == c[1]  Before == {j \in DOMAIN d.aux_prev : j < i}
<1>1. d.aux_prev \in Seq(Slot) /\ d.aux_curr \in Seq(Slot)
  BY DEF WellFormed, SetDesc, PrevSet, CurrSet
<1>2. {j \in DOMAIN d.aux_curr : j < i} = Before
  BY <1>1 DEF Appends
<1>3. Rows(d.aux_prev, Before) = Rows(d.aux_curr, Before)
  BY DEF Rows, Appends
<1>4. AccumRange(d.aux_prev, DOMAIN d.aux_prev, i) = AccumRange(d.aux_curr, DOMAIN d.aux_curr, i)
  BY <1>2, <1>3 DEF AccumRange
<1>5. Eval(PrevSet(d), i, c[2]) = Eval(CurrSet(d), i, c[2])
  BY DEF Eval, PrevSet, CurrSet, Appends
<1> QED  BY <1>4, <1>5 DEF Position, PrevSet, CurrSet

(***************************************************************************)
(* The parity with which the server answers a batch is that of the indices *)
(* which the set loses or gains: added to the hint of the old set it gives *)
(* the hint of the new one.                                                *)
(***************************************************************************)
LEMMA DiffParityIsDifference ==
    ASSUME NEW d, NEW n, NEW m, WellFormed(PrevSet(d), n), WellFormed(CurrSet(d), m),
           Fits(PrevSet(d)), Fits(CurrSet(d)), Appends(d), Shrinks(d)
    PROVE  DiffParity(d) = SymDiff(Expand(PrevSet(d), n), Expand(CurrSet(d), m))
<1> DEFINE prev == PrevSet(d)  cur == CurrSet(d)
           A == Cells(prev.aux, DOMAIN prev.aux)
           B == Cells(cur.aux, DOMAIN cur.aux)
           U == InRange(cur.aux, DOMAIN cur.aux)
           p == [c \in U |-> Position(cur, DOMAIN cur.aux, c)]
           f == [c \in DiffCells(d) |-> Position(cur, DOMAIN cur.aux, c)]
<1>1. /\ d.aux_prev \in Seq(Slot) /\ d.aux_curr \in Seq(Slot)
      /\ prev.aux = d.aux_prev /\ cur.aux = d.aux_curr
  BY DEF WellFormed, SetDesc, PrevSet, CurrSet
<1>2. /\ DOMAIN d.aux_prev = 1 .. Len(d.aux_prev) /\ DOMAIN d.aux_curr = 1 .. Len(d.aux_prev) + 1
      /\ Len(d.aux_prev) \in Nat
  BY <1>1 DEF Appends
<1>3. B \subseteq U
  BY FitsInRange
<1>4. A \subseteq InRange(prev.aux, DOMAIN prev.aux)
  BY FitsInRange
<1>5. A \subseteq U
  <2>1. InRange(prev.aux, DOMAIN prev.aux) \subseteq U
    BY <1>1, <1>2 DEF InRange, Appends
  <2> QED  BY <1>4, <2>1
<1>6. DiffCells(d) = SymDiff(A, B)
  <2>1. \A i \in DOMAIN d.aux_prev : /\ d.aux_prev[i].cnt \in Nat /\ d.aux_curr[i].cnt \in Nat
                                     /\ d.aux_curr[i].cnt <= d.aux_prev[i].cnt
    BY <1>1, <1>2, SlotType, SizeAssumption DEF Count, Shrinks
  <2>2. Count \subseteq Nat
    BY SizeAssumption DEF Count
  <2>3. A = {c \in (DOMAIN d.aux_prev) \X Count : c[2] < d.aux_prev[c[1]].cnt}
    BY <1>1 DEF Cells
  <2>4. B = {c \in (DOMAIN d.aux_curr) \X Count : c[2] < d.aux_curr[c[1]].cnt}
    BY <1>1 DEF Cells
  <2> DEFINE All == (DOMAIN d.aux_curr) \X Count
  <2>5. DiffCells(d) \subseteq All /\ A \subseteq All /\ B \subseteq All
    BY <1>2, <2>3, <2>4 DEF DiffCells
  <2>6. ASSUME NEW c \in All
        PROVE  c \in DiffCells(d) <=> c \in SymDiff(A, B)
    <3>1. c[1] \in DOMAIN d.aux_curr /\ c[2] \in Nat /\ c[2] \in Count
      <4>1. c[1] \in DOMAIN d.aux_curr /\ c[2] \in Count
        BY PairType
      <4> QED  BY <4>1, <2>2
    <3>2. c[1] \in DOMAIN d.aux_prev <=> c[1] <= Len(d.aux_prev)
      BY <1>2, <3>1
    <3>3. c \in A <=> c[1] \in DOMAIN d.aux_prev /\ c[2] < d.aux_prev[c[1]].cnt
      BY <2>3, <3>1
    <3>4. c \in B <=> c[2] < d.aux_curr[c[1]].cnt
      BY <2>4, <3>1
    <3>5. c \in DiffCells(d) <=>
             IF c[1] <= Len(d.aux_prev)
             THEN d.aux_curr[c[1]].cnt <= c[2] /\ c[2] < d.aux_prev[c[1]].cnt
             ELSE c[2] < d.aux_curr[c[1]].cnt
      BY DEF DiffCells
    <3>6. c \in SymDiff(A, B) <=> (c \in A /\ c \notin B) \/ (c \in B /\ c \notin A)
      BY DEF SymDiff
    <3> HIDE DEF A, B, All
    <3>7. CASE c[1] \in DOMAIN d.aux_prev
      <4>1. /\ d.aux_prev[c[1]].cnt \in Nat /\ d.aux_curr[c[1]].cnt \in Nat
            /\ d.aux_curr[c[1]].cnt <= d.aux_prev[c[1]].cnt
        BY <2>1, <3>7
      <4> QED  BY <3>1, <3>2, <3>3, <3>4, <3>5, <3>6, <3>7, <4>1
    <3>8. CASE c[1] \notin DOMAIN d.aux_prev
      BY <3>2, <3>3, <3>4, <3>5, <3>6, <3>8
    <3> QED  BY <3>7, <3>8
  <2>7. SymDiff(A, B) \subseteq All
    BY <2>5 DEF SymDiff
  <2> HIDE DEF A, B, All
  <2> QED  BY <2>5, <2>6, <2>7
<1>7. \A c, e \in U : Position(cur, DOMAIN cur.aux, c) = Position(cur, DOMAIN cur.aux, e) => c = e
  BY PositionInjective
<1>8. DiffCells(d) \subseteq U
  BY <1>3, <1>5, <1>6 DEF SymDiff
<1>9. DiffParity(d) = {p[c] : c \in DiffCells(d)}
  <2>1. \A c, e \in DOMAIN f : f[c] = f[e] => c = e
    <3> HIDE DEF U
    <3> QED  BY <1>7, <1>8
  <2>2. XorOf(f) = Range(f)
    BY <2>1, XorInjective
  <2>3. DiffParity(d) = XorOf(f)
    BY <1>1 DEF DiffParity
  <2>4. Range(f) = {p[c] : c \in DiffCells(d)}
    <3> HIDE DEF U
    <3> QED  BY <1>8 DEF Range
  <2> QED  BY <2>2, <2>3, <2>4
<1>10. {p[c] : c \in SymDiff(A, B)} = SymDiff({p[c] : c \in A}, {p[c] : c \in B})
  <2>1. \A c, e \in DOMAIN p : p[c] = p[e] => c = e
    <3> HIDE DEF U
    <3> QED  BY <1>7
  <2>2. A \subseteq DOMAIN p /\ B \subseteq DOMAIN p
    BY <1>3, <1>5
  <2> HIDE DEF p, A, B
  <2> QED  BY <2>1, <2>2, ImageSymDiff
<1>11. Expand(cur, m) = {p[c] : c \in B}
  <2>1. Expand(cur, m) = {Position(cur, DOMAIN cur.aux, c) : c \in B}
    BY FitsExpand DEF Image
  <2> HIDE DEF U, B
  <2> QED  BY <1>3, <2>1
<1>12. Expand(prev, n) = {p[c] : c \in A}
  <2>1. Expand(prev, n) = {Position(prev, DOMAIN prev.aux, c) : c \in A}
    BY FitsExpand DEF Image
  <2>2. \A c \in A : Position(prev, DOMAIN prev.aux, c) = Position(cur, DOMAIN cur.aux, c)
    BY <1>1, PositionKept DEF Cells
  <2> HIDE DEF U, A
  <2> QED  BY <1>5, <2>1, <2>2
<1> HIDE DEF p, A, B
<1> QED  BY <1>6, <1>9, <1>10, <1>11, <1>12

\* A slot is kicked at most once per draw.
LEMMA KicksBound ==
    ASSUME NEW aux, NEW ell \in Nat, NEW T, NEW hits \in [1 .. ell -> T], NEW i \in DOMAIN aux
    PROVE  Kicks(aux, hits)[i] \in 0 .. ell
<1> DEFINE H == {j \in DOMAIN hits : hits[j] = i}
<1>1. H \subseteq 1 .. ell
  OBVIOUS
<1>2. IsFiniteSet(1 .. ell) /\ Cardinality(1 .. ell) = ell
  BY FS_Interval
<1>3. IsFiniteSet(H) /\ Cardinality(H) <= ell
  BY <1>1, <1>2, FS_Subset
<1>4. Cardinality(H) \in Nat
  BY <1>3, FS_CardinalityType
<1>5. Kicks(aux, hits)[i] = Cardinality(H)
  BY DEF Kicks
<1> QED  BY <1>3, <1>4, <1>5

\* new is aux with the ranges kept, the counts down by K modulo 2^32, and a new slot.
ExtendedBy(aux, new, K, nbr, ell) ==
    /\ new \in Seq(Slot) /\ Len(new) = Len(aux) + 1
    /\ \A i \in DOMAIN aux : /\ i \in DOMAIN new
                             /\ new[i].range = aux[i].range
                             /\ new[i].cnt = (aux[i].cnt - K[i]) % UModulus
    /\ new[Len(aux) + 1] = [range |-> nbr, cnt |-> ell]

\* This is what a batch does to the slots.
LEMMA ExtendSlots ==
    ASSUME NEW aux \in Seq(Slot), NEW nbr \in 1 .. MaxDb, NEW ell \in 0 .. nbr, NEW T,
           NEW hits \in [1 .. ell -> T]
    PROVE  ExtendedBy(aux, Extend(aux, hits, nbr), Kicks(aux, hits), nbr, ell)
<1> DEFINE old == [i \in DOMAIN aux |->
                     [range |-> aux[i].range,
                      cnt |-> (aux[i].cnt - Kicks(aux, hits)[i]) % UModulus]]
           last == [range |-> nbr, cnt |-> ell]
<1>1. DOMAIN aux = 1 .. Len(aux) /\ Len(aux) \in Nat
  OBVIOUS
<1>2. nbr \in Nat /\ ell \in Nat /\ ell < UModulus
  BY SizeAssumption
<1>3. Len(hits) = ell
  BY <1>2
<1>4. last \in Slot
  BY <1>2, SizeAssumption DEF Slot, Count
<1>5. ASSUME NEW i \in DOMAIN aux
      PROVE  /\ old[i] \in Slot /\ old[i].range = aux[i].range
             /\ old[i].cnt = (aux[i].cnt - Kicks(aux, hits)[i]) % UModulus
  <2>1. aux[i] \in Slot /\ aux[i].cnt \in Nat
    BY SlotType, SizeAssumption DEF Count
  <2>2. Kicks(aux, hits)[i] \in Nat
    <3>1. Kicks(aux, hits)[i] \in 0 .. ell
      BY <1>2, KicksBound
    <3> QED  BY <1>2, <3>1
  <2>3. (aux[i].cnt - Kicks(aux, hits)[i]) % UModulus \in Count
    BY SMTT(60), <2>1, <2>2, SizeAssumption DEF Count
  <2> QED  BY <2>1, <2>3 DEF Slot
<1>6. old \in Seq(Slot) /\ Len(old) = Len(aux) /\ DOMAIN old = DOMAIN aux
  <2>1. old \in [1 .. Len(aux) -> Slot]
    BY <1>1, <1>5
  <2> QED  BY <1>1, <2>1
<1>7. Extend(aux, hits, nbr) = Append(old, last)
  BY <1>3 DEF Extend
<1> HIDE DEF old, last
<1>8. /\ Append(old, last) \in Seq(Slot) /\ Len(Append(old, last)) = Len(aux) + 1
      /\ \A i \in DOMAIN aux : Append(old, last)[i] = old[i] /\ i \in DOMAIN Append(old, last)
      /\ Append(old, last)[Len(aux) + 1] = last
  BY <1>1, <1>4, <1>6
<1> QED  BY <1>5, <1>7, <1>8 DEF last, ExtendedBy

(***************************************************************************)
(* A batch keeps a set well formed over the larger database, whatever the  *)
(* draws; when no count underflows its counts keep fitting their ranges.   *)
(***************************************************************************)
LEMMA ExtendKeeps ==
    ASSUME NEW set, NEW n \in Nat, WellFormed(set, n), CountsOk(set, n),
           NEW nbr \in Nat \ {0}, n + nbr <= MaxDb, NEW ell \in 0 .. nbr, NEW T,
           NEW hits \in [1 .. ell -> T]
    PROVE  LET d   == BatchDiff(set, hits, nbr)
               new == CurrSet(d)
           IN  /\ WellFormed(new, n + nbr) /\ CountsOk(new, n + nbr)
               /\ d \in DiffSetDesc /\ Appends(d) /\ PrevSet(d) = set
               /\ Fits(set) /\ NoUnderflow(set.aux, hits) => Fits(new) /\ Shrinks(d)
<1> DEFINE aux   == set.aux
           after == Extend(aux, hits, nbr)
           d     == BatchDiff(set, hits, nbr)
           new   == CurrSet(d)
           K     == Kicks(aux, hits)
<1>1. /\ aux \in Seq(Slot) /\ aux # <<>> /\ set.sk \in Key /\ set.shift \in Nat
      /\ set = [sk |-> set.sk, shift |-> set.shift, aux |-> set.aux]
      /\ set.shift < aux[1].range /\ Coverage(aux) = n
  BY DEF WellFormed, SetDesc
<1>2. nbr \in 1 .. MaxDb /\ ell \in Nat
  BY SizeAssumption
<1>3. /\ after \in Seq(Slot) /\ Len(after) = Len(aux) + 1
      /\ \A i \in DOMAIN aux : /\ i \in DOMAIN after
                               /\ after[i].range = aux[i].range
                               /\ after[i].cnt = (aux[i].cnt - K[i]) % UModulus
      /\ after[Len(aux) + 1] = [range |-> nbr, cnt |-> ell]
  <2>1. aux \in Seq(Slot)
    BY <1>1
  <2>2. ExtendedBy(aux, after, K, nbr, ell)
    BY <2>1, <1>2, ExtendSlots
  <2> HIDE DEF aux, after, K
  <2> QED  BY <2>2 DEF ExtendedBy
<1>4. /\ DOMAIN aux = 1 .. Len(aux) /\ Len(aux) \in Nat /\ Len(aux) >= 1
      /\ DOMAIN after = (DOMAIN aux) \cup {Len(aux) + 1} /\ Len(aux) + 1 \notin DOMAIN aux
  <2> HIDE DEF aux, after
  <2>1. DOMAIN aux = 1 .. Len(aux) /\ Len(aux) \in Nat /\ Len(aux) # 0
    BY <1>1
  <2>2. DOMAIN after = 1 .. Len(aux) + 1
    BY <1>3
  <2> QED  BY <2>1, <2>2
<1>5. /\ new = [sk |-> set.sk, shift |-> set.shift, aux |-> after] /\ new \in SetDesc
      /\ new.aux = after /\ new.shift = set.shift
  BY <1>1, <1>3 DEF SetDesc, BatchDiff, CurrSet
<1>6. d = [sk |-> set.sk, shift |-> set.shift, aux_prev |-> aux, aux_curr |-> after]
  BY DEF BatchDiff
<1> HIDE DEF after, d, new
<1>7. Coverage(after) = n + nbr
  <2>1. Rows(after, DOMAIN aux) = Rows(aux, DOMAIN aux)
    BY <1>3 DEF Rows
  <2>2. Cardinality(Rows(after, (DOMAIN aux) \cup {Len(aux) + 1}))
        = Cardinality(Rows(after, DOMAIN aux)) + after[Len(aux) + 1].range
    <3> DEFINE J == DOMAIN aux  l == Len(aux) + 1
    <3>1. after \in Seq(Slot) /\ J \subseteq DOMAIN after /\ l \in DOMAIN after /\ l \notin J
      BY <1>3, <1>4
    <3> HIDE DEF J, l
    <3>2. Cardinality(Rows(after, J \cup {l})) = Cardinality(Rows(after, J)) + after[l].range
      BY <3>1, RowsAdd
    <3> QED  BY <3>2 DEF J, l
  <2> QED  BY <1>1, <1>3, <1>4, <2>1, <2>2 DEF Coverage
<1>8. WellFormed(new, n + nbr)
  <2>1. after # <<>>
    <3>1. Len(after) # 0
      BY <1>3, <1>4
    <3> QED  BY <3>1
  <2>2. after[1].range = aux[1].range
    BY <1>3, <1>4
  <2> QED  BY <1>1, <1>5, <1>7, <2>1, <2>2 DEF WellFormed
<1>9. ASSUME NEW i \in DOMAIN aux
      PROVE  /\ aux[i].cnt \in Nat /\ aux[i].cnt < UModulus /\ K[i] \in 0 .. ell
             /\ aux[i].range \in Nat
             /\ after[i].cnt = IF K[i] <= aux[i].cnt THEN aux[i].cnt - K[i]
                               ELSE aux[i].cnt - K[i] + UModulus
  <2>1. aux[i].cnt \in Nat /\ aux[i].cnt < UModulus /\ aux[i].range \in Nat
    BY SMTT(60), <1>1, SlotType, SizeAssumption DEF Count
  <2>2. K[i] \in 0 .. ell
    BY <1>2, KicksBound
  <2>3. /\ UModulus \in Nat /\ UModulus > 0 /\ aux[i].cnt - K[i] \in Int
        /\ -UModulus <= aux[i].cnt - K[i] /\ aux[i].cnt - K[i] < UModulus
    BY <1>2, <2>1, <2>2, SizeAssumption
  <2>4. (aux[i].cnt - K[i]) % UModulus = IF aux[i].cnt - K[i] >= 0 THEN aux[i].cnt - K[i]
                                        ELSE aux[i].cnt - K[i] + UModulus
    BY <2>3, ModBelow
  <2> QED  BY <1>3, <2>1, <2>2, <2>4
<1> HIDE DEF K
<1>10. CountsOk(new, n + nbr)
  <2>1. ASSUME NEW i \in DOMAIN aux
        PROVE  after[i].cnt <= after[i].range \/ after[i].cnt >= UModulus - (n + nbr)
    <3>1. aux[i].cnt <= aux[i].range \/ aux[i].cnt >= UModulus - n
      BY DEF CountsOk
    <3>2. after[i].range = aux[i].range
      BY <1>3
    <3>3. UModulus \in Nat /\ UModulus > n + nbr
      BY SizeAssumption
    <3> QED  BY <1>2, <1>9, <3>1, <3>2, <3>3
  <2>2. after[Len(aux) + 1].cnt <= after[Len(aux) + 1].range
    BY <1>2, <1>3
  <2> QED  BY <1>4, <1>5, <2>1, <2>2 DEF CountsOk
<1>11. /\ d \in DiffSetDesc /\ Appends(d) /\ PrevSet(d) = set
       /\ d.aux_prev = aux /\ d.aux_curr = after
  BY <1>1, <1>3, <1>6 DEF DiffSetDesc, Appends, PrevSet
<1>12. ASSUME Fits(set), NoUnderflow(aux, hits)
       PROVE  Fits(new) /\ Shrinks(d)
  <2>1. ASSUME NEW i \in DOMAIN aux
        PROVE  after[i].cnt <= after[i].range /\ after[i].cnt <= aux[i].cnt
    <3>1. aux[i].cnt <= aux[i].range /\ K[i] <= aux[i].cnt
      BY <1>12 DEF Fits, NoUnderflow, K
    <3>2. after[i].range = aux[i].range
      BY <1>3
    <3> QED  BY <1>2, <1>9, <3>1, <3>2
  <2>2. after[Len(aux) + 1].cnt <= after[Len(aux) + 1].range
    BY <1>2, <1>3
  <2> QED  BY <1>4, <1>5, <1>11, <2>1, <2>2 DEF Fits, Shrinks
<1> QED  BY <1>8, <1>10, <1>11, <1>12 DEF d, new

\* A set as the constructor and a refresh make it.
LEMMA SingleSlot ==
    ASSUME NEW k \in Key, NEW n \in 1 .. MaxDb, NEW m \in 0 .. n, NEW t \in 0 .. n - 1, NEW set,
           set = [sk |-> k, shift |-> t, aux |-> <<[range |-> n, cnt |-> m]>>]
    PROVE  WellFormed(set, n) /\ CountsOk(set, n) /\ Fits(set)
<1> DEFINE slot == [range |-> n, cnt |-> m]  aux == <<slot>>
<1>1. n \in Nat /\ m \in Count /\ t \in Nat
  BY SizeAssumption DEF Count
<1>2. slot \in Slot /\ slot.range = n /\ slot.cnt = m
  BY <1>1 DEF Slot
<1> HIDE DEF slot
<1>3. aux \in Seq(Slot) /\ DOMAIN aux = {1} /\ aux[1] = slot /\ aux # <<>>
  BY <1>2
<1>4. set.aux = aux /\ set.shift = t /\ set.sk = k
  BY DEF slot
<1> HIDE DEF aux
<1>5. set \in SetDesc
  BY <1>1, <1>3 DEF SetDesc, aux, slot
<1>6. Coverage(aux) = n
  BY <1>2, <1>3, RowsOfSlot DEF Coverage
<1>7. WellFormed(set, n)
  BY SMTT(60), <1>2, <1>3, <1>4, <1>5, <1>6 DEF WellFormed
<1>8. CountsOk(set, n) /\ Fits(set)
  BY <1>1, <1>2, <1>3, <1>4 DEF CountsOk, Fits
<1> QED  BY <1>7, <1>8

(***************************************************************************)
(* For a set whose old counts fit, the server neither throws nor reads     *)
(* outside of the database while it evaluates a difference.                *)
(***************************************************************************)
LEMMA DiffNeverThrows ==
    ASSUME NEW d, NEW n, NEW m, WellFormed(PrevSet(d), n), WellFormed(CurrSet(d), m),
           Fits(PrevSet(d)), Fits(CurrSet(d)), Appends(d)
    PROVE  ~DiffThrows(d)
<1>1. SUFFICES ASSUME NEW c \in DiffCells(d), c[2] >= d.aux_curr[c[1]].range
               PROVE  FALSE
  BY DEF DiffThrows
<1>2. /\ d.aux_prev \in Seq(Slot) /\ d.aux_curr \in Seq(Slot)
      /\ PrevSet(d).aux = d.aux_prev /\ CurrSet(d).aux = d.aux_curr
  BY DEF WellFormed, SetDesc, PrevSet, CurrSet
<1>3. c \in (DOMAIN d.aux_curr) \X Count
  BY DEF DiffCells
<1>4. c[1] \in DOMAIN d.aux_curr /\ c[2] \in Count
  BY <1>3, PairType
<1>5. c[2] \in Nat /\ c[1] \in Nat
  BY <1>2, <1>4, SizeAssumption DEF Count
<1>6. d.aux_curr[c[1]].range \in Nat /\ d.aux_curr[c[1]].cnt \in Nat
  BY <1>2, <1>4, SlotType, SizeAssumption DEF Count
<1>7. CASE c[1] <= Len(d.aux_prev)
  <2>1. c[1] \in DOMAIN d.aux_prev
    BY <1>2, <1>4, <1>7
  <2>2. d.aux_prev[c[1]].range \in Nat /\ d.aux_prev[c[1]].cnt \in Nat
    BY <1>2, <2>1, SlotType, SizeAssumption DEF Count
  <2>3. c[2] < d.aux_prev[c[1]].cnt
    BY <1>7 DEF DiffCells
  <2>4. d.aux_prev[c[1]].cnt <= d.aux_prev[c[1]].range
    BY <1>2, <2>1 DEF Fits
  <2>5. d.aux_curr[c[1]].range = d.aux_prev[c[1]].range
    BY <2>1 DEF Appends
  <2> QED  BY <1>1, <1>5, <2>2, <2>3, <2>4, <2>5
<1>8. CASE ~(c[1] <= Len(d.aux_prev))
  <2>1. c[2] < d.aux_curr[c[1]].cnt
    BY <1>8 DEF DiffCells
  <2>2. d.aux_curr[c[1]].cnt <= d.aux_curr[c[1]].range
    BY <1>2, <1>4 DEF Fits
  <2> QED  BY <1>1, <1>5, <1>6, <2>1, <2>2
<1> QED  BY <1>7, <1>8

\* What the server reads for a difference, unless it throws, is in the database.
LEMMA DiffBounds ==
    ASSUME NEW d, NEW m, WellFormed(CurrSet(d), m), ~DiffThrows(d)
    PROVE  DiffParity(d) \subseteq 0 .. m - 1
<1> DEFINE D == DOMAIN d.aux_curr
           f == [c \in DiffCells(d) |-> Position(CurrSet(d), D, c)]
<1>1. d.aux_curr \in Seq(Slot) /\ CurrSet(d).aux = d.aux_curr
  BY DEF WellFormed, SetDesc, CurrSet
<1>2. ASSUME NEW c \in DiffCells(d)
      PROVE  Position(CurrSet(d), D, c) \in 0 .. m - 1
  <2>1. c \in D \X Count
    BY DEF DiffCells
  <2>2. c[1] \in D /\ c[2] \in Count
    BY <2>1, PairType
  <2>3. c[2] \in Nat /\ d.aux_curr[c[1]].range \in Nat
    BY <1>1, <2>2, SlotType, SizeAssumption DEF Count
  <2>4. c[2] < d.aux_curr[c[1]].range
    BY <2>3 DEF DiffThrows
  <2>5. Count \subseteq Nat
    BY SizeAssumption DEF Count
  <2>6. c \in InRange(d.aux_curr, D)
    BY <2>1, <2>4, <2>5 DEF InRange
  <2> QED  BY <1>1, <2>6, PositionBounds
<1>3. DiffParity(d) = XorOf(f)
  BY DEF DiffParity
<1>4. XorOf(f) \subseteq {f[c] : c \in DiffCells(d)}
  BY DEF XorOf, Range
<1> QED  BY <1>2, <1>3, <1>4

\* The parity of distinct indices is their set.
LEMMA XorOfIndices ==
    ASSUME NEW S
    PROVE  XorOf([i \in S |-> i]) = S
<1>1. XorOf([i \in S |-> i]) = Range([i \in S |-> i])
  BY XorInjective
<1> QED  BY <1>1 DEF Range

(***************************************************************************)
(* A batch gives a set no row of the database before the batch that it did *)
(* not have: the new slot lies behind the old rows.                        *)
(***************************************************************************)
LEMMA BatchGainsNoOldRow ==
    ASSUME NEW d, NEW n, NEW m, WellFormed(PrevSet(d), n), WellFormed(CurrSet(d), m),
           Fits(PrevSet(d)), Fits(CurrSet(d)), Appends(d), Shrinks(d)
    PROVE  /\ Expand(PrevSet(d), n) \subseteq 0 .. n - 1
           /\ Expand(CurrSet(d), m) \cap (0 .. n - 1) \subseteq Expand(PrevSet(d), n)
<1> DEFINE prev == PrevSet(d)  cur == CurrSet(d)  P == DOMAIN d.aux_prev  C == DOMAIN d.aux_curr
<1>1. /\ d.aux_prev \in Seq(Slot) /\ d.aux_curr \in Seq(Slot)
      /\ prev.aux = d.aux_prev /\ cur.aux = d.aux_curr
  BY DEF WellFormed, SetDesc, PrevSet, CurrSet
<1>2. Expand(prev, n) = {Position(prev, P, c) : c \in Cells(d.aux_prev, P)}
  BY ZenonT(60), <1>1, FitsExpand DEF Image
<1>3. Expand(cur, m) = {Position(cur, C, c) : c \in Cells(d.aux_curr, C)}
  BY ZenonT(60), <1>1, FitsExpand DEF Image
<1>4. \A c \in Cells(d.aux_prev, P) : Position(prev, P, c) \in 0 .. n - 1
  <2>1. Cells(d.aux_prev, P) \subseteq InRange(d.aux_prev, P)
    BY <1>1, FitsInRange
  <2> QED  BY <1>1, <2>1, PositionBounds
<1>5. ASSUME NEW c \in Cells(d.aux_curr, C), Position(cur, C, c) \in 0 .. n - 1
      PROVE  Position(cur, C, c) \in Expand(prev, n)
  <2>1. c[1] \in C /\ c[2] \in Count /\ c[2] < d.aux_curr[c[1]].cnt /\ c \in C \X Count
    BY DEF Cells
  <2>2. CASE c[1] \in P
    <3>1. d.aux_curr[c[1]].cnt <= d.aux_prev[c[1]].cnt
      BY <2>2 DEF Shrinks
    <3>2. d.aux_curr[c[1]].cnt \in Nat /\ d.aux_prev[c[1]].cnt \in Nat /\ c[2] \in Nat
      BY <1>1, <2>1, <2>2, SlotType, SizeAssumption DEF Count
    <3>3. c \in Cells(d.aux_prev, P)
      BY <2>1, <2>2, <3>1, <3>2 DEF Cells
    <3>4. Position(prev, P, c) = Position(cur, C, c)
      BY <2>2, PositionKept
    <3> QED  BY <1>2, <3>3, <3>4
  <2>3. CASE c[1] \notin P
    <3>1. {j \in C : j < c[1]} = P
      BY <1>1, <2>1, <2>3 DEF Appends
    <3>2. Rows(d.aux_curr, P) = Rows(d.aux_prev, P)
      BY DEF Rows, Appends
    <3>3. AccumRange(d.aux_curr, C, c[1]) = n
      BY <1>1, <3>1, <3>2 DEF AccumRange, WellFormed, Coverage
    <3>4. c \in InRange(d.aux_curr, C)
      BY <1>1, <2>1, FitsInRange
    <3>5. AccumRange(d.aux_curr, C, c[1]) \in Nat
          /\ Position(cur, C, c) >= AccumRange(d.aux_curr, C, c[1])
      <4>1. d.aux_curr[c[1]].range \in Nat
        BY <1>1, <2>1, SlotType, SizeAssumption
      <4>2. LET base == AccumRange(d.aux_curr, C, c[1]) IN
            /\ base \in Nat
            /\ Position(cur, C, c) \in base .. base + d.aux_curr[c[1]].range - 1
        BY <1>1, <3>4, PositionBounds
      <4> HIDE DEF C, cur
      <4> QED  BY <4>1, <4>2
    <3> QED  BY <1>5, <3>3, <3>5
  <2> QED  BY <2>2, <2>3
<1> HIDE DEF prev, cur, P, C
<1>6. Expand(prev, n) \subseteq 0 .. n - 1
  BY <1>2, <1>4
<1>7. Expand(cur, m) \cap (0 .. n - 1) \subseteq Expand(prev, n)
  BY <1>3, <1>5
<1> QED  BY <1>6, <1>7 DEF prev, cur
-----------------------------------------------------------------------------
(* The invariants of IncPir *)

\* The numbers of sets and of rows are as assumed.
LEMMA Sizes ==
    /\ SetSize \in Nat /\ SetSize >= 2 /\ InitRange \in Nat /\ SetSize < InitRange
    /\ InitRange <= MaxDb /\ MaxDb \in Nat /\ MaxDb >= 1 /\ Index = 0 .. MaxDb - 1
    /\ 0 \in SetNos /\ NbrSets \in Nat
BY ParamAssumption, SizeAssumption DEF Index, SetNos

\* What a message of each type carries.
LEMMA MessageFields ==
    ASSUME NEW m \in Message
    PROVE  /\ m.type = "OFFLINE" => m.sets \in [SetNos -> SetDesc]
           /\ m.type = "PARITIES" => m.parities \in [SetNos -> SUBSET Index]
           /\ m.type = "ONLINE" => m.indices \in SUBSET Index
           /\ m.type = "PARITY" => m.parity \in SUBSET Index
           /\ m.type = "ADD" => m.diffsets \in [SetNos -> DiffSetDesc]
BY DEF Message

\* Every record of a message's shape is a message.
LEMMA MessageIntro ==
    /\ Nothing \in Message
    /\ \A x \in [SetNos -> SetDesc] : [type |-> "OFFLINE", sets |-> x] \in Message
    /\ \A x \in [SetNos -> SUBSET Index] : [type |-> "PARITIES", parities |-> x] \in Message
    /\ \A x \in SUBSET Index : [type |-> "ONLINE", indices |-> x] \in Message
    /\ \A x \in SUBSET Index : [type |-> "PARITY", parity |-> x] \in Message
    /\ \A x \in [SetNos -> DiffSetDesc] : [type |-> "ADD", diffsets |-> x] \in Message
BY DEF Message, Nothing

\* A set of naturals that is not empty has a least element.
LEMMA MinNat ==
    ASSUME NEW S, S \subseteq Nat, S # {}
    PROVE  Min(S) \in S /\ \A x \in S : Min(S) <= x
<1> DEFINE R == {p \in Nat \X Nat : p[1] < p[2]}
<1>1. IsWellFoundedOn(R, Nat)
  <2>1. IsWellFoundedOn(OpToRel(<, Nat), Nat)
    BY NatLessThanWellFounded
  <2>2. OpToRel(<, Nat) = R
    BY DEF OpToRel
  <2> QED  BY <2>1, <2>2
<1>2. \E x \in S : \A y \in S : x <= y
  <2>1. \E x \in S : \A y \in S : ~ (<<y, x>> \in R)
    <3> HIDE DEF R
    <3> QED  BY <1>1, WFMin
  <2>2. PICK x \in S : \A y \in S : ~ (<<y, x>> \in R)
    BY <2>1
  <2>3. ASSUME NEW y \in S
        PROVE  x <= y
    <3>1. ~ (<<y, x>> \in R) /\ y \in Nat /\ x \in Nat
      BY <2>2
    <3> QED  BY <3>1
  <2> QED  BY <2>3
<1> QED  BY <1>2 DEF Min

\* The members of a set are indices that the client knows of.
LEMMA MembersBounds ==
    ASSUME TypeOK, ShapeInv, NEW s \in SetNos
    PROVE  Members(s) \subseteq 0 .. dbrange - 1 /\ Members(s) \subseteq Index
<1>1. dbrange \in Nat /\ dbrange <= MaxDb
  BY Sizes DEF TypeOK
<1>2. Members(s) \subseteq 0 .. dbrange - 1
  BY <1>1, ExpandBounds DEF Members, ShapeInv
<1> QED  BY <1>1, <1>2, Sizes

\* The symmetric difference of sets of indices, and how it cancels.
LEMMA SymDiffFacts ==
    /\ \A A, B \in SUBSET Index : SymDiff(A, B) \in SUBSET Index
    /\ \A A : SymDiff({}, A) = A
    /\ \A A, B : SymDiff(A, SymDiff(A, B)) = B
    /\ \A A, x : x \in A => SymDiff(A \ {x}, A) = {x} /\ SymDiff(A \ {x}, {x}) = A
BY DEF SymDiff
-----------------------------------------------------------------------------
LEMMA InitIInv == Init => IInv
<1> SUFFICES ASSUME Init PROVE IInv
  OBVIOUS
<1>1. /\ dbrange = InitRange /\ dblen = InitRange /\ pc = "new" /\ net = Nothing
      /\ parities = [s \in SetNos |-> {}] /\ cur_qry_idx = 0 /\ curOk = FALSE
      /\ cur_qry_setno = 0 /\ cur_qry_blk = {} /\ sound = [s \in SetNos |-> TRUE]
  BY DEF Init
<1>2. net.type = "NOTHING"
  BY <1>1 DEF Nothing
<1>3. ASSUME NEW s \in SetNos
      PROVE  /\ WellFormed(sets[s], dbrange) /\ CountsOk(sets[s], dbrange) /\ Fits(sets[s])
             /\ sets[s] \in SetDesc
             /\ sets[s].aux = <<[range |-> InitRange, cnt |-> SetSize]>>
  <2>1. sets[s] \in [sk : Key, shift : 0 .. InitRange - 1,
                     aux : {<<[range |-> InitRange, cnt |-> SetSize]>>}]
    BY DEF Init
  <2>2. PICK k \in Key, t \in 0 .. InitRange - 1 :
          sets[s] = [sk |-> k, shift |-> t, aux |-> <<[range |-> InitRange, cnt |-> SetSize]>>]
    BY <2>1
  <2>3. InitRange \in 1 .. MaxDb /\ SetSize \in 0 .. InitRange
    BY Sizes
  <2>4. WellFormed(sets[s], InitRange) /\ CountsOk(sets[s], InitRange) /\ Fits(sets[s])
    BY <2>2, <2>3, SingleSlot
  <2>5. sets[s].aux = <<[range |-> InitRange, cnt |-> SetSize]>>
    BY <2>2
  <2> QED  BY <1>1, <2>4, <2>5 DEF WellFormed
<1>4. TypeOK
  <2>1. sets \in [SetNos -> SetDesc]
    <3>1. \E S : sets \in [SetNos -> S]
      BY DEF Init
    <3> QED  BY <1>3, <3>1
  <2>2. net \in Message
    BY <1>1, MessageIntro
  <2>3. parities \in [SetNos -> SUBSET Index] /\ sound \in [SetNos -> BOOLEAN]
    BY <1>1
  <2>4. /\ dbrange \in InitRange .. MaxDb /\ dblen \in InitRange .. MaxDb
        /\ cur_qry_idx \in Index /\ cur_qry_setno \in SetNos /\ cur_qry_blk \in SUBSET Index
    BY <1>1, Sizes
  <2>5. curOk \in BOOLEAN /\ pc \in {"new"}
    BY <1>1
  <2> QED  BY <2>1, <2>2, <2>3, <2>4, <2>5 DEF TypeOK
<1>5. TurnsInv
  BY <1>1, <1>2 DEF TurnsInv
<1>6. ShapeInv
  BY <1>1, <1>2, <1>3, Sizes DEF ShapeInv
<1>7. OfflineInv
  BY <1>1, <1>2, <1>3 DEF OfflineInv
<1>8. DiffInv /\ HintInv /\ QueryInv /\ RefreshInv /\ SoundNeverThrows
  BY <1>1, <1>2 DEF DiffInv, HintInv, QueryInv, RefreshInv, SoundNeverThrows
<1> QED  BY <1>4, <1>5, <1>6, <1>7, <1>8 DEF IInv
-----------------------------------------------------------------------------
(* The offline phase *)

LEMMA GenerateOfflineQueryStep ==
    ASSUME IInv, GenerateOfflineQuery PROVE IInv'
<1>1. /\ pc = "new" /\ pc' = "prep" /\ net' = [type |-> "OFFLINE", sets |-> sets]
      /\ UNCHANGED <<dbrange, sets, parities, cur_qry_setno, cur_qry_blk, dblen, cur_qry_idx,
                     sound, curOk>>
  BY DEF GenerateOfflineQuery, client
<1>2. TypeOK /\ ShapeInv /\ OfflineInv /\ TurnsInv
  BY DEF IInv
<1>3. net'.type = "OFFLINE" /\ net'.sets = sets /\ net.type = "NOTHING"
  BY <1>1, <1>2 DEF TurnsInv
<1>4. TypeOK'
  <2>1. net' \in Message
    BY <1>1, <1>2, MessageIntro DEF TypeOK
  <2> QED  BY <1>1, <1>2, <2>1 DEF TypeOK
<1>5. TurnsInv'
  BY <1>1, <1>3 DEF TurnsInv
<1>6. ShapeInv'
  BY <1>1, <1>2, <1>3 DEF ShapeInv
<1>7. OfflineInv'
  BY <1>1, <1>2, <1>3 DEF OfflineInv
<1>8. DiffInv' /\ HintInv' /\ QueryInv' /\ RefreshInv' /\ SoundNeverThrows'
  BY <1>1, <1>3 DEF DiffInv, HintInv, QueryInv, RefreshInv, SoundNeverThrows
<1> QED  BY <1>4, <1>5, <1>6, <1>7, <1>8 DEF IInv

LEMMA GenerateOfflineReplyStep ==
    ASSUME IInv, GenerateOfflineReply PROVE IInv'
<1> DEFINE P == [s \in SetNos |-> OfflineParity(net.sets[s], dblen, SetSize)]
<1>1. /\ net.type = "OFFLINE" /\ net' = [type |-> "PARITIES", parities |-> P]
      /\ UNCHANGED <<dbrange, sets, parities, cur_qry_setno, cur_qry_blk, dblen, cur_qry_idx,
                     sound, curOk, pc>>
  BY DEF GenerateOfflineReply, client
<1>2. TypeOK /\ ShapeInv /\ OfflineInv /\ TurnsInv
  BY DEF IInv
<1>3. pc = "prep"
  BY <1>1, <1>2 DEF TurnsInv, TypeOK
<1>4. /\ dbrange = InitRange /\ dblen = InitRange /\ net.sets = sets
      /\ \A s \in SetNos : /\ parities[s] = {}
                           /\ sets[s].aux = <<[range |-> InitRange, cnt |-> SetSize]>>
  BY <1>1, <1>2, <1>3 DEF OfflineInv
<1>5. \A s \in SetNos : P[s] = Members(s)
  <2> TAKE s \in SetNos
  <2>1. WellFormed(sets[s], InitRange)
    BY <1>2, <1>4 DEF ShapeInv
  <2>2. OfflineParity(sets[s], InitRange, SetSize) = Expand(sets[s], InitRange)
    <3>1. SetSize \in Nat /\ SetSize <= InitRange
      BY Sizes
    <3>2. sets[s].aux = <<[range |-> InitRange, cnt |-> SetSize]>>
      BY <1>4
    <3> QED  BY ONLY <2>1, <3>1, <3>2, OfflineParityIsExpansion
  <2> QED  BY <1>4, <2>2 DEF Members
<1>6. \A s \in SetNos : P[s] \in SUBSET Index
  BY <1>2, <1>5, MembersBounds
<1>7. P \in [SetNos -> SUBSET Index]
  BY <1>6
<1> HIDE DEF P
<1>8. net'.type = "PARITIES" /\ net'.parities = P
  BY <1>1
<1>9. TypeOK'
  <2>1. net' \in Message
    BY <1>1, <1>7, MessageIntro
  <2> QED  BY <1>1, <1>2, <2>1 DEF TypeOK
<1>10. TurnsInv'
  BY <1>1, <1>3, <1>8 DEF TurnsInv
<1>11. ShapeInv'
  BY <1>1, <1>2, <1>8 DEF ShapeInv
<1>12. OfflineInv'
  BY <1>1, <1>2, <1>8 DEF OfflineInv
<1>13. HintInv'
  <2>1. \A s \in SetNos : SymDiff(parities[s], P[s]) = Members(s) /\ Members(s)' = Members(s)
    BY <1>1, <1>4, <1>5, SymDiffFacts DEF Members
  <2> QED  BY <1>1, <1>3, <1>8, <2>1 DEF HintInv
<1>14. DiffInv' /\ QueryInv' /\ RefreshInv' /\ SoundNeverThrows'
  BY <1>1, <1>3, <1>8 DEF DiffInv, QueryInv, RefreshInv, SoundNeverThrows
<1> QED  BY <1>9, <1>10, <1>11, <1>12, <1>13, <1>14 DEF IInv

LEMMA UpdateParityStep ==
    ASSUME IInv, UpdateParity PROVE IInv'
<1> DEFINE P == [s \in SetNos |-> SymDiff(parities[s], net.parities[s])]
<1>1. /\ net.type = "PARITIES" /\ net' = Nothing /\ pc' = "ready" /\ parities' = P
      /\ UNCHANGED <<dbrange, sets, cur_qry_setno, cur_qry_blk, dblen, cur_qry_idx, sound, curOk>>
  BY DEF UpdateParity
<1>2. TypeOK /\ ShapeInv /\ TurnsInv /\ HintInv
  BY DEF IInv
<1>3. net.parities \in [SetNos -> SUBSET Index] /\ parities \in [SetNos -> SUBSET Index]
  BY <1>1, <1>2, MessageFields DEF TypeOK
<1>4. P \in [SetNos -> SUBSET Index]
  BY <1>3, SymDiffFacts
<1>5. net'.type = "NOTHING"
  BY <1>1 DEF Nothing
<1>6. TypeOK'
  <2>1. net' \in Message
    BY <1>1, MessageIntro
  <2> QED  BY <1>1, <1>2, <1>4, <2>1 DEF TypeOK
<1>7. TurnsInv'
  BY <1>1, <1>5 DEF TurnsInv
<1>8. ShapeInv'
  BY <1>1, <1>2, <1>5 DEF ShapeInv
<1>9. HintInv'
  <2>1. \A s \in SetNos : sound[s] => P[s] = Members(s)
    BY <1>1, <1>2 DEF HintInv
  <2>2. \A s \in SetNos : Members(s)' = Members(s)
    BY <1>1 DEF Members
  <2> QED  BY <1>1, <1>5, <2>1, <2>2 DEF HintInv
<1>10. OfflineInv' /\ DiffInv' /\ QueryInv' /\ RefreshInv' /\ SoundNeverThrows'
  BY <1>1, <1>5 DEF OfflineInv, DiffInv, QueryInv, RefreshInv, SoundNeverThrows
<1> QED  BY <1>6, <1>7, <1>8, <1>9, <1>10 DEF IInv
-----------------------------------------------------------------------------
(* The online phase *)

\* What probabilistic_remove leaves are indices below n again.
LEMMA RemoveBounds ==
    ASSUME NEW n \in Nat, NEW m, m \subseteq 0 .. n - 1, NEW idx \in 0 .. n - 1,
           NEW r, r \in {RemoveIndex(m, idx)} \cup RemoveOther(m, idx)
    PROVE  r \subseteq 0 .. n - 1 /\ (idx \notin r => r = m \ {idx})
BY DEF RemoveIndex, RemoveOther

LEMMA GenerateOnlineQueryStep ==
    ASSUME IInv, NEW idx \in Index, GenerateOnlineQuery(idx) PROVE IInv'
<1> DEFINE setno == IF HoldingSets(idx) = {} THEN 0 ELSE Min(HoldingSets(idx))
<1>1. TypeOK /\ ShapeInv /\ TurnsInv /\ HintInv
  BY DEF IInv
<1>2. setno \in SetNos
  <2>1. HoldingSets(idx) \subseteq SetNos /\ HoldingSets(idx) \subseteq Nat
    BY Sizes DEF HoldingSets, SetNos
  <2>2. HoldingSets(idx) # {} => Min(HoldingSets(idx)) \in HoldingSets(idx)
    BY <2>1, MinNat
  <2> QED  BY <2>1, <2>2, Sizes
<1> HIDE DEF setno
<1>3. PICK r \in {RemoveIndex(Members(setno), idx)} \cup RemoveOther(Members(setno), idx) :
        /\ net' = [type |-> "ONLINE", indices |-> r]
        /\ curOk' = (sound[setno] /\ idx \in Members(setno) /\ idx \notin r)
  BY DEF GenerateOnlineQuery, setno
<1>4. /\ pc \in {"ready", "recovered"} /\ idx < dbrange
      /\ cur_qry_setno' = setno /\ cur_qry_idx' = idx /\ pc' = "query"
      /\ UNCHANGED <<dbrange, sets, parities, cur_qry_blk, dblen, sound>>
  BY DEF GenerateOnlineQuery, Free, setno
<1>5. dbrange \in Nat /\ dbrange <= MaxDb /\ idx \in 0 .. dbrange - 1
  BY <1>1, <1>4, Sizes DEF TypeOK
<1>6. r \subseteq 0 .. dbrange - 1 /\ (idx \notin r => r = Members(setno) \ {idx})
  BY <1>1, <1>2, <1>5, MembersBounds, RemoveBounds
<1>7. r \in SUBSET Index
  BY <1>5, <1>6, Sizes
<1>8. net'.type = "ONLINE" /\ net'.indices = r /\ net.type = "NOTHING"
  BY <1>1, <1>3, <1>4 DEF TurnsInv
<1>9. \A s : Members(s)' = Members(s)
  BY <1>4 DEF Members
<1>10. TypeOK'
  <2>1. net' \in Message
    BY <1>3, <1>7, MessageIntro
  <2>2. curOk' \in BOOLEAN
    BY <1>3
  <2> QED  BY <1>1, <1>2, <1>4, <2>1, <2>2 DEF TypeOK
<1>11. TurnsInv'
  BY <1>4, <1>8 DEF TurnsInv
<1>12. ShapeInv'
  BY <1>1, <1>4, <1>6, <1>8 DEF ShapeInv
<1>13. HintInv'
  BY <1>1, <1>4, <1>8, <1>9 DEF HintInv
<1>14. QueryInv'
  BY <1>3, <1>4, <1>6, <1>8, <1>9 DEF QueryInv
<1>15. OfflineInv' /\ DiffInv' /\ RefreshInv' /\ SoundNeverThrows'
  BY <1>4, <1>8 DEF OfflineInv, DiffInv, RefreshInv, SoundNeverThrows
<1> QED  BY <1>10, <1>11, <1>12, <1>13, <1>14, <1>15 DEF IInv

LEMMA GenerateOnlineReplyStep ==
    ASSUME IInv, GenerateOnlineReply PROVE IInv'
<1>1. TypeOK /\ ShapeInv /\ TurnsInv /\ HintInv /\ QueryInv /\ RefreshInv
  BY DEF IInv
<1>2. /\ net.type = "ONLINE" /\ net' = [type |-> "PARITY", parity |-> net.indices]
      /\ UNCHANGED <<dbrange, sets, parities, cur_qry_setno, cur_qry_blk, dblen, cur_qry_idx,
                     sound, curOk, pc>>
  BY XorOfIndices DEF GenerateOnlineReply, client
<1>3. net'.type = "PARITY" /\ net'.parity = net.indices
  BY <1>2
<1>4. pc \in {"query", "refresh"}
  BY <1>1, <1>2 DEF TurnsInv, TypeOK
<1>5. \A s : Members(s)' = Members(s)
  BY <1>2 DEF Members
<1>6. cur_qry_setno \in SetNos
  BY <1>1 DEF TypeOK
<1>7. TypeOK'
  <2>1. net' \in Message
    BY <1>1, <1>2, MessageFields, MessageIntro DEF TypeOK
  <2> QED  BY <1>1, <1>2, <2>1 DEF TypeOK
<1>8. TurnsInv'
  BY <1>2, <1>3, <1>4 DEF TurnsInv
<1>9. ShapeInv'
  BY <1>1, <1>2, <1>3 DEF ShapeInv
<1>10. HintInv'
  BY <1>1, <1>2, <1>3, <1>5 DEF HintInv
<1>11. QueryInv'
  <2>1. ASSUME curOk, pc = "query"
        PROVE  /\ sound[cur_qry_setno] /\ cur_qry_idx \in Members(cur_qry_setno)
               /\ SymDiff(net.indices, parities[cur_qry_setno]) = {cur_qry_idx}
    <3>1. /\ sound[cur_qry_setno] /\ cur_qry_idx \in Members(cur_qry_setno)
          /\ net.indices = Members(cur_qry_setno) \ {cur_qry_idx}
      BY <1>1, <1>2, <2>1 DEF QueryInv
    <3>2. parities[cur_qry_setno] = Members(cur_qry_setno)
      BY <1>1, <1>6, <2>1, <3>1 DEF HintInv
    <3>3. SymDiff(Members(cur_qry_setno) \ {cur_qry_idx}, Members(cur_qry_setno)) = {cur_qry_idx}
      BY <3>1, SymDiffFacts
    <3> QED  BY <3>1, <3>2, <3>3
  <2> QED  BY <1>2, <1>3, <1>4, <1>5, <2>1 DEF QueryInv
<1>12. RefreshInv'
  <2>1. ASSUME pc = "refresh", sound[cur_qry_setno]
        PROVE  /\ cur_qry_blk = {cur_qry_idx} /\ cur_qry_idx \in Members(cur_qry_setno)
               /\ SymDiff(net.indices, cur_qry_blk) = Members(cur_qry_setno)
    BY ZenonT(60), <1>1, <1>2, <2>1, SymDiffFacts DEF RefreshInv
  <2> QED  BY <1>2, <1>3, <1>5, <2>1 DEF RefreshInv
<1>13. OfflineInv' /\ DiffInv' /\ SoundNeverThrows'
  BY <1>2, <1>3, <1>4 DEF OfflineInv, DiffInv, SoundNeverThrows
<1> QED  BY <1>7, <1>8, <1>9, <1>10, <1>11, <1>12, <1>13 DEF IInv

LEMMA QueryRecovStep ==
    ASSUME IInv, QueryRecov PROVE IInv'
<1>1. TypeOK /\ ShapeInv /\ HintInv /\ QueryInv
  BY DEF IInv
<1>2. /\ net.type = "PARITY" /\ pc = "query" /\ net' = Nothing /\ pc' = "recovered"
      /\ cur_qry_blk' = SymDiff(net.parity, parities[cur_qry_setno])
      /\ UNCHANGED <<dbrange, sets, parities, cur_qry_setno, dblen, cur_qry_idx, sound, curOk>>
  BY DEF QueryRecov
<1>3. net'.type = "NOTHING"
  BY <1>2 DEF Nothing
<1>4. \A s : Members(s)' = Members(s)
  BY <1>2 DEF Members
<1>5. TypeOK'
  <2>1. net' \in Message
    BY <1>2, MessageIntro
  <2>2. cur_qry_blk' \in SUBSET Index
    BY <1>1, <1>2, MessageFields, SymDiffFacts DEF TypeOK
  <2> QED  BY <1>1, <1>2, <2>1, <2>2 DEF TypeOK
<1>6. TurnsInv'
  BY <1>2, <1>3 DEF TurnsInv
<1>7. ShapeInv'
  BY <1>1, <1>2, <1>3 DEF ShapeInv
<1>8. HintInv'
  BY <1>1, <1>2, <1>3, <1>4 DEF HintInv
<1>9. QueryInv'
  BY <1>1, <1>2 DEF QueryInv
<1>10. OfflineInv' /\ DiffInv' /\ RefreshInv' /\ SoundNeverThrows'
  BY <1>2, <1>3 DEF OfflineInv, DiffInv, RefreshInv, SoundNeverThrows
<1> QED  BY <1>5, <1>6, <1>7, <1>8, <1>9, <1>10 DEF IInv

\* The shift that generate_refresh_query chooses puts idx at element r.
LEMMA RefreshShift ==
    ASSUME NEW n \in Nat, NEW idx \in 0 .. n - 1, NEW y \in 0 .. n - 1,
           NEW t, t = (idx + n - y) % n
    PROVE  t \in 0 .. n - 1 /\ (y + t) % n = idx
<1>1. n > 0 /\ idx + n - y \in Int /\ 0 <= idx + n - y /\ idx + n - y < 2 * n
  OBVIOUS
<1>2. t = IF idx + n - y < n THEN idx + n - y ELSE idx - y
  BY <1>1, ModAbove
<1>3. t \in 0 .. n - 1 /\ y + t \in Int /\ 0 <= y + t /\ y + t < 2 * n
  BY <1>1, <1>2
<1>4. y + t = idx \/ y + t = idx + n
  BY <1>1, <1>2
<1>5. (y + t) % n = IF y + t < n THEN y + t ELSE y + t - n
  BY <1>1, <1>3, ModAbove
<1> QED  BY <1>3, <1>4, <1>5

\* What generate_refresh_query makes of the set it replaces.
LEMMA RefreshedSet ==
    ASSUME NEW n \in 1 .. MaxDb, SetSize <= n, NEW idx \in 0 .. n - 1, NEW k \in Key,
           NEW r \in 0 .. SetSize - 1, NEW t, t = (idx + n - CycleWalk(r, n, k)) % n,
           NEW set, set = [sk |-> k, shift |-> t, aux |-> <<[range |-> n, cnt |-> SetSize]>>]
    PROVE  /\ WellFormed(set, n) /\ CountsOk(set, n) /\ Fits(set)
           /\ Expand(set, n) = {(CycleWalk(i, n, k) + t) % n : i \in 0 .. SetSize - 1}
           /\ idx \in Expand(set, n)
<1>1. n \in Nat /\ SetSize \in Nat /\ SetSize \in 0 .. n /\ r \in 0 .. n - 1
  BY Sizes
<1>2. CycleWalk(r, n, k) \in 0 .. n - 1
  BY <1>1, CycleWalkPermutes
<1>3. t \in 0 .. n - 1 /\ (CycleWalk(r, n, k) + t) % n = idx
  <2>1. PICK y \in 0 .. n - 1 : y = CycleWalk(r, n, k)
    BY <1>2
  <2>2. t = (idx + n - y) % n
    BY <2>1
  <2>3. t \in 0 .. n - 1 /\ (y + t) % n = idx
    BY <1>1, <2>1, <2>2, RefreshShift
  <2> QED  BY <2>1, <2>3
<1>4. WellFormed(set, n) /\ CountsOk(set, n) /\ Fits(set)
  BY <1>1, <1>3, SingleSlot
<1>5. set.sk = k /\ set.shift = t /\ set.aux = <<[range |-> n, cnt |-> SetSize]>>
  OBVIOUS
<1>6. Expand(set, n) = {(CycleWalk(i, n, set.sk) + set.shift) % n : i \in 0 .. SetSize - 1}
  BY <1>1, <1>4, <1>5, OfflineParityIsExpansion
<1>7. Expand(set, n) = {(CycleWalk(i, n, k) + t) % n : i \in 0 .. SetSize - 1}
  BY <1>5, <1>6
<1> QED  BY <1>3, <1>4, <1>7

LEMMA GenerateRefreshQueryStep ==
    ASSUME IInv, GenerateRefreshQuery PROVE IInv'
<1>1. TypeOK /\ ShapeInv /\ TurnsInv /\ HintInv /\ QueryInv
  BY DEF IInv
<1> DEFINE T(k, r) == (cur_qry_idx + dbrange - CycleWalk(r, dbrange, k)) % dbrange
           S(k, r) == [sk |-> k, shift |-> T(k, r), aux |-> <<[range |-> dbrange, cnt |-> SetSize]>>]
           M(k, r) == {(CycleWalk(i, dbrange, k) + S(k, r).shift) % dbrange : i \in 0 .. SetSize - 1}
<1>2. PICK k \in Key, r \in 0 .. SetSize - 1 :
        /\ sets' = [sets EXCEPT ![cur_qry_setno] = S(k, r)]
        /\ \E indices \in {RemoveIndex(M(k, r), cur_qry_idx)} \cup RemoveOther(M(k, r), cur_qry_idx) :
             /\ net' = [type |-> "ONLINE", indices |-> indices]
             /\ sound' = [sound EXCEPT ![cur_qry_setno] = curOk /\ cur_qry_idx \notin indices]
  BY DEF GenerateRefreshQuery
<1> DEFINE set == S(k, r)  t == T(k, r)  m == M(k, r)
<1>3. PICK w \in {RemoveIndex(m, cur_qry_idx)} \cup RemoveOther(m, cur_qry_idx) :
        /\ net' = [type |-> "ONLINE", indices |-> w]
        /\ sound' = [sound EXCEPT ![cur_qry_setno] = curOk /\ cur_qry_idx \notin w]
  BY <1>2
<1>3a. /\ set = [sk |-> k, shift |-> t, aux |-> <<[range |-> dbrange, cnt |-> SetSize]>>]
       /\ t = (cur_qry_idx + dbrange - CycleWalk(r, dbrange, k)) % dbrange
       /\ m = {(CycleWalk(i, dbrange, k) + t) % dbrange : i \in 0 .. SetSize - 1}
       /\ sets' = [sets EXCEPT ![cur_qry_setno] = set]
  BY <1>2
<1> HIDE DEF set, t, m
<1>4. /\ pc = "recovered" /\ pc' = "refresh"
      /\ UNCHANGED <<dbrange, parities, cur_qry_setno, cur_qry_blk, dblen, cur_qry_idx, curOk>>
  BY DEF GenerateRefreshQuery
<1>5. /\ dbrange \in 1 .. MaxDb /\ dbrange \in Nat /\ SetSize <= dbrange
      /\ cur_qry_idx \in 0 .. dbrange - 1 /\ cur_qry_setno \in SetNos
  BY <1>1, Sizes DEF TypeOK, ShapeInv
<1>6. /\ WellFormed(set, dbrange) /\ CountsOk(set, dbrange) /\ Fits(set)
      /\ Expand(set, dbrange) = m /\ cur_qry_idx \in m
  BY <1>5, <1>3a, RefreshedSet
<1>7. \A s \in SetNos : sets'[s] = IF s = cur_qry_setno THEN set ELSE sets[s]
  BY <1>1, <1>3a DEF TypeOK
<1>8. \A s \in SetNos : Members(s)' = IF s = cur_qry_setno THEN m ELSE Members(s)
  BY <1>4, <1>6, <1>7 DEF Members
<1>9. m \subseteq 0 .. dbrange - 1
  BY <1>5, <1>6, ExpandBounds
<1>10. w \subseteq 0 .. dbrange - 1 /\ (cur_qry_idx \notin w => w = m \ {cur_qry_idx})
  BY <1>5, <1>9, RemoveBounds
<1>11. w \in SUBSET Index
  BY <1>5, <1>10, Sizes
<1>12. net'.type = "ONLINE" /\ net'.indices = w /\ net.type = "NOTHING"
  BY <1>1, <1>3, <1>4 DEF TurnsInv
<1>13. /\ sound' \in [SetNos -> BOOLEAN]
       /\ \A s \in SetNos : s # cur_qry_setno => sound'[s] = sound[s]
       /\ sound'[cur_qry_setno] = (curOk /\ cur_qry_idx \notin w)
  <2>1. sound \in [SetNos -> BOOLEAN] /\ (curOk /\ cur_qry_idx \notin w) \in BOOLEAN
    BY <1>1 DEF TypeOK
  <2> QED  BY <1>3, <1>5, <2>1, Zenon
<1>14. TypeOK'
  <2>1. net' \in Message
    BY <1>3, <1>11, MessageIntro
  <2>2. sets' \in [SetNos -> SetDesc]
    BY <1>1, <1>6, <1>3a DEF TypeOK, WellFormed
  <2> QED  BY <1>1, <1>4, <1>13, <2>1, <2>2 DEF TypeOK
<1>15. TurnsInv'
  BY <1>4, <1>12 DEF TurnsInv
<1>16. ShapeInv'
  <2>1. \A s \in SetNos : /\ WellFormed(sets'[s], dbrange) /\ CountsOk(sets'[s], dbrange)
                          /\ sound'[s] => Fits(sets'[s])
    BY <1>1, <1>6, <1>7, <1>13 DEF ShapeInv
  <2> QED  BY <1>1, <1>4, <1>10, <1>12, <2>1 DEF ShapeInv
<1>17. HintInv'
  BY <1>1, <1>4, <1>8, <1>12, <1>13 DEF HintInv
<1>18. RefreshInv'
  <2>1. ASSUME sound'[cur_qry_setno]
        PROVE  /\ cur_qry_blk = {cur_qry_idx} /\ cur_qry_idx \in m
               /\ w = m \ {cur_qry_idx}
    BY <1>1, <1>4, <1>6, <1>10, <1>13, <2>1 DEF QueryInv
  <2>2. Members(cur_qry_setno)' = m
    BY <1>5, <1>8, <1>4
  <2> QED  BY <1>4, <1>12, <2>1, <2>2 DEF RefreshInv
<1>19. OfflineInv' /\ DiffInv' /\ QueryInv' /\ SoundNeverThrows'
  BY <1>4, <1>12 DEF OfflineInv, DiffInv, QueryInv, SoundNeverThrows
<1> QED  BY <1>14, <1>15, <1>16, <1>17, <1>18, <1>19 DEF IInv

LEMMA RefreshRecovStep ==
    ASSUME IInv, RefreshRecov PROVE IInv'
<1> DEFINE P == [parities EXCEPT ![cur_qry_setno] = SymDiff(net.parity, cur_qry_blk)]
<1>1. TypeOK /\ ShapeInv /\ HintInv /\ RefreshInv
  BY DEF IInv
<1>2. /\ net.type = "PARITY" /\ pc = "refresh" /\ net' = Nothing /\ pc' = "ready"
      /\ parities' = P
      /\ UNCHANGED <<dbrange, sets, cur_qry_setno, cur_qry_blk, dblen, cur_qry_idx, sound, curOk>>
  BY DEF RefreshRecov
<1>3. net'.type = "NOTHING"
  BY <1>2 DEF Nothing
<1>4. \A s : Members(s)' = Members(s)
  BY <1>2 DEF Members
<1>5. /\ P \in [SetNos -> SUBSET Index]
      /\ \A s \in SetNos : P[s] = IF s = cur_qry_setno THEN SymDiff(net.parity, cur_qry_blk)
                                                       ELSE parities[s]
  <2>1. SymDiff(net.parity, cur_qry_blk) \in SUBSET Index
    BY <1>1, <1>2, MessageFields, SymDiffFacts DEF TypeOK
  <2>2. parities \in [SetNos -> SUBSET Index] /\ cur_qry_setno \in SetNos
    BY <1>1 DEF TypeOK
  <2> QED  BY <2>1, <2>2
<1> HIDE DEF P
<1>6. TypeOK'
  <2>1. net' \in Message
    BY <1>2, MessageIntro
  <2> QED  BY <1>1, <1>2, <1>5, <2>1 DEF TypeOK
<1>7. TurnsInv'
  BY <1>2, <1>3 DEF TurnsInv
<1>8. ShapeInv'
  BY <1>1, <1>2, <1>3 DEF ShapeInv
<1>9. HintInv'
  <2>1. \A s \in SetNos : sound[s] => P[s] = Members(s)
    BY <1>1, <1>2, <1>5 DEF HintInv, RefreshInv
  <2> QED  BY <1>2, <1>3, <1>4, <2>1 DEF HintInv
<1>10. OfflineInv' /\ DiffInv' /\ QueryInv' /\ RefreshInv' /\ SoundNeverThrows'
  BY <1>2, <1>3 DEF OfflineInv, DiffInv, QueryInv, RefreshInv, SoundNeverThrows
<1> QED  BY <1>6, <1>7, <1>8, <1>9, <1>10 DEF IInv
-----------------------------------------------------------------------------
(* Batched additions *)

LEMMA AddElementsStep ==
    ASSUME IInv, NEW n \in BatchSizes, AddElements(n) PROVE IInv'
<1>1. TypeOK /\ ShapeInv /\ TurnsInv /\ HintInv /\ QueryInv /\ RefreshInv /\ DiffInv
      /\ SoundNeverThrows
  BY DEF IInv
<1>2. /\ pc \notin {"new", "prep"} /\ dblen' = dblen + n /\ dblen + n <= MaxDb
      /\ UNCHANGED <<dbrange, sets, parities, cur_qry_setno, cur_qry_blk, cur_qry_idx, net,
                     sound, curOk, pc>>
  BY DEF AddElements, client
<1>3. n \in Nat /\ n > 0 /\ dblen \in Nat /\ dbrange \in Nat /\ InitRange <= dblen
  BY <1>1, ParamAssumption DEF TypeOK
<1>4. \A s : Members(s)' = Members(s)
  BY <1>2 DEF Members
<1>5. TypeOK'
  <2>1. dblen' \in InitRange .. MaxDb
    BY <1>2, <1>3, Sizes
  <2> QED  BY <1>1, <1>2, <2>1 DEF TypeOK
<1>6. ShapeInv'
  <2>1. net.type # "ADD" => dbrange <= dblen'
    BY <1>1, <1>2, <1>3 DEF ShapeInv
  <2> QED  BY <1>1, <1>2, <2>1 DEF ShapeInv
<1>7. TurnsInv' /\ OfflineInv' /\ SoundNeverThrows'
  BY <1>1, <1>2 DEF TurnsInv, OfflineInv, SoundNeverThrows
<1>8. HintInv' /\ QueryInv' /\ RefreshInv' /\ DiffInv'
  BY <1>1, <1>2, <1>4 DEF HintInv, QueryInv, RefreshInv, DiffInv
<1> QED  BY <1>5, <1>6, <1>7, <1>8 DEF IInv

\* A set takes in at most as many elements as there are new rows.
LEMMA DrawsBound ==
    ASSUME NEW n \in Nat, NEW hits \in Draws(n), NEW s \in SetNos
    PROVE  \E ell \in 0 .. n : \E U : hits[s] \in [1 .. ell -> U]
<1> DEFINE T == UNION {FallSlots(sets[z].aux) : z \in SetNos}
<1>1. hits[s] \in UNION {[1 .. ell -> T] : ell \in 0 .. Min({n, SetSize})}
  BY DEF Draws
<1> HIDE DEF T
<1>2. Min({n, SetSize}) <= n
  BY Sizes, MinNat
<1>3. Min({n, SetSize}) \in Nat
  BY Sizes, MinNat
<1>4. PICK ell \in 0 .. Min({n, SetSize}) : hits[s] \in [1 .. ell -> T]
  BY <1>1
<1>5. ell \in 0 .. n
  BY <1>2, <1>3, <1>4
<1> QED  BY <1>4, <1>5

LEMMA BatchedAdditionQueryStep ==
    ASSUME IInv, NEW n \in BatchSizes, BatchedAdditionQuery(n) PROVE IInv'
<1>1. TypeOK /\ ShapeInv /\ TurnsInv /\ HintInv
  BY DEF IInv
<1>2. PICK hits \in Draws(n) :
        LET D == [s \in SetNos |-> BatchDiff(sets[s], hits[s], n)] IN
        /\ sets' = [s \in SetNos |-> CurrSet(D[s])]
        /\ net' = [type |-> "ADD", diffsets |-> D]
        /\ sound' = [s \in SetNos |-> sound[s] /\ NoUnderflow(sets[s].aux, hits[s])]
  BY DEF BatchedAdditionQuery
<1> DEFINE D == [s \in SetNos |-> BatchDiff(sets[s], hits[s], n)]
<1>3. /\ pc \in {"ready", "recovered"} /\ pc' = "update"
      /\ dbrange' = dbrange + n /\ dbrange + n <= MaxDb
      /\ UNCHANGED <<parities, cur_qry_setno, cur_qry_blk, dblen, cur_qry_idx, curOk>>
  BY DEF BatchedAdditionQuery, Free
<1>4. n \in Nat \ {0} /\ n \in Nat /\ dbrange \in Nat /\ InitRange <= dbrange
  BY <1>1, Sizes, ParamAssumption DEF TypeOK
<1>5. ASSUME NEW s \in SetNos
      PROVE  /\ WellFormed(CurrSet(D[s]), dbrange + n) /\ CountsOk(CurrSet(D[s]), dbrange + n)
             /\ D[s] \in DiffSetDesc /\ Appends(D[s]) /\ PrevSet(D[s]) = sets[s]
             /\ Fits(sets[s]) /\ NoUnderflow(sets[s].aux, hits[s])
                  => Fits(CurrSet(D[s])) /\ Shrinks(D[s])
             /\ D[s].aux_prev = sets[s].aux
  <2>1. WellFormed(sets[s], dbrange) /\ CountsOk(sets[s], dbrange)
    BY <1>1 DEF ShapeInv
  <2>2a. PICK ell \in 0 .. n : \E U : hits[s] \in [1 .. ell -> U]
    BY <1>4, DrawsBound
  <2>2. PICK U : hits[s] \in [1 .. ell -> U]
    BY <2>2a
  <2> DEFINE d == BatchDiff(sets[s], hits[s], n)
  <2>3. /\ WellFormed(CurrSet(d), dbrange + n) /\ CountsOk(CurrSet(d), dbrange + n)
        /\ d \in DiffSetDesc /\ Appends(d) /\ PrevSet(d) = sets[s]
        /\ Fits(sets[s]) /\ NoUnderflow(sets[s].aux, hits[s]) => Fits(CurrSet(d)) /\ Shrinks(d)
    BY <1>3, <1>4, <2>1, <2>2a, <2>2, ExtendKeeps
  <2>4. d.aux_prev = sets[s].aux
    BY DEF BatchDiff
  <2>5. D[s] = d
    OBVIOUS
  <2> HIDE DEF d, D
  <2> QED  BY <2>3, <2>4, <2>5
<1>6. D \in [SetNos -> DiffSetDesc]
  <2>1. \A s \in SetNos : D[s] \in DiffSetDesc
    <3> HIDE DEF D
    <3> QED  BY <1>5
  <2> QED  BY <2>1
<1>7. /\ sets' = [s \in SetNos |-> CurrSet(D[s])]
      /\ net' = [type |-> "ADD", diffsets |-> D]
      /\ sound' = [s \in SetNos |-> sound[s] /\ NoUnderflow(sets[s].aux, hits[s])]
  BY <1>2
<1> HIDE DEF D
<1>8. net'.type = "ADD" /\ net'.diffsets = D
  BY <1>7
<1>9. \A s \in SetNos : sets'[s] = CurrSet(D[s])
  BY <1>7
<1>10. TypeOK'
  <2>1. sets' \in [SetNos -> SetDesc]
    BY <1>5, <1>7 DEF WellFormed
  <2>2. net' \in Message
    BY <1>6, <1>7, MessageIntro
  <2>3. sound' \in [SetNos -> BOOLEAN]
    <3>1. \A s \in SetNos : (sound[s] /\ NoUnderflow(sets[s].aux, hits[s])) \in BOOLEAN
      OBVIOUS
    <3> QED  BY <1>7, <3>1
  <2>4. dbrange' \in InitRange .. MaxDb
    BY <1>3, <1>4, Sizes
  <2> QED  BY <1>1, <1>3, <2>1, <2>2, <2>3, <2>4 DEF TypeOK
<1>11. TurnsInv'
  BY <1>3, <1>8 DEF TurnsInv
<1>12. \A s \in SetNos : sound'[s] => sound[s] /\ NoUnderflow(sets[s].aux, hits[s])
  BY <1>7
<1>13. ShapeInv'
  <2>1. cur_qry_idx < dbrange + n
    BY <1>1, <1>4, Sizes DEF ShapeInv, TypeOK
  <2>2. \A s \in SetNos : sound'[s] => Fits(CurrSet(D[s]))
    BY <1>1, <1>5, <1>12 DEF ShapeInv
  <2> QED  BY <1>3, <1>5, <1>8, <1>9, <2>1, <2>2 DEF ShapeInv
<1>14. DiffInv'
  <2>1. \A s \in SetNos : WellFormed(PrevSet(D[s]), Coverage(D[s].aux_prev))
    <3>1. \A s \in SetNos : WellFormed(sets[s], Coverage(sets[s].aux))
      BY <1>1 DEF ShapeInv, WellFormed
    <3> QED  BY <1>5, <3>1
  <2> QED  BY <1>5, <1>8, <1>9, <2>1 DEF DiffInv
<1>15. HintInv'
  <2>1. ASSUME NEW s \in SetNos, sound'[s]
        PROVE  /\ Fits(PrevSet(D[s])) /\ Shrinks(D[s])
               /\ parities[s] = Expand(PrevSet(D[s]), Coverage(D[s].aux_prev))
    <3>1. Fits(sets[s]) /\ sound[s] /\ NoUnderflow(sets[s].aux, hits[s])
      BY <1>1, <1>12, <2>1 DEF ShapeInv
    <3>2. parities[s] = Expand(sets[s], dbrange)
      BY <1>1, <1>3, <3>1 DEF HintInv, Members
    <3>3. Coverage(sets[s].aux) = dbrange
      BY <1>1 DEF ShapeInv, WellFormed
    <3> QED  BY <1>5, <3>1, <3>2, <3>3
  <2> QED  BY <1>3, <1>8, <2>1 DEF HintInv
<1>16. OfflineInv' /\ QueryInv' /\ RefreshInv' /\ SoundNeverThrows'
  BY <1>3, <1>8 DEF OfflineInv, QueryInv, RefreshInv, SoundNeverThrows
<1> QED  BY <1>10, <1>11, <1>13, <1>14, <1>15, <1>16 DEF IInv

LEMMA BatchedAdditionReplyStep ==
    ASSUME IInv, BatchedAdditionReply PROVE IInv'
<1> DEFINE P == [s \in SetNos |-> DiffParity(net.diffsets[s])]
<1>1. TypeOK /\ ShapeInv /\ TurnsInv /\ HintInv /\ DiffInv
  BY DEF IInv
<1>2. /\ net.type = "ADD" /\ dbrange <= dblen /\ net' = [type |-> "PARITIES", parities |-> P]
      /\ \A s \in SetNos : ~DiffThrows(net.diffsets[s])
      /\ UNCHANGED <<dbrange, sets, parities, cur_qry_setno, cur_qry_blk, dblen, cur_qry_idx,
                     sound, curOk, pc>>
  BY DEF BatchedAdditionReply, client
<1>3. pc = "update"
  BY <1>1, <1>2 DEF TurnsInv, TypeOK
<1>4. \A s \in SetNos : /\ CurrSet(net.diffsets[s]) = sets[s]
                        /\ WellFormed(CurrSet(net.diffsets[s]), dbrange)
  BY <1>1, <1>2 DEF DiffInv, ShapeInv
<1>5. P \in [SetNos -> SUBSET Index]
  <2>1. \A s \in SetNos : DiffParity(net.diffsets[s]) \subseteq 0 .. dbrange - 1
    BY <1>2, <1>4, DiffBounds
  <2>2. 0 .. dbrange - 1 \subseteq Index
    BY <1>1, Sizes DEF TypeOK
  <2> QED  BY <2>1, <2>2
<1>6. \A s : Members(s)' = Members(s)
  BY <1>2 DEF Members
<1>7. ASSUME NEW s \in SetNos, sound[s]
      PROVE  SymDiff(parities[s], P[s]) = Members(s)
  <2> DEFINE d == net.diffsets[s]
             A == Expand(PrevSet(d), Coverage(d.aux_prev))
             B == Expand(CurrSet(d), dbrange)
  <2>1. /\ WellFormed(PrevSet(d), Coverage(d.aux_prev)) /\ Appends(d) /\ Fits(PrevSet(d))
        /\ Shrinks(d) /\ parities[s] = A
    BY <1>1, <1>2, <1>7 DEF DiffInv, HintInv
  <2>2. WellFormed(CurrSet(d), dbrange) /\ Fits(CurrSet(d)) /\ B = Members(s)
    BY <1>1, <1>4, <1>7 DEF ShapeInv, Members
  <2>3. P[s] = DiffParity(d)
    OBVIOUS
  <2> HIDE DEF P
  <2>4. DiffParity(d) = SymDiff(A, B)
    <3> HIDE DEF d
    <3> QED  BY <2>1, <2>2, DiffParityIsDifference
  <2> HIDE DEF A, B, d
  <2> QED  BY <2>1, <2>2, <2>3, <2>4, SymDiffFacts
<1> HIDE DEF P
<1>8. net'.type = "PARITIES" /\ net'.parities = P
  BY <1>2
<1>9. TypeOK'
  <2>1. net' \in Message
    BY <1>2, <1>5, MessageIntro
  <2> QED  BY <1>1, <1>2, <2>1 DEF TypeOK
<1>10. TurnsInv'
  BY <1>2, <1>3, <1>8 DEF TurnsInv
<1>11. ShapeInv'
  BY <1>1, <1>2, <1>8 DEF ShapeInv
<1>12. HintInv'
  BY <1>2, <1>3, <1>6, <1>7, <1>8 DEF HintInv
<1>13. OfflineInv' /\ DiffInv' /\ QueryInv' /\ RefreshInv' /\ SoundNeverThrows'
  BY <1>2, <1>3, <1>8 DEF OfflineInv, DiffInv, QueryInv, RefreshInv, SoundNeverThrows
<1> QED  BY <1>9, <1>10, <1>11, <1>12, <1>13 DEF IInv

LEMMA BatchedAdditionThrowsStep ==
    ASSUME IInv, BatchedAdditionThrows PROVE IInv'
<1>1. TypeOK /\ ShapeInv /\ HintInv /\ DiffInv
  BY DEF IInv
<1>2. /\ net.type = "ADD" /\ dbrange <= dblen /\ net' = Nothing /\ pc' = "aborted"
      /\ \E s \in SetNos : DiffThrows(net.diffsets[s])
      /\ UNCHANGED <<dbrange, sets, parities, cur_qry_setno, cur_qry_blk, dblen, cur_qry_idx,
                     sound, curOk>>
  BY DEF BatchedAdditionThrows, client
<1>3. net'.type = "NOTHING"
  BY <1>2 DEF Nothing
<1>4. SoundNeverThrows'
  <2>1. PICK s \in SetNos : DiffThrows(net.diffsets[s])
    BY <1>2
  <2>2. ASSUME sound[s]
        PROVE  FALSE
    <3> DEFINE d == net.diffsets[s]
    <3>1. /\ WellFormed(PrevSet(d), Coverage(d.aux_prev)) /\ Appends(d) /\ Fits(PrevSet(d))
          /\ WellFormed(CurrSet(d), dbrange) /\ Fits(CurrSet(d))
      BY <1>1, <1>2, <2>2 DEF DiffInv, HintInv, ShapeInv
    <3> HIDE DEF d
    <3>2. ~DiffThrows(d)
      BY <3>1, DiffNeverThrows
    <3> QED  BY <2>1, <3>2 DEF d
  <2>3. ~sound'[s]
    BY <1>2, <2>2
  <2> QED  BY <2>3 DEF SoundNeverThrows
<1>5. TypeOK'
  <2>1. net' \in Message
    BY <1>2, MessageIntro
  <2> QED  BY <1>1, <1>2, <2>1 DEF TypeOK
<1>6. TurnsInv'
  BY <1>2, <1>3 DEF TurnsInv
<1>7. ShapeInv'
  BY <1>1, <1>2, <1>3 DEF ShapeInv
<1>8. OfflineInv' /\ DiffInv' /\ HintInv' /\ QueryInv' /\ RefreshInv'
  BY <1>2, <1>3 DEF OfflineInv, DiffInv, HintInv, QueryInv, RefreshInv
<1> QED  BY <1>4, <1>5, <1>6, <1>7, <1>8 DEF IInv
-----------------------------------------------------------------------------
(* The theorems *)

LEMMA NextIInv == IInv /\ [Next]_vars => IInv'
<1> SUFFICES ASSUME IInv, [Next]_vars PROVE IInv'
  OBVIOUS
<1>1. CASE GenerateOfflineQuery
  BY <1>1, GenerateOfflineQueryStep
<1>2. CASE GenerateOfflineReply
  BY <1>2, GenerateOfflineReplyStep
<1>3. CASE UpdateParity
  BY <1>3, UpdateParityStep
<1>4. CASE \E idx \in Index : GenerateOnlineQuery(idx)
  BY <1>4, GenerateOnlineQueryStep
<1>5. CASE GenerateOnlineReply
  BY <1>5, GenerateOnlineReplyStep
<1>6. CASE QueryRecov
  BY <1>6, QueryRecovStep
<1>7. CASE GenerateRefreshQuery
  BY <1>7, GenerateRefreshQueryStep
<1>8. CASE RefreshRecov
  BY <1>8, RefreshRecovStep
<1>9. CASE \E n \in BatchSizes : AddElements(n)
  BY <1>9, AddElementsStep
<1>10. CASE \E n \in BatchSizes : BatchedAdditionQuery(n)
  BY <1>10, BatchedAdditionQueryStep
<1>11. CASE BatchedAdditionReply
  BY <1>11, BatchedAdditionReplyStep
<1>12. CASE BatchedAdditionThrows
  BY <1>12, BatchedAdditionThrowsStep
<1>13. CASE UNCHANGED vars
  <2>1. /\ UNCHANGED <<dbrange, sets, parities, cur_qry_setno, cur_qry_blk, dblen, pc,
                       cur_qry_idx, net, sound, curOk>>
        /\ \A s : Members(s)' = Members(s)
    BY <1>13 DEF vars, client, Members
  <2> QED
    BY <2>1 DEF IInv, TypeOK, TurnsInv, ShapeInv, OfflineInv, DiffInv, HintInv, QueryInv,
                RefreshInv, SoundNeverThrows
<1> QED
  BY <1>1, <1>2, <1>3, <1>4, <1>5, <1>6, <1>7, <1>8, <1>9, <1>10, <1>11, <1>12, <1>13 DEF Next

(***************************************************************************)
(* IInv holds of every state that the client and the server reach, however *)
(* they interleave queries, refreshes and batches with additions.          *)
(***************************************************************************)
THEOREM InductiveInvariant == Spec => []IInv
<1>1. Init => IInv
  BY InitIInv
<1>2. IInv /\ [Next]_vars => IInv'
  BY NextIInv
<1> QED  BY <1>1, <1>2, PTL DEF Spec

\* Every variable of the client, the server and the driver keeps its type.
THEOREM TypeCorrect == Spec => []TypeOK
<1>1. IInv => TypeOK
  BY DEF IInv
<1> QED  BY <1>1, InductiveInvariant, PTL

(***************************************************************************)
(* A parity in localhints.parities is that of exactly the indices which    *)
(* its set description expands to, as long as no query or refresh sent the *)
(* queried index in clear and no batch drew a slot too often.              *)
(***************************************************************************)
THEOREM HintsStayExact == Spec => []HintExact
<1>1. IInv => HintExact
  BY DEF IInv, HintInv, HintExact
<1> QED  BY <1>1, InductiveInvariant, PTL

\* query_recov recovers the block at the queried index.
THEOREM QueriesRecover == Spec => []RecoverExact
<1>1. IInv => RecoverExact
  BY DEF IInv, QueryInv, RecoverExact
<1> QED  BY <1>1, InductiveInvariant, PTL

\* batched_addition_reply throws for no client whose hints are all unspoilt.
THEOREM BatchesOfSoundSetsSucceed == Spec => []SoundNeverThrows
<1>1. IInv => SoundNeverThrows
  BY DEF IInv
<1> QED  BY <1>1, InductiveInvariant, PTL

\* The server reads no block outside of its database.
THEOREM ServerReadsInBounds == Spec => []ServerInBounds
<1>1. IInv => ServerInBounds
  <2> SUFFICES ASSUME IInv PROVE ServerInBounds
    OBVIOUS
  <2>1. ShapeInv /\ DiffInv /\ dbrange \in Nat /\ dblen \in Nat
    BY Sizes DEF IInv, TypeOK
  <2>2. ASSUME net.type = "ONLINE"
        PROVE  net.indices \subseteq 0 .. dblen - 1
    <3>1. net.indices \subseteq 0 .. dbrange - 1 /\ dbrange <= dblen
      BY <2>1, <2>2 DEF ShapeInv
    <3>2. 0 .. dbrange - 1 \subseteq 0 .. dblen - 1
      BY <2>1, <3>1
    <3> QED  BY <3>1, <3>2
  <2>3. ASSUME net.type = "ADD", dbrange <= dblen, NEW s \in SetNos, ~DiffThrows(net.diffsets[s])
        PROVE  DiffParity(net.diffsets[s]) \subseteq 0 .. dblen - 1
    <3> DEFINE d == net.diffsets[s]
    <3>1. WellFormed(CurrSet(d), dbrange)
      BY <2>1, <2>3 DEF DiffInv, ShapeInv
    <3>2. DiffParity(d) \subseteq 0 .. dbrange - 1
      <4> HIDE DEF d
      <4> QED  BY <2>3, <3>1, DiffBounds DEF d
    <3>3. 0 .. dbrange - 1 \subseteq 0 .. dblen - 1
      BY <2>1, <2>3
    <3> QED  BY <3>2, <3>3
  <2> QED  BY <2>2, <2>3 DEF ServerInBounds
<1> QED  BY <1>1, InductiveInvariant, PTL
-----------------------------------------------------------------------------
(* The client and the server implement HintStore. *)

\* A batch leaves the parity of a sound set, and gives the set no old row.
LEMMA BatchGrows ==
    ASSUME IInv, NEW n \in BatchSizes, BatchedAdditionQuery(n), NEW s \in SetNos, sound'[s]
    PROVE  /\ sound[s] /\ parities'[s] = Members(s) /\ parities'[s] \subseteq 0 .. dbrange - 1
           /\ Members(s)' \cap (0 .. dbrange - 1) \subseteq parities'[s]
<1>1. TypeOK /\ ShapeInv /\ HintInv
  BY DEF IInv
<1>2. PICK hits \in Draws(n) :
        LET D == [z \in SetNos |-> BatchDiff(sets[z], hits[z], n)] IN
        /\ sets' = [z \in SetNos |-> CurrSet(D[z])]
        /\ sound' = [z \in SetNos |-> sound[z] /\ NoUnderflow(sets[z].aux, hits[z])]
  BY DEF BatchedAdditionQuery
<1> DEFINE d == BatchDiff(sets[s], hits[s], n)
<1>3. /\ pc \in {"ready", "recovered"} /\ parities' = parities
      /\ dbrange' = dbrange + n /\ dbrange + n <= MaxDb
  BY DEF BatchedAdditionQuery, Free
<1>4. n \in Nat \ {0} /\ n \in Nat /\ dbrange \in Nat
  BY <1>1, Sizes, ParamAssumption DEF TypeOK
<1>5. sets'[s] = CurrSet(d) /\ sound[s] /\ NoUnderflow(sets[s].aux, hits[s])
  BY <1>2
<1>6. WellFormed(sets[s], dbrange) /\ CountsOk(sets[s], dbrange) /\ Fits(sets[s])
  BY <1>1, <1>5 DEF ShapeInv
<1>7. /\ WellFormed(CurrSet(d), dbrange + n) /\ Appends(d) /\ PrevSet(d) = sets[s]
      /\ Fits(CurrSet(d)) /\ Shrinks(d)
  <2>1. PICK ell \in 0 .. n : \E U : hits[s] \in [1 .. ell -> U]
    BY <1>4, DrawsBound
  <2>2. PICK U : hits[s] \in [1 .. ell -> U]
    BY <2>1
  <2>3. /\ WellFormed(CurrSet(d), dbrange + n) /\ Appends(d) /\ PrevSet(d) = sets[s]
        /\ Fits(sets[s]) /\ NoUnderflow(sets[s].aux, hits[s]) => Fits(CurrSet(d)) /\ Shrinks(d)
    BY <1>3, <1>4, <1>6, <2>1, <2>2, ExtendKeeps
  <2> HIDE DEF d
  <2> QED  BY <1>5, <1>6, <2>3
<1> HIDE DEF d
<1>8. /\ Expand(sets[s], dbrange) \subseteq 0 .. dbrange - 1
      /\ Expand(CurrSet(d), dbrange + n) \cap (0 .. dbrange - 1) \subseteq Expand(sets[s], dbrange)
  BY <1>6, <1>7, BatchGainsNoOldRow
<1>9. parities[s] = Expand(sets[s], dbrange)
  BY <1>1, <1>3, <1>5 DEF HintInv, Members
<1>10. Members(s)' = Expand(CurrSet(d), dbrange + n)
  BY <1>3, <1>5 DEF Members
<1> QED  BY <1>3, <1>5, <1>8, <1>9, <1>10 DEF Members

LEMMA NextGrowInv == IInv /\ GrowInv /\ [Next]_vars => GrowInv'
<1> SUFFICES ASSUME IInv, GrowInv, [Next]_vars, pc' = "update" PROVE GrowInv'
  BY DEF GrowInv
<1>1. CASE \E n \in BatchSizes : BatchedAdditionQuery(n)
  <2>1. PICK n \in BatchSizes : BatchedAdditionQuery(n)
    BY <1>1
  <2>2. n \in Nat \ {0} /\ dbrange \in Nat /\ InitRange <= dbrange /\ dbrange' = dbrange + n
    BY <2>1, Sizes, ParamAssumption DEF IInv, TypeOK, BatchedAdditionQuery
  <2>3. dbrange \in 1 .. dbrange' - 1
    BY <2>2, Sizes
  <2>4. \A s \in SetNos : sound'[s] =>
            /\ parities'[s] \subseteq 0 .. dbrange - 1
            /\ Members(s)' \cap (0 .. dbrange - 1) \subseteq parities'[s]
    BY <2>1, BatchGrows
  <2> QED  BY <2>3, <2>4 DEF GrowInv
<1>2. CASE ~ \E n \in BatchSizes : BatchedAdditionQuery(n)
  <2>1. pc = "update" /\ UNCHANGED <<dbrange, sets, parities, sound>>
    BY <1>2 DEF Next, vars, client, GenerateOfflineQuery, GenerateOfflineReply, UpdateParity,
                GenerateOnlineQuery, GenerateOnlineReply, QueryRecov, GenerateRefreshQuery,
                RefreshRecov, AddElements, BatchedAdditionReply, BatchedAdditionThrows
  <2>2. \A s \in SetNos : Members(s)' = Members(s)
    BY <2>1 DEF Members
  <2> QED  BY <2>1, <2>2 DEF GrowInv
<1> QED  BY <1>1, <1>2

\* While a batch is on its way, every hint is that of the database before it.
THEOREM HintsLagBehindABatch == Spec => []GrowInv
<1>1. Init => GrowInv
  BY DEF Init, GrowInv
<1> QED  BY <1>1, NextGrowInv, InductiveInvariant, PTL DEF Spec

\* A step that changes none of what the store keeps is no step of the store.
LEMMA StoreStutters ==
    ASSUME UNCHANGED <<dbrange, parities, cur_qry_setno, cur_qry_blk, cur_qry_idx, sound, curOk>>,
           Phase' = Phase, GoodSets' = GoodSets
    PROVE  UNCHANGED Store!vars
<1>1. Hints' = Hints
  BY DEF Hints
<1> QED  BY <1>1 DEF Store!vars

\* What the store sees of the state between the calls.
LEMMA StoreViews ==
    /\ pc \in {"new", "prep"} => Phase = "setup" /\ GoodSets = {}
    /\ pc \in {"ready", "recovered"} => Phase = "idle"
    /\ pc = "query" => Phase = "asked"
    /\ pc = "refresh" => Phase = "replacing" /\ GoodSets = {s \in SetNos : sound[s] /\ s # cur_qry_setno}
    /\ pc \in {"update", "aborted"} => Phase = "growing"
    /\ pc \notin {"new", "prep", "refresh"} => GoodSets = {s \in SetNos : sound[s]}
    /\ \A s \in SetNos : s \in GoodSets => Hints[s] = parities[s]
    /\ GoodSets \subseteq SetNos
BY DEF Phase, GoodSets, Hints

LEMMA UpdateParityRefines ==
    ASSUME IInv, IInv', GrowInv, UpdateParity PROVE Store!Next
<1>1. /\ net.type = "PARITIES" /\ pc' = "ready"
      /\ parities' = [s \in SetNos |-> SymDiff(parities[s], net.parities[s])]
      /\ UNCHANGED <<dbrange, sets, cur_qry_setno, cur_qry_blk, dblen, cur_qry_idx, sound, curOk>>
  BY DEF UpdateParity
<1>2. pc \in {"prep", "update"}
  BY <1>1 DEF IInv, TurnsInv, TypeOK
<1>3. Phase' = "idle" /\ GoodSets' = {s \in SetNos : sound[s]}
      /\ \A s \in SetNos : s \in GoodSets' => Hints'[s] = parities'[s]
  BY <1>1 DEF Phase, GoodSets, Hints
<1>4. \A s \in SetNos : sound[s] => parities'[s] = Members(s)
  <2>1. HintInv' /\ \A s \in SetNos : Members(s)' = Members(s)
    BY <1>1 DEF IInv, Members
  <2> QED  BY <1>1, <2>1 DEF HintInv
<1>5. \A s \in SetNos : Members(s) \subseteq 0 .. dbrange - 1
  BY MembersBounds DEF IInv
<1>6. CASE pc = "prep"
  <2>1. Phase = "setup"
    BY <1>6, StoreViews
  <2>2. Store!Setup
    BY <1>1, <1>3, <1>4, <1>5, <2>1 DEF Store!Setup, Store!Blocks
  <2> QED  BY <2>2 DEF Store!Next
<1>7. CASE pc = "update"
  <2>1. Phase = "growing" /\ GoodSets = {s \in SetNos : sound[s]}
        /\ \A s \in SetNos : s \in GoodSets => Hints[s] = parities[s]
    BY <1>7, StoreViews
  <2>2. PICK old \in 1 .. dbrange - 1 : \A s \in SetNos : sound[s] =>
            /\ parities[s] \subseteq 0 .. old - 1
            /\ Members(s) \cap (0 .. old - 1) \subseteq parities[s]
    BY <1>7 DEF GrowInv
  <2>3. \A s \in GoodSets : /\ Hints[s] \subseteq 0 .. old - 1
                            /\ Hints'[s] \subseteq 0 .. dbrange - 1
                            /\ Hints'[s] \cap (0 .. old - 1) \subseteq Hints[s]
    BY <1>3, <1>4, <1>5, <2>1, <2>2
  <2>4. Store!Absorb
    BY <1>1, <1>3, <2>1, <2>3 DEF Store!Absorb, Store!Blocks
  <2> QED  BY <2>4 DEF Store!Next
<1> QED  BY <1>2, <1>6, <1>7

LEMMA GenerateOnlineQueryRefines ==
    ASSUME IInv, NEW idx \in Index, GenerateOnlineQuery(idx) PROVE Store!Next
<1> DEFINE setno == IF HoldingSets(idx) = {} THEN 0 ELSE Min(HoldingSets(idx))
<1>1. /\ pc \in {"ready", "recovered"} /\ pc' = "query" /\ idx < dbrange
      /\ cur_qry_setno' = setno /\ cur_qry_idx' = idx
      /\ curOk' => sound[setno] /\ idx \in Members(setno)
      /\ UNCHANGED <<dbrange, sets, parities, cur_qry_blk, dblen, sound>>
  BY DEF GenerateOnlineQuery, Free
<1>2. setno \in SetNos
  <2>1. HoldingSets(idx) \subseteq SetNos /\ SetNos \subseteq Nat
    BY DEF HoldingSets, SetNos
  <2>2. HoldingSets(idx) # {} => Min(HoldingSets(idx)) \in HoldingSets(idx)
    BY <2>1, MinNat
  <2> QED  BY <2>1, <2>2, Sizes
<1> HIDE DEF setno
<1>3. idx \in 0 .. dbrange - 1
  BY <1>1, Sizes DEF IInv, TypeOK
<1>4. Phase = "idle" /\ Phase' = "asked" /\ GoodSets = {s \in SetNos : sound[s]} /\ GoodSets' = GoodSets
  BY <1>1 DEF Phase, GoodSets
<1>5. Hints' = Hints /\ \A s \in GoodSets : Hints[s] = parities[s]
  BY <1>1, <1>4 DEF Hints
<1>6. \A s \in SetNos : sound[s] => parities[s] = Members(s)
  BY <1>1 DEF IInv, HintInv
<1>7. curOk' => setno \in GoodSets /\ idx \in Hints[setno]
  BY <1>1, <1>2, <1>4, <1>5, <1>6
<1>8. Store!Ask
  BY <1>1, <1>2, <1>3, <1>4, <1>5, <1>7 DEF Store!Ask, Store!Blocks
<1> QED  BY <1>8 DEF Store!Next

LEMMA QueryRecovRefines ==
    ASSUME IInv, IInv', QueryRecov PROVE Store!Next
<1>1. /\ pc = "query" /\ pc' = "recovered"
      /\ UNCHANGED <<dbrange, sets, parities, cur_qry_setno, dblen, cur_qry_idx, sound, curOk>>
  BY DEF QueryRecov
<1>2. Phase = "asked" /\ Phase' = "idle" /\ GoodSets' = GoodSets
  BY <1>1 DEF Phase, GoodSets
<1>3. Hints' = Hints
  BY <1>1, <1>2 DEF Hints
<1>4. curOk => cur_qry_blk' = {cur_qry_idx}
  <2>1. QueryInv'
    BY DEF IInv
  <2> QED  BY <1>1, <2>1 DEF QueryInv
<1>5. Store!Answer
  BY <1>1, <1>2, <1>3, <1>4 DEF Store!Answer
<1> QED  BY <1>5 DEF Store!Next

LEMMA GenerateRefreshQueryRefines ==
    ASSUME GenerateRefreshQuery PROVE Store!Next
<1>1. /\ pc = "recovered" /\ pc' = "refresh"
      /\ UNCHANGED <<dbrange, parities, cur_qry_setno, cur_qry_blk, dblen, cur_qry_idx, curOk>>
  BY DEF GenerateRefreshQuery
<1>2. \E x : sound' = [sound EXCEPT ![cur_qry_setno] = x]
  BY DEF GenerateRefreshQuery
<1>3. Phase = "idle" /\ Phase' = "replacing" /\ GoodSets = {s \in SetNos : sound[s]}
      /\ GoodSets' = {s \in SetNos : sound'[s] /\ s # cur_qry_setno}
  BY <1>1 DEF Phase, GoodSets
<1>4. \A s : s # cur_qry_setno => (sound'[s] = sound[s])
  BY <1>2
<1>5. GoodSets' = GoodSets \ {cur_qry_setno}
  BY <1>3, <1>4
<1>6. \A s \in GoodSets' : Hints'[s] = Hints[s]
  BY <1>1, <1>3, <1>5 DEF Hints
<1>7. Store!Drop
  BY <1>1, <1>3, <1>5, <1>6 DEF Store!Drop, Store!Keeps
<1> QED  BY <1>7 DEF Store!Next

LEMMA RefreshRecovRefines ==
    ASSUME IInv, IInv', RefreshRecov PROVE Store!Next
<1>1. /\ net.type = "PARITY" /\ pc = "refresh" /\ pc' = "ready"
      /\ parities' = [parities EXCEPT ![cur_qry_setno] = SymDiff(net.parity, cur_qry_blk)]
      /\ UNCHANGED <<dbrange, sets, cur_qry_setno, cur_qry_blk, dblen, cur_qry_idx, sound, curOk>>
  BY DEF RefreshRecov
<1>2. /\ Phase = "replacing" /\ Phase' = "idle" /\ GoodSets' = {s \in SetNos : sound[s]}
      /\ GoodSets = {s \in SetNos : sound[s] /\ s # cur_qry_setno}
  BY <1>1 DEF Phase, GoodSets
<1>3. \A s \in GoodSets' \ {cur_qry_setno} : Hints'[s] = Hints[s]
  BY <1>1, <1>2 DEF Hints
<1>4. sound[cur_qry_setno] /\ cur_qry_setno \in SetNos
        => /\ cur_qry_blk = {cur_qry_idx}
           /\ parities'[cur_qry_setno] = Members(cur_qry_setno)
           /\ cur_qry_idx \in Members(cur_qry_setno)
           /\ Members(cur_qry_setno) \subseteq 0 .. dbrange - 1
  BY <1>1, MembersBounds DEF IInv, RefreshInv, TypeOK
<1>5. cur_qry_setno \in GoodSets' => /\ cur_qry_blk = {cur_qry_idx}
                                     /\ cur_qry_idx \in Hints'[cur_qry_setno]
                                     /\ Hints'[cur_qry_setno] \subseteq 0 .. dbrange - 1
  BY <1>2, <1>4 DEF Hints
<1>6. GoodSets' \in {GoodSets, GoodSets \cup {cur_qry_setno}}
  BY <1>2
<1>7. Store!Replace
  BY <1>1, <1>2, <1>3, <1>5, <1>6 DEF Store!Replace, Store!Keeps, Store!Blocks
<1> QED  BY <1>7 DEF Store!Next

LEMMA BatchedAdditionQueryRefines ==
    ASSUME IInv, NEW n \in BatchSizes, BatchedAdditionQuery(n) PROVE Store!Next
<1>1. /\ pc \in {"ready", "recovered"} /\ pc' = "update" /\ dbrange' = dbrange + n
      /\ UNCHANGED <<parities, cur_qry_setno, cur_qry_blk, dblen, cur_qry_idx, curOk>>
  BY DEF BatchedAdditionQuery, Free
<1>2. dbrange' \in Nat /\ dbrange < dbrange'
  BY <1>1, Sizes, ParamAssumption DEF IInv, TypeOK
<1>3. /\ Phase = "idle" /\ Phase' = "growing" /\ GoodSets = {s \in SetNos : sound[s]}
      /\ GoodSets' = {s \in SetNos : sound'[s]}
  BY <1>1 DEF Phase, GoodSets
<1>4. \A s \in SetNos : sound'[s] => sound[s]
  BY BatchGrows
<1>5. GoodSets' \subseteq GoodSets
  BY <1>3, <1>4
<1>6. \A s \in GoodSets' : Hints'[s] = Hints[s]
  BY <1>1, <1>3, <1>5 DEF Hints
<1>7. Store!Announce
  BY <1>1, <1>2, <1>3, <1>5, <1>6 DEF Store!Announce, Store!Keeps
<1> QED  BY <1>7 DEF Store!Next

LEMMA StepsRefine ==
    IInv /\ IInv' /\ GrowInv /\ [Next]_vars => [Store!Next]_(Store!vars)
<1> SUFFICES ASSUME IInv, IInv', GrowInv, [Next]_vars
             PROVE  Store!Next \/ UNCHANGED Store!vars
  OBVIOUS
<1>1. CASE GenerateOfflineQuery
  <2>1. Phase' = Phase /\ GoodSets' = GoodSets
    BY <1>1 DEF GenerateOfflineQuery, Phase, GoodSets
  <2> QED  BY <1>1, <2>1, StoreStutters DEF GenerateOfflineQuery, client
<1>2. CASE GenerateOfflineReply \/ GenerateOnlineReply \/ BatchedAdditionReply
           \/ (\E n \in BatchSizes : AddElements(n)) \/ UNCHANGED vars
  <2>1. UNCHANGED <<client, pc, cur_qry_idx, sound, curOk>>
    BY <1>2 DEF GenerateOfflineReply, GenerateOnlineReply, BatchedAdditionReply, AddElements, vars
  <2>2. Phase' = Phase /\ GoodSets' = GoodSets
    BY <2>1 DEF Phase, GoodSets, client
  <2> QED  BY <2>1, <2>2, StoreStutters DEF client
<1>3. CASE BatchedAdditionThrows
  <2>1. pc = "update" /\ pc' = "aborted" /\ UNCHANGED <<client, cur_qry_idx, sound, curOk>>
    BY <1>3 DEF BatchedAdditionThrows, IInv, TurnsInv, TypeOK
  <2>2. Phase' = Phase /\ GoodSets' = GoodSets
    BY <2>1 DEF Phase, GoodSets
  <2> QED  BY <2>1, <2>2, StoreStutters DEF client
<1>4. CASE UpdateParity
  BY <1>4, UpdateParityRefines
<1>5. CASE \E idx \in Index : GenerateOnlineQuery(idx)
  BY <1>5, GenerateOnlineQueryRefines
<1>6. CASE QueryRecov
  BY <1>6, QueryRecovRefines
<1>7. CASE GenerateRefreshQuery
  BY <1>7, GenerateRefreshQueryRefines
<1>8. CASE RefreshRecov
  BY <1>8, RefreshRecovRefines
<1>9. CASE \E n \in BatchSizes : BatchedAdditionQuery(n)
  BY <1>9, BatchedAdditionQueryRefines
<1> QED  BY <1>1, <1>2, <1>3, <1>4, <1>5, <1>6, <1>7, <1>8, <1>9 DEF Next

\* The initial states of the client are initial states of the store.
LEMMA InitRefines == Init => Store!Init
<1> SUFFICES ASSUME Init PROVE Store!Init
  OBVIOUS
<1>1. /\ dbrange = InitRange /\ pc = "new" /\ cur_qry_setno = 0 /\ cur_qry_blk = {}
      /\ cur_qry_idx = 0 /\ curOk = FALSE
  BY DEF Init
<1>2. Phase = "setup" /\ GoodSets = {} /\ Hints = [s \in SetNos |-> {}]
  BY <1>1 DEF Phase, GoodSets, Hints
<1> QED  BY <1>1, <1>2, Sizes DEF Store!Init

(***************************************************************************)
(* The client and the server, with descriptions, parities and differences, *)
(* implement the store of hints.                                           *)
(***************************************************************************)
THEOREM ClientImplementsHintStore == Spec => ImplementsHintStore
<1> QED  BY InitRefines, StepsRefine, InductiveInvariant, HintsLagBehindABatch, PTL
         DEF Spec, ImplementsHintStore, Store!Spec
-----------------------------------------------------------------------------
(* How many elements the slots of a set have.  What a batch does to the sum of the       *)
(* counts is shown slot by slot; NatInduct stands for the induction over the slots.      *)

\* A set of naturals with 0 that is closed under successors has all of them.
LEMMA NatInduct ==
    ASSUME NEW S, 0 \in S, \A n \in Nat : n \in S => n + 1 \in S
    PROVE  \A n \in Nat : n \in S
<1> DEFINE B == {n \in Nat : n \notin S}
<1>1. SUFFICES ASSUME B # {} PROVE FALSE
  OBVIOUS
<1>2. Min(B) \in B /\ \A x \in B : Min(B) <= x
  BY <1>1, MinNat
<1>3. PICK m \in Nat : m \notin S /\ \A x \in B : m <= x
  BY <1>2
<1>4. m # 0 /\ m - 1 \in Nat /\ ~ (m <= m - 1)
  BY <1>3
<1>5. m - 1 \in S
  BY <1>3, <1>4
<1>6. m = (m - 1) + 1
  BY <1>3
<1>7. (m - 1) + 1 \in S
  BY <1>4, <1>5
<1> QED  BY <1>3, <1>6, <1>7

\* The cells of any slots of a list are finitely many.
LEMMA CellsFinite ==
    ASSUME NEW aux \in Seq(Slot), NEW J, J \subseteq DOMAIN aux
    PROVE  IsFiniteSet(Cells(aux, J)) /\ Cardinality(Cells(aux, J)) \in Nat
<1>1. IsFiniteSet(DOMAIN aux)
  <2>1. DOMAIN aux = 1 .. Len(aux) /\ Len(aux) \in Nat
    OBVIOUS
  <2> QED  BY <2>1, FS_Interval
<1>2. IsFiniteSet(Count)
  BY FS_Interval, SizeAssumption DEF Count
<1>3. IsFiniteSet((DOMAIN aux) \X Count)
  BY <1>1, <1>2, FS_Product
<1>4. Cells(aux, J) \subseteq (DOMAIN aux) \X Count
  BY DEF Cells
<1> QED  BY <1>3, <1>4, FS_Subset, FS_CardinalityType

\* One slot has as many cells as its count says.
LEMMA CellsOfSlot ==
    ASSUME NEW aux \in Seq(Slot), NEW i \in DOMAIN aux
    PROVE  Cardinality(Cells(aux, {i})) = aux[i].cnt
<1> DEFINE r == aux[i].cnt
           f == [x \in 0 .. r - 1 |-> <<i, x>>]
<1>1. r \in Nat /\ r < UModulus /\ UModulus \in Nat
  BY SlotType, SizeAssumption DEF Count
<1>2. f \in Bijection(0 .. r - 1, Cells(aux, {i}))
  <2>1. f \in [0 .. r - 1 -> Cells(aux, {i})]
    BY <1>1 DEF Cells, Count
  <2>2. f \in Injection(0 .. r - 1, Cells(aux, {i}))
    BY <2>1 DEF Injection, IsInjective
  <2>3. ASSUME NEW c \in Cells(aux, {i})
        PROVE  \E x \in 0 .. r - 1 : f[x] = c
    <3>1. c[1] = i /\ c[2] \in 0 .. r - 1 /\ c = <<c[1], c[2]>>
      BY <1>1 DEF Cells, Count
    <3> QED  BY <3>1
  <2> QED  BY <2>1, <2>2, <2>3 DEF Bijection, Surjection
<1>3. IsFiniteSet(0 .. r - 1) /\ Cardinality(0 .. r - 1) = r
  <2> HIDE DEF r
  <2>1. r - 1 \in Int /\ 0 \in Int /\ (r - 1) - 0 + 1 = r /\ (0 > r - 1 <=> r = 0)
    BY <1>1
  <2> QED  BY <2>1, FS_Interval
<1> QED  BY <1>2, <1>3, FS_Bijection DEF ExistsBijection

\* A slot adds its count to the cells of slots that it is not among.
LEMMA CellsAdd ==
    ASSUME NEW aux \in Seq(Slot), NEW J, J \subseteq DOMAIN aux,
           NEW i \in DOMAIN aux, i \notin J
    PROVE  Cardinality(Cells(aux, J \cup {i})) = Cardinality(Cells(aux, J)) + aux[i].cnt
<1>1. /\ IsFiniteSet(Cells(aux, J)) /\ Cardinality(Cells(aux, J)) \in Nat
      /\ IsFiniteSet(Cells(aux, {i})) /\ Cardinality(Cells(aux, {i})) \in Nat
  BY CellsFinite
<1>2. Cells(aux, J \cup {i}) = Cells(aux, J) \cup Cells(aux, {i})
  BY DEF Cells
<1>3. Cells(aux, J) \cap Cells(aux, {i}) = {}
  BY DEF Cells
<1>4. Cardinality(Cells(aux, J) \cup Cells(aux, {i}))
          = Cardinality(Cells(aux, J)) + Cardinality(Cells(aux, {i})) - Cardinality({})
  BY <1>1, <1>3, FS_Union
<1>5. Cardinality({}) = 0
  BY FS_EmptySet
<1>6. Cardinality(Cells(aux, {i})) = aux[i].cnt
  BY CellsOfSlot
<1>7. Cardinality(Cells(aux, J \cup {i})) = Cardinality(Cells(aux, J) \cup Cells(aux, {i}))
  BY <1>2
<1>8. Cardinality(Cells(aux, J)) \in Nat /\ Cardinality(Cells(aux, {i})) \in Nat
  BY <1>1
<1> HIDE <1>2
<1> QED  BY <1>4, <1>5, <1>6, <1>7, <1>8

\* The draws of a batch that fall into the slots J.
HitsIn(hits, J) == {j \in DOMAIN hits : hits[j] \in J}

\* The draws that hit some slots are finitely many, at most all of them.
LEMMA HitsFinite ==
    ASSUME NEW ell \in Nat, NEW hits, DOMAIN hits = 1 .. ell, NEW J
    PROVE  /\ IsFiniteSet(HitsIn(hits, J)) /\ Cardinality(HitsIn(hits, J)) \in Nat
           /\ Cardinality(HitsIn(hits, J)) <= ell
<1>1. HitsIn(hits, J) \subseteq 1 .. ell
  BY DEF HitsIn
<1>2. IsFiniteSet(1 .. ell) /\ Cardinality(1 .. ell) = ell
  BY FS_Interval
<1>3. IsFiniteSet(HitsIn(hits, J)) /\ Cardinality(HitsIn(hits, J)) <= Cardinality(1 .. ell)
  BY <1>1, <1>2, FS_Subset
<1> QED  BY <1>2, <1>3, FS_CardinalityType

\* One slot more adds as many draws as kick an element out of it.
LEMMA HitsAdd ==
    ASSUME NEW aux, NEW ell \in Nat, NEW hits, DOMAIN hits = 1 .. ell, NEW J,
           NEW i \in DOMAIN aux, i \notin J
    PROVE  Cardinality(HitsIn(hits, J \cup {i}))
             = Cardinality(HitsIn(hits, J)) + Kicks(aux, hits)[i]
<1> DEFINE A == HitsIn(hits, J)  B == HitsIn(hits, {i})
<1>1. /\ IsFiniteSet(A) /\ Cardinality(A) \in Nat
      /\ IsFiniteSet(B) /\ Cardinality(B) \in Nat
  BY HitsFinite
<1>2. HitsIn(hits, J \cup {i}) = A \cup B /\ A \cap B = {}
  BY DEF HitsIn
<1>3. B = {j \in DOMAIN hits : hits[j] = i}
  BY DEF HitsIn
<1>4. Kicks(aux, hits)[i] = Cardinality(B)
  BY <1>3 DEF Kicks
<1>8. Cardinality(HitsIn(hits, J)) = Cardinality(A)
  OBVIOUS
<1> HIDE DEF A, B
<1>5. Cardinality(A \cup B) = Cardinality(A) + Cardinality(B) - Cardinality({})
  BY <1>1, <1>2, FS_Union
<1>6. Cardinality({}) = 0
  BY FS_EmptySet
<1>7. Cardinality(HitsIn(hits, J \cup {i})) = Cardinality(A \cup B)
  BY <1>2
<1> HIDE <1>2
<1> QED  BY <1>1, <1>4, <1>5, <1>6, <1>7, <1>8

\* Division with remainder has one result only.
LEMMA RemainderUnique ==
    ASSUME NEW n \in Nat, n > 0, NEW q \in Int, NEW r \in 0 .. n - 1,
           NEW p \in Int, NEW t \in 0 .. n - 1, n * q + r = n * p + t
    PROVE  r = t
<1>1. n * (q - p) = t - r /\ -n < t - r /\ t - r < n
  OBVIOUS
<1>2. PICK d \in Int : d = q - p
  OBVIOUS
<1>3. d = 0
  <2>1. n * d = t - r
    BY <1>1, <1>2
  <2>2. CASE d >= 1
    <3>1. n * d >= n
      BY <2>2
    <3> QED  BY <1>1, <2>1, <3>1
  <2>3. CASE d <= -1
    <3>1. n * d <= -n
      BY <2>3
    <3> QED  BY <1>1, <2>1, <3>1
  <2> QED  BY <2>2, <2>3
<1> QED  BY <1>2, <1>3

\* Adding multiples of a modulus does not change a remainder.
LEMMA ModMultiple ==
    ASSUME NEW n \in Nat, n > 0, NEW a \in Nat
    PROVE  \A w \in Nat : (a + w * n) % n = a % n
<1> DEFINE S == {w \in Nat : (a + w * n) % n = a % n}
<1>1. 0 \in S
  OBVIOUS
<1>2. ASSUME NEW w \in Nat, w \in S
      PROVE  w + 1 \in S
  <2>1. PICK x \in Nat : x = a + w * n
    OBVIOUS
  <2>2. a + (w + 1) * n = x + n
    BY <2>1
  <2>3. x % n = a % n
    BY <1>2, <2>1
  <2>4. (x + n) % n = x % n
    <3>1. /\ x \in Nat /\ x + n \in Nat
          /\ x = n * (x \div n) + (x % n) /\ x \div n \in Int /\ x % n \in 0 .. n - 1
      BY <2>1
    <3>2. /\ x + n = n * ((x + n) \div n) + ((x + n) % n)
          /\ (x + n) \div n \in Int /\ (x + n) % n \in 0 .. n - 1
      BY <3>1
    <3>3. n * ((x \div n) + 1) + (x % n) = n * ((x + n) \div n) + ((x + n) % n)
      BY <3>1, <3>2
    <3>4. (x \div n) + 1 \in Int
      BY <3>1
    <3> QED  BY <3>1, <3>2, <3>3, <3>4, RemainderUnique
  <2> QED  BY <2>2, <2>3, <2>4
<1> HIDE DEF S
<1>3. \A w \in Nat : w \in S
  BY <1>1, <1>2, NatInduct
<1> QED  BY <1>3 DEF S

\* The draws that have fallen into the first slots, once all of them are counted.
LEMMA HitsAll ==
    ASSUME NEW ell \in Nat, NEW hits, DOMAIN hits = 1 .. ell, NEW J,
           \A j \in 1 .. ell : hits[j] \in J
    PROVE  Cardinality(HitsIn(hits, J)) = ell
<1>1. HitsIn(hits, J) = 1 .. ell
  BY DEF HitsIn
<1>2. Cardinality(1 .. ell) = ell
  BY FS_Interval
<1> QED  BY <1>1, <1>2

\* A batch as the counts of one slot: what it loses, and the 2^32 that a count wraps by.
LEMMA SlotLoses ==
    ASSUME NEW aux \in Seq(Slot), NEW new, NEW nbr \in 1 .. MaxDb, NEW ell \in 0 .. nbr,
           NEW hits, DOMAIN hits = 1 .. ell,
           ExtendedBy(aux, new, Kicks(aux, hits), nbr, ell)
    PROVE  \A i \in DOMAIN aux : LET K == Kicks(aux, hits)[i] IN
           /\ K \in Nat /\ K <= ell /\ aux[i].cnt \in Nat /\ new[i].cnt \in Nat
           /\ new[i].cnt = IF K <= aux[i].cnt THEN aux[i].cnt - K
                           ELSE aux[i].cnt - K + UModulus
<1> TAKE i \in DOMAIN aux
<1> DEFINE K == Kicks(aux, hits)[i]  c == aux[i].cnt
<1>1. c \in Nat /\ c < UModulus /\ UModulus \in Nat
  BY SMTT(60), SlotType, SizeAssumption DEF Count
<1>2. ell \in Nat /\ nbr \in Nat /\ nbr < UModulus /\ ell <= nbr
  BY SizeAssumption
<1>3. K \in Nat /\ K <= ell
  <2>1. HitsIn(hits, {i}) = {j \in DOMAIN hits : hits[j] = i}
    BY DEF HitsIn
  <2>2. K = Cardinality(HitsIn(hits, {i}))
    BY <2>1 DEF Kicks
  <2> HIDE DEF K
  <2> QED  BY <1>2, <2>2, HitsFinite
<1>4. new[i].cnt = (c - K) % UModulus
  BY DEF ExtendedBy
<1> HIDE DEF K, c
<1>5. (c - K) % UModulus = IF c - K >= 0 THEN c - K ELSE c - K + UModulus
  <2>1. /\ UModulus > 0 /\ c - K \in Int /\ -UModulus <= c - K /\ c - K < UModulus
    BY <1>1, <1>2, <1>3
  <2> QED  BY <1>1, <2>1, ModBelow
<1>6. new[i].cnt = IF K <= c THEN c - K ELSE c - K + UModulus
  BY <1>1, <1>3, <1>4, <1>5
<1>7. new[i].cnt \in Nat
  BY <1>1, <1>2, <1>3, <1>6
<1> QED  BY <1>1, <1>3, <1>6, <1>7 DEF K, c

(***************************************************************************)
(* A batch conserves the number of elements modulo 2^32, and exactly when  *)
(* no count underflows: every draw takes an element from an old slot and   *)
(* puts one into the new slot.                                             *)
(***************************************************************************)
LEMMA BatchCounts ==
    ASSUME NEW aux \in Seq(Slot), NEW new, NEW nbr \in 1 .. MaxDb, NEW ell \in 0 .. nbr,
           NEW hits, DOMAIN hits = 1 .. ell, \A j \in 1 .. ell : hits[j] \in DOMAIN aux,
           ExtendedBy(aux, new, Kicks(aux, hits), nbr, ell)
    PROVE  \E w \in Nat :
             /\ Cardinality(Cells(new, DOMAIN new))
                  = Cardinality(Cells(aux, DOMAIN aux)) + w * UModulus
             /\ NoUnderflow(aux, hits) => w = 0
<1> DEFINE c(k) == Cardinality(Cells(aux, 1 .. k))
           d(k) == Cardinality(Cells(new, 1 .. k))
           h(k) == Cardinality(HitsIn(hits, 1 .. k))
           L    == Len(aux)
           P(k) == \E w \in Nat : d(k) + h(k) = c(k) + w * UModulus /\ (NoUnderflow(aux, hits) => w = 0)
           S    == {k \in Nat : k <= L => P(k)}
<1>1. /\ L \in Nat /\ DOMAIN aux = 1 .. L /\ new \in Seq(Slot) /\ Len(new) = L + 1
      /\ DOMAIN new = 1 .. L + 1 /\ new[L + 1].cnt = ell
      /\ ell \in Nat /\ UModulus \in Nat
  BY SizeAssumption DEF ExtendedBy
<1>2. ASSUME NEW k \in Nat, k <= L
      PROVE  c(k) \in Nat /\ d(k) \in Nat /\ h(k) \in Nat
  <2>1. 1 .. k \subseteq DOMAIN aux /\ 1 .. k \subseteq DOMAIN new
    BY <1>1, <1>2
  <2> QED  BY <1>1, <2>1, CellsFinite, HitsFinite
<1>3. ASSUME NEW k \in Nat, k + 1 <= L
      PROVE  /\ c(k + 1) = c(k) + aux[k + 1].cnt /\ d(k + 1) = d(k) + new[k + 1].cnt
             /\ h(k + 1) = h(k) + Kicks(aux, hits)[k + 1]
  <2> DEFINE J == 1 .. k  i == k + 1
  <2>1. J \subseteq DOMAIN aux /\ J \subseteq DOMAIN new /\ i \in DOMAIN aux /\ i \in DOMAIN new
        /\ i \notin J /\ 1 .. k + 1 = J \cup {i}
    BY <1>1, <1>3
  <2> HIDE DEF J, i
  <2>2. Cardinality(Cells(aux, J \cup {i})) = Cardinality(Cells(aux, J)) + aux[i].cnt
    BY <2>1, CellsAdd
  <2>3. Cardinality(Cells(new, J \cup {i})) = Cardinality(Cells(new, J)) + new[i].cnt
    BY <1>1, <2>1, CellsAdd
  <2>4. Cardinality(HitsIn(hits, J \cup {i})) = Cardinality(HitsIn(hits, J)) + Kicks(aux, hits)[i]
    <3>1. ell \in Nat
      BY <1>1
    <3> QED  BY <2>1, <3>1, HitsAdd
  <2> QED  BY <2>1, <2>2, <2>3, <2>4 DEF J, i
<1>3a. \A i \in DOMAIN aux : LET K == Kicks(aux, hits)[i] IN
           /\ K \in Nat /\ K <= ell /\ aux[i].cnt \in Nat /\ new[i].cnt \in Nat
           /\ new[i].cnt = IF K <= aux[i].cnt THEN aux[i].cnt - K
                           ELSE aux[i].cnt - K + UModulus
  BY SlotLoses
<1>4. 0 \in S
  <2>1. Cells(aux, 1 .. 0) = {} /\ Cells(new, 1 .. 0) = {} /\ HitsIn(hits, 1 .. 0) = {}
    BY DEF Cells, HitsIn
  <2>2. c(0) = 0 /\ d(0) = 0 /\ h(0) = 0
    BY <2>1, FS_EmptySet
  <2> HIDE DEF c, d, h
  <2> QED  BY <1>1, <2>2, SMTT(20)
<1>5. ASSUME NEW k \in Nat, k \in S
      PROVE  k + 1 \in S
  <2>1. SUFFICES ASSUME k + 1 <= L PROVE P(k + 1)
    OBVIOUS
  <2>2. PICK w \in Nat : d(k) + h(k) = c(k) + w * UModulus /\ (NoUnderflow(aux, hits) => w = 0)
    BY <1>1, <1>5, <2>1
  <2>3. c(k) \in Nat /\ d(k) \in Nat /\ h(k) \in Nat
    <3>1. k <= L
      BY <1>1, <2>1
    <3> QED  BY <1>2, <3>1
  <2> DEFINE i == k + 1  K == Kicks(aux, hits)[i]
  <2>4. i \in DOMAIN aux
    BY <1>1, <2>1
  <2>5. /\ K \in Nat /\ aux[i].cnt \in Nat /\ new[i].cnt \in Nat
        /\ new[i].cnt = IF K <= aux[i].cnt THEN aux[i].cnt - K
                        ELSE aux[i].cnt - K + UModulus
    BY <1>3a, <2>4
  <2>6. c(i) = c(k) + aux[i].cnt /\ d(i) = d(k) + new[i].cnt /\ h(i) = h(k) + K
    BY <1>3, <2>1
  <2>7. NoUnderflow(aux, hits) => K <= aux[i].cnt
    BY <2>4 DEF NoUnderflow
  <2>8. (w + 1) * UModulus = w * UModulus + UModulus /\ w * UModulus \in Nat
    BY <1>1
  <2> DEFINE u == w * UModulus  cc == aux[i].cnt  dd == new[i].cnt
  <2>9. u \in Nat /\ (w + 1) * UModulus = u + UModulus /\ d(k) + h(k) = c(k) + u
    BY <2>2, <2>8
  <2>10. cc \in Nat /\ dd \in Nat /\ dd = (IF K <= cc THEN cc - K ELSE cc - K + UModulus)
         /\ c(i) = c(k) + cc /\ d(i) = d(k) + dd
    BY <2>5, <2>6
  <2>11. K \in Nat /\ h(i) = h(k) + K /\ (NoUnderflow(aux, hits) => K <= cc)
    BY <2>5, <2>6, <2>7
  <2> HIDE DEF c, d, h, u, cc, dd, K, i
  <2>12. d(i) + h(i) = c(i) + (IF K <= cc THEN u ELSE u + UModulus)
    <3>1. UModulus \in Nat
      BY <1>1
    <3>2. PICK c0 \in Nat, d0 \in Nat, h0 \in Nat : c0 = c(k) /\ d0 = d(k) /\ h0 = h(k)
      BY <2>3
    <3>3. /\ c(i) = c0 + cc /\ d(i) = d0 + dd /\ h(i) = h0 + K
          /\ d0 + h0 = c0 + u /\ u \in Nat /\ K \in Nat
      BY <2>9, <2>10, <2>11, <3>2
    <3>4. cc \in Nat /\ dd \in Nat /\ dd + K = IF K <= cc THEN cc ELSE cc + UModulus
      BY <2>10, <3>1, <3>3
    <3>5. (d0 + dd) + (h0 + K) = (c0 + u) + (dd + K)
      BY <3>3, <3>4
    <3>6. d(i) + h(i) = (c0 + u) + (dd + K)
      BY <3>3, <3>5
    <3>7. (c0 + u) + (IF K <= cc THEN cc ELSE cc + UModulus)
            = (c0 + cc) + (IF K <= cc THEN u ELSE u + UModulus)
      BY <3>1, <3>3, <3>4
    <3> QED  BY <3>3, <3>4, <3>6, <3>7
  <2>13. CASE K <= cc
    <3>1. d(i) + h(i) = c(i) + w * UModulus
      BY <2>12, <2>13 DEF u
    <3> QED  BY <2>2, <3>1 DEF i
  <2>14. CASE ~ (K <= cc)
    <3>1. d(i) + h(i) = c(i) + (w + 1) * UModulus
      BY <2>9, <2>12, <2>14
    <3>2. ~ NoUnderflow(aux, hits)
      BY <2>11, <2>14
    <3> QED  BY <3>1, <3>2 DEF i
  <2> QED  BY <2>13, <2>14
<1>6. P(L)
  <2> HIDE DEF P
  <2>1. \A k \in Nat : k \in S
    <3> HIDE DEF S
    <3> QED  BY <1>4, <1>5, NatInduct
  <2> QED  BY <1>1, <2>1
<1>7. d(L + 1) = d(L) + ell
  <2> DEFINE J == 1 .. L  i == L + 1
  <2>1. J \subseteq DOMAIN new /\ i \in DOMAIN new /\ i \notin J /\ 1 .. L + 1 = J \cup {i}
    BY <1>1
  <2> HIDE DEF J, i
  <2>2. Cardinality(Cells(new, J \cup {i})) = Cardinality(Cells(new, J)) + new[i].cnt
    BY <1>1, <2>1, CellsAdd
  <2> QED  BY <1>1, <2>1, <2>2 DEF J, i
<1>8. h(L) = ell
  BY <1>1, HitsAll
<1>9. c(L) \in Nat /\ d(L) \in Nat
  BY <1>1, <1>2
<1>10. PICK w \in Nat : d(L) + h(L) = c(L) + w * UModulus /\ (NoUnderflow(aux, hits) => w = 0)
  BY <1>6
<1>11. Cardinality(Cells(new, DOMAIN new)) = d(L + 1) /\ Cardinality(Cells(aux, DOMAIN aux)) = c(L)
  BY <1>1
<1> HIDE DEF c, d, h
<1> QED  BY <1>1, <1>7, <1>8, <1>9, <1>10, <1>11

(***************************************************************************)
(* A batch leaves at least as many elements in the slots that the client   *)
(* expands, however many counts underflow: a slot that wraps around loses  *)
(* fewer elements than were drawn from it.                                 *)
(***************************************************************************)
LEMMA BatchKeepsMost ==
    ASSUME NEW aux \in Seq(Slot), NEW new, NEW nbr \in 1 .. MaxDb, NEW ell \in 0 .. nbr,
           NEW hits, DOMAIN hits = 1 .. ell, \A j \in 1 .. ell : hits[j] \in DOMAIN aux,
           ExtendedBy(aux, new, Kicks(aux, hits), nbr, ell),
           NEW n \in Nat
    PROVE  Cardinality(Cells(aux, {i \in DOMAIN aux : aux[i].cnt <= n}))
             <= Cardinality(Cells(new, {i \in DOMAIN new : new[i].cnt <= n + nbr}))
<1> DEFINE A(k) == {i \in 1 .. k : aux[i].cnt <= n}
           B(k) == {i \in 1 .. k : new[i].cnt <= n + nbr}
           c(k) == Cardinality(Cells(aux, A(k)))
           d(k) == Cardinality(Cells(new, B(k)))
           h(k) == Cardinality(HitsIn(hits, 1 .. k))
           L    == Len(aux)
           S    == {k \in Nat : k <= L => c(k) <= d(k) + h(k)}
<1>1. /\ L \in Nat /\ DOMAIN aux = 1 .. L /\ new \in Seq(Slot) /\ Len(new) = L + 1
      /\ DOMAIN new = 1 .. L + 1 /\ new[L + 1].cnt = ell
      /\ ell \in Nat /\ nbr \in Nat /\ ell <= nbr
  BY SizeAssumption DEF ExtendedBy
<1>2. ASSUME NEW k \in Nat, k <= L
      PROVE  c(k) \in Nat /\ d(k) \in Nat /\ h(k) \in Nat
  <2>1. A(k) \subseteq DOMAIN aux /\ B(k) \subseteq DOMAIN new
    BY <1>1, <1>2
  <2> HIDE DEF A, B
  <2> QED  BY <1>1, <2>1, CellsFinite, HitsFinite
\* What slot k + 1 adds to each of the three.
<1>3. ASSUME NEW k \in Nat, k + 1 <= L
      PROVE  c(k + 1) = c(k) + (IF aux[k + 1].cnt <= n THEN aux[k + 1].cnt ELSE 0)
  <2> DEFINE i == k + 1  J == A(k)
  <2>1. J \subseteq DOMAIN aux /\ i \in DOMAIN aux /\ i \notin J
    BY <1>1, <1>3
  <2>2. A(k + 1) = IF aux[i].cnt <= n THEN J \cup {i} ELSE J
    BY <1>1, <1>3
  <2>3. c(k) = Cardinality(Cells(aux, J)) /\ c(k) \in Nat
    <3>1. k <= L
      BY <1>1, <1>3
    <3> QED  BY <1>2, <3>1
  <2> HIDE DEF J, i, A
  <2>4. Cardinality(Cells(aux, J \cup {i})) = Cardinality(Cells(aux, J)) + aux[i].cnt
    BY <2>1, CellsAdd
  <2> QED  BY <2>2, <2>3, <2>4 DEF i
<1>4. ASSUME NEW k \in Nat, k + 1 <= L + 1
      PROVE  d(k + 1) = d(k) + (IF new[k + 1].cnt <= n + nbr THEN new[k + 1].cnt ELSE 0)
  <2> DEFINE i == k + 1  J == B(k)
  <2>1. J \subseteq DOMAIN new /\ i \in DOMAIN new /\ i \notin J
    BY <1>1, <1>4
  <2>2. B(k + 1) = IF new[i].cnt <= n + nbr THEN J \cup {i} ELSE J
    BY <1>1, <1>4
  <2>3. c(k) \in Nat /\ d(k) = Cardinality(Cells(new, J)) /\ d(k) \in Nat
    <3>1. k <= L
      BY <1>1, <1>4
    <3> QED  BY <1>2, <3>1
  <2> HIDE DEF J, i, B
  <2>4. Cardinality(Cells(new, J \cup {i})) = Cardinality(Cells(new, J)) + new[i].cnt
    BY <1>1, <2>1, CellsAdd
  <2> QED  BY <2>2, <2>3, <2>4 DEF i
<1>5. ASSUME NEW k \in Nat, k + 1 <= L
      PROVE  h(k + 1) = h(k) + Kicks(aux, hits)[k + 1]
  <2> DEFINE i == k + 1  J == 1 .. k
  <2>1. i \in DOMAIN aux /\ i \notin J /\ 1 .. k + 1 = J \cup {i}
    BY <1>1, <1>5
  <2> HIDE DEF J, i
  <2>2. Cardinality(HitsIn(hits, J \cup {i})) = Cardinality(HitsIn(hits, J)) + Kicks(aux, hits)[i]
    <3>1. ell \in Nat
      BY <1>1
    <3> QED  BY <2>1, <3>1, HitsAdd
  <2> QED  BY <2>1, <2>2 DEF J, i
<1>6. \A i \in DOMAIN aux : LET K == Kicks(aux, hits)[i] IN
           /\ K \in Nat /\ K <= ell /\ aux[i].cnt \in Nat /\ new[i].cnt \in Nat
           /\ new[i].cnt = IF K <= aux[i].cnt THEN aux[i].cnt - K
                           ELSE aux[i].cnt - K + UModulus
  BY SlotLoses
<1>7. 0 \in S
  <2>1. A(0) = {} /\ Cells(aux, {}) = {}
    BY DEF Cells
  <2>2. c(0) = 0
    BY <2>1, FS_EmptySet
  <2>3. d(0) \in Nat /\ h(0) \in Nat
    <3> HIDE DEF c, d, h
    <3> QED  BY <1>1, <1>2
  <2> HIDE DEF c, d, h
  <2> QED  BY <2>2, <2>3
<1>8. ASSUME NEW k \in Nat, k \in S
      PROVE  k + 1 \in S
  <2>1. SUFFICES ASSUME k + 1 <= L PROVE c(k + 1) <= d(k + 1) + h(k + 1)
    BY <1>1
  <2>2. k <= L /\ k + 1 <= L + 1 /\ k + 1 \in DOMAIN aux
    BY <1>1, <2>1
  <2>3. c(k) <= d(k) + h(k)
    BY <1>8, <2>2
  <2>4. c(k) \in Nat /\ d(k) \in Nat /\ h(k) \in Nat
    BY <1>2, <2>2
  <2> DEFINE K == Kicks(aux, hits)[k + 1]  x == aux[k + 1].cnt  y == new[k + 1].cnt
  <2>5. /\ K \in Nat /\ x \in Nat /\ y \in Nat /\ UModulus \in Nat
        /\ y = IF K <= x THEN x - K ELSE x - K + UModulus
    BY <1>6, <2>2, SizeAssumption
  <2>6. /\ c(k + 1) = c(k) + (IF x <= n THEN x ELSE 0) /\ h(k + 1) = h(k) + K
        /\ d(k + 1) = d(k) + (IF y <= n + nbr THEN y ELSE 0)
    BY <1>3, <1>4, <1>5, <2>1, <2>2
  <2> HIDE DEF c, d, h, K, x, y
  <2>7. (IF x <= n THEN x ELSE 0) <= (IF y <= n + nbr THEN y ELSE 0) + K
    BY <1>1, <2>5
  <2> DEFINE a == IF x <= n THEN x ELSE 0  b == IF y <= n + nbr THEN y ELSE 0
  <2>8. a \in Nat /\ b \in Nat
    BY <2>5
  <2>9. c(k + 1) = c(k) + a /\ d(k + 1) = d(k) + b /\ h(k + 1) = h(k) + K /\ a <= b + K
    BY <2>6, <2>7
  <2> HIDE DEF a, b
  <2>10. PICK c0 \in Nat, d0 \in Nat, h0 \in Nat : c0 = c(k) /\ d0 = d(k) /\ h0 = h(k)
    BY <2>4
  <2>11. /\ c(k + 1) = c0 + a /\ d(k + 1) = d0 + b /\ h(k + 1) = h0 + K
         /\ c0 <= d0 + h0 /\ a <= b + K /\ K \in Nat
    BY <2>3, <2>5, <2>9, <2>10
  <2>12. c0 + a <= (d0 + b) + (h0 + K)
    BY <2>8, <2>11
  <2> QED  BY <2>11, <2>12
<1>9. c(L) <= d(L) + h(L)
  <2>1. \A k \in Nat : k \in S
    <3> HIDE DEF S
    <3> QED  BY <1>7, <1>8, NatInduct
  <2> HIDE DEF c, d, h
  <2> QED  BY <1>1, <2>1
<1>10. h(L) = ell
  BY <1>1, HitsAll
<1>11. d(L + 1) = d(L) + ell
  <2>1. new[L + 1].cnt <= n + nbr
    BY <1>1
  <2> HIDE DEF d
  <2> QED  BY <1>1, <1>4, <2>1, SMTT(20)
<1>12. c(L) \in Nat /\ d(L) \in Nat
  <2> HIDE DEF c, d, h
  <2> QED  BY <1>1, <1>2
<1>13. /\ Cardinality(Cells(aux, {i \in DOMAIN aux : aux[i].cnt <= n})) = c(L)
       /\ Cardinality(Cells(new, {i \in DOMAIN new : new[i].cnt <= n + nbr})) = d(L + 1)
  BY <1>1
<1> HIDE DEF c, d, h
<1> QED  BY <1>1, <1>9, <1>10, <1>11, <1>12, <1>13

\* Every draw falls into a slot that the set has, whatever has become of its counts.
LEMMA FallsIntoASlot ==
    ASSUME NEW aux \in Seq(Slot)
    PROVE  FallSlots(aux) \subseteq DOMAIN aux
<1> SUFFICES ASSUME NEW fall \in 0 .. Cntr(aux, Len(aux)) - 1
             PROVE  FallsInto(aux, fall) \in DOMAIN aux
  BY DEF FallSlots
<1> DEFINE hit(i) == IF i = 1 THEN fall < Cntr(aux, 1)
                     ELSE Cntr(aux, i - 1) <= fall /\ fall < Cntr(aux, i)
           Hits   == {i \in DOMAIN aux : hit(i)}
           Above  == {i \in Nat : i \in DOMAIN aux /\ fall < Cntr(aux, i)}
<1>1. DOMAIN aux = 1 .. Len(aux) /\ Len(aux) \in Nat
  OBVIOUS
<1>2. \A i \in 0 .. Len(aux) : Cntr(aux, i) \in Nat
  <2> TAKE i \in 0 .. Len(aux)
  <2> DEFINE m == Cardinality(Cells(aux, 1 .. i))
  <2>1. m \in Nat
    <3>1. 1 .. i \subseteq DOMAIN aux
      BY <1>1
    <3> QED  BY <3>1, CellsFinite
  <2> HIDE DEF m
  <2>2. UModulus \in Nat /\ UModulus > 0
    BY SizeAssumption
  <2>3. m % UModulus \in Nat
    BY <2>1, <2>2
  <2> QED  BY <2>3 DEF Cntr, m
<1>3. Len(aux) # 0
  <2>1. ASSUME Len(aux) = 0 PROVE FALSE
    <3>1. Cells(aux, 1 .. 0) = {}
      BY DEF Cells
    <3>2. Cntr(aux, 0) = 0 % UModulus
      BY <3>1, FS_EmptySet DEF Cntr
    <3>3. 0 % UModulus = 0
      BY SizeAssumption
    <3> QED  BY <2>1, <3>2, <3>3
  <2> QED  BY <2>1
<1>4. fall \in Nat /\ fall < Cntr(aux, Len(aux))
  BY <1>1, <1>2, <1>3
<1>5. Len(aux) \in Above
  BY <1>1, <1>3, <1>4
<1>6. Min(Above) \in Above /\ \A x \in Above : Min(Above) <= x
  <2>1. Above \subseteq Nat /\ Above # {}
    BY <1>5
  <2> HIDE DEF Above
  <2> QED  BY <2>1, MinNat
<1>7. PICK i \in Above : \A x \in Above : i <= x
  BY <1>6
<1>8. hit(i)
  <2>1. i \in Nat /\ i \in DOMAIN aux /\ fall < Cntr(aux, i)
    BY <1>7
  <2>2. CASE i = 1
    BY <2>1, <2>2
  <2>3. CASE i # 1
    <3>1. i - 1 \in DOMAIN aux /\ i - 1 \in Nat /\ ~ (i <= i - 1) /\ i - 1 \in 0 .. Len(aux)
      BY <1>1, <2>1, <2>3
    <3>2. i - 1 \notin Above
      BY <1>7, <3>1
    <3>3. ~ (fall < Cntr(aux, i - 1))
      BY <3>1, <3>2
    <3> QED  BY <1>2, <1>4, <2>1, <2>3, <3>1, <3>3
  <2> QED  BY <2>2, <2>3
<1>9. Hits # {} /\ Hits \subseteq Nat
  <2>1. i \in DOMAIN aux
    BY <1>7
  <2> QED  BY <1>1, <1>8, <2>1
<1>10. Min(Hits) \in Hits
  <2> HIDE DEF Hits
  <2> QED  BY <1>9, MinNat
<1>11. FallsInto(aux, fall) = Min(Hits)
  BY <1>9 DEF FallsInto
<1> QED  BY <1>10, <1>11

(***************************************************************************)
(* What a batch does to the number of elements of a set.                   *)
(***************************************************************************)
LEMMA BatchKeepsSize ==
    ASSUME NEW set \in SetDesc, NEW n \in Nat, NEW nbr \in 1 .. MaxDb, NEW ell \in 0 .. nbr,
           NEW hits, DOMAIN hits = 1 .. ell, \A j \in 1 .. ell : hits[j] \in DOMAIN set.aux,
           ExtendedBy(set.aux, Extend(set.aux, hits, nbr), Kicks(set.aux, hits), nbr, ell)
    PROVE  LET new == CurrSet(BatchDiff(set, hits, nbr))
               was == Cardinality(Cells(set.aux, DOMAIN set.aux))
               is  == Cardinality(Cells(new.aux, DOMAIN new.aux))
           IN  /\ is % UModulus = was % UModulus
               /\ NoUnderflow(set.aux, hits) => is = was
               /\ Cardinality(Cells(set.aux, Expanded(set, n)))
                    <= Cardinality(Cells(new.aux, Expanded(new, n + nbr)))
<1> DEFINE aux == set.aux  after == Extend(aux, hits, nbr)
           was == Cardinality(Cells(aux, DOMAIN aux))
           is  == Cardinality(Cells(after, DOMAIN after))
<1>1. aux \in Seq(Slot)
  BY DEF SetDesc
<1>2. ExtendedBy(aux, after, Kicks(aux, hits), nbr, ell)
  OBVIOUS
<1>3. DOMAIN hits = 1 .. ell
  OBVIOUS
<1>4. CurrSet(BatchDiff(set, hits, nbr)).aux = after
  BY DEF BatchDiff, CurrSet
<1> DEFINE new == CurrSet(BatchDiff(set, hits, nbr))
<1>5. /\ Expanded(set, n) = {i \in DOMAIN aux : aux[i].cnt <= n}
      /\ Expanded(new, n + nbr) = {i \in DOMAIN after : after[i].cnt <= n + nbr}
  BY <1>4 DEF Expanded
<1> HIDE DEF aux, after, new
<1>6. \A j \in 1 .. ell : hits[j] \in DOMAIN aux
  BY DEF aux
<1>7. PICK w \in Nat : is = was + w * UModulus /\ (NoUnderflow(aux, hits) => w = 0)
  BY <1>1, <1>2, <1>3, <1>6, BatchCounts
<1>8. Cardinality(Cells(aux, Expanded(set, n))) <= Cardinality(Cells(after, Expanded(new, n + nbr)))
  <2> DEFINE E == {i \in DOMAIN aux : aux[i].cnt <= n}
             F == {i \in DOMAIN after : after[i].cnt <= n + nbr}
  <2>1. Cardinality(Cells(aux, E)) <= Cardinality(Cells(after, F))
    BY <1>1, <1>2, <1>3, <1>6, BatchKeepsMost
  <2>2. Expanded(set, n) = E /\ Expanded(new, n + nbr) = F
    BY <1>5
  <2> HIDE DEF E, F
  <2> QED  BY <2>1, <2>2
<1>9. was \in Nat /\ UModulus \in Nat /\ UModulus > 0
  BY <1>1, CellsFinite, SizeAssumption
<1> HIDE DEF was, is
<1>10. is % UModulus = was % UModulus
  BY <1>7, <1>9, ModMultiple
<1>11. NoUnderflow(aux, hits) => is = was
  BY <1>7, <1>9
<1> QED  BY <1>4, <1>8, <1>10, <1>11 DEF aux, was, is, new

\* A set of one slot.
LEMMA SingleSlotCells ==
    ASSUME NEW n \in 1 .. MaxDb, NEW m \in 0 .. n, NEW set,
           set.aux = <<[range |-> n, cnt |-> m]>>
    PROVE  /\ Cardinality(Cells(set.aux, DOMAIN set.aux)) = m
           /\ Cardinality(Cells(set.aux, Expanded(set, n))) = m
<1> DEFINE slot == [range |-> n, cnt |-> m]  aux == <<slot>>
<1>1. n \in Nat /\ m \in Count /\ m <= n
  BY SizeAssumption DEF Count
<1>2. slot \in Slot /\ slot.cnt = m
  BY <1>1 DEF Slot
<1>3. set.aux = aux /\ aux[1] = slot /\ DOMAIN aux = {1}
  OBVIOUS
<1> HIDE DEF slot
<1>4. aux \in Seq(Slot)
  BY <1>2
<1> HIDE DEF aux
<1>5. Cardinality(Cells(aux, {1})) = m
  BY <1>2, <1>3, <1>4, CellsOfSlot
<1>6. Expanded(set, n) = {1}
  BY <1>1, <1>2, <1>3 DEF Expanded
<1> QED  BY <1>3, <1>5, <1>6

(***************************************************************************)
(* The client expands a set to as many indices as the slots that it does   *)
(* not skip have elements: no two of them coincide.                        *)
(***************************************************************************)
LEMMA ExpandCardinality ==
    ASSUME NEW set, NEW n \in Nat, WellFormed(set, n), CountsOk(set, n), n <= MaxDb
    PROVE  /\ IsFiniteSet(Expand(set, n))
           /\ Cardinality(Expand(set, n)) = Cardinality(Cells(set.aux, Expanded(set, n)))
<1> DEFINE J == Expanded(set, n)  C == Cells(set.aux, J)
           f == [c \in C |-> Position(set, J, c)]
<1>1. set.aux \in Seq(Slot) /\ J \subseteq DOMAIN set.aux
  BY DEF WellFormed, SetDesc, Expanded
<1>2. C \subseteq InRange(set.aux, J)
  <2> SUFFICES ASSUME NEW c \in C PROVE c \in InRange(set.aux, J)
    OBVIOUS
  <2>1. c[1] \in J /\ c[2] \in Count /\ c[2] < set.aux[c[1]].cnt /\ c \in J \X Count
    BY DEF Cells
  <2>2. /\ set.aux[c[1]].cnt \in Nat /\ set.aux[c[1]].range \in Nat /\ c[2] \in Nat
        /\ UModulus \in Nat /\ MaxDb \in Nat /\ UModulus > 2 * MaxDb
    BY <1>1, <2>1, SlotType, SizeAssumption DEF Count
  <2>3. set.aux[c[1]].cnt <= n
    BY <2>1 DEF Expanded
  <2>4. set.aux[c[1]].cnt <= set.aux[c[1]].range
    BY <1>1, <2>1, <2>2, <2>3 DEF CountsOk
  <2>5. c \in J \X Nat
    BY <2>1, <2>2
  <2> HIDE DEF J
  <2> QED  BY <2>1, <2>2, <2>4, <2>5 DEF InRange
<1>3. Expand(set, n) = {Position(set, J, c) : c \in C}
  BY DEF Expand
<1> HIDE DEF J
<1>4. IsFiniteSet(C)
  BY <1>1, CellsFinite
<1>5. \A c, d \in C : Position(set, J, c) = Position(set, J, d) => c = d
  BY <1>1, <1>2, PositionInjective
<1> HIDE DEF C
<1>6. f \in Bijection(C, Expand(set, n))
  BY <1>3, <1>5 DEF Bijection, Surjection, Injection, IsInjective
<1> QED  BY <1>4, <1>6, FS_Bijection DEF ExistsBijection, J, C

\* The draws of a batch as one set has them.
LEMMA DrawsOfSet ==
    ASSUME TypeOK, NEW n \in Nat, NEW hits \in Draws(n), NEW s \in SetNos
    PROVE  \E ell \in 0 .. n : /\ \E U : hits[s] \in [1 .. ell -> U]
                               /\ \A j \in 1 .. ell : hits[s][j] \in DOMAIN sets[s].aux
<1>1. PICK ell \in 0 .. n : \E U : hits[s] \in [1 .. ell -> U]
  BY DrawsBound
<1>2. DOMAIN hits[s] = 1 .. ell
  BY <1>1
<1>3. Range(hits[s]) \subseteq FallSlots(sets[s].aux)
  BY DEF Draws
<1>4. sets[s].aux \in Seq(Slot)
  BY DEF TypeOK, SetDesc
<1>5. FallSlots(sets[s].aux) \subseteq DOMAIN sets[s].aux
  BY <1>4, FallsIntoASlot
<1>6. \A j \in 1 .. ell : hits[s][j] \in Range(hits[s])
  BY <1>2 DEF Range
<1> QED  BY <1>1, <1>3, <1>5, <1>6

\* The sets of the constructor have setsize elements.
LEMMA InitSizeInv == Init => SizeInv
<1> SUFFICES ASSUME Init, NEW s \in SetNos
             PROVE  LET elements == Cardinality(Cells(sets[s].aux, DOMAIN sets[s].aux)) IN
                    /\ elements % UModulus = SetSize
                    /\ sound[s] => elements = SetSize
                    /\ SetSize <= Cardinality(Cells(sets[s].aux, Expanded(sets[s], dbrange)))
  BY DEF SizeInv
<1>1. sets[s].aux = <<[range |-> InitRange, cnt |-> SetSize]>> /\ dbrange = InitRange
  BY DEF Init
<1>2. InitRange \in 1 .. MaxDb /\ SetSize \in 0 .. InitRange /\ SetSize \in Nat
  BY Sizes
<1>3. /\ Cardinality(Cells(sets[s].aux, DOMAIN sets[s].aux)) = SetSize
      /\ Cardinality(Cells(sets[s].aux, Expanded(sets[s], dbrange))) = SetSize
  BY <1>1, <1>2, SingleSlotCells
<1>4. SetSize % UModulus = SetSize
  BY <1>2, Sizes, SizeAssumption
<1> QED  BY <1>2, <1>3, <1>4

\* A refreshed set is one slot of setsize elements.
LEMMA RefreshSizeInv ==
    ASSUME IInv, SizeInv, GenerateRefreshQuery PROVE SizeInv'
<1>1. TypeOK /\ dbrange' = dbrange
  BY DEF IInv, GenerateRefreshQuery
<1>2. PICK k, t, b : /\ sets' = [sets EXCEPT ![cur_qry_setno] =
                           [sk |-> k, shift |-> t, aux |-> <<[range |-> dbrange, cnt |-> SetSize]>>]]
                     /\ sound' = [sound EXCEPT ![cur_qry_setno] = b]
  BY DEF GenerateRefreshQuery
<1> DEFINE set == [sk |-> k, shift |-> t, aux |-> <<[range |-> dbrange, cnt |-> SetSize]>>]
<1>3. set.aux = <<[range |-> dbrange, cnt |-> SetSize]>>
  OBVIOUS
<1>4. dbrange \in 1 .. MaxDb /\ SetSize \in 0 .. dbrange /\ SetSize \in Nat
  BY <1>1, Sizes DEF TypeOK
<1>5. sets' = [sets EXCEPT ![cur_qry_setno] = set]
  BY <1>2
<1> HIDE DEF set
<1>6. /\ \A s \in SetNos : sets'[s] = IF s = cur_qry_setno THEN set ELSE sets[s]
      /\ \A s \in SetNos : s # cur_qry_setno => sound'[s] = sound[s]
  BY <1>1, <1>2, <1>5 DEF TypeOK
<1>7. /\ Cardinality(Cells(set.aux, DOMAIN set.aux)) = SetSize
      /\ Cardinality(Cells(set.aux, Expanded(set, dbrange))) = SetSize
  BY <1>3, <1>4, SingleSlotCells
<1>8. SetSize % UModulus = SetSize
  BY <1>4, Sizes, SizeAssumption
<1> SUFFICES ASSUME NEW s \in SetNos
             PROVE  LET elements == Cardinality(Cells(sets'[s].aux, DOMAIN sets'[s].aux)) IN
                    /\ elements % UModulus = SetSize
                    /\ sound'[s] => elements = SetSize
                    /\ SetSize <= Cardinality(Cells(sets'[s].aux, Expanded(sets'[s], dbrange)))
  BY <1>1 DEF SizeInv
<1>9. CASE s = cur_qry_setno
  BY <1>4, <1>6, <1>7, <1>8, <1>9
<1>10. CASE s # cur_qry_setno
  BY <1>6, <1>10 DEF SizeInv
<1> QED  BY <1>9, <1>10

\* What a batch kicks out of the old slots it puts into the new one, up to the wrapped counts.
LEMMA BatchSizeInv ==
    ASSUME IInv, SizeInv, NEW n \in BatchSizes, BatchedAdditionQuery(n) PROVE SizeInv'
<1>1. TypeOK /\ dbrange' = dbrange + n /\ dbrange + n <= MaxDb
  BY DEF IInv, BatchedAdditionQuery
<1>2. n \in Nat \ {0} /\ n \in Nat /\ dbrange \in Nat /\ n \in 1 .. MaxDb
  BY <1>1, Sizes, ParamAssumption DEF TypeOK
<1>3. PICK hits \in Draws(n) :
        /\ \A s \in SetNos : sets'[s] = CurrSet(BatchDiff(sets[s], hits[s], n))
        /\ \A s \in SetNos : sound'[s] = (sound[s] /\ NoUnderflow(sets[s].aux, hits[s]))
  BY DEF BatchedAdditionQuery
<1> SUFFICES ASSUME NEW s \in SetNos
             PROVE  LET elements == Cardinality(Cells(sets'[s].aux, DOMAIN sets'[s].aux)) IN
                    /\ elements % UModulus = SetSize
                    /\ sound'[s] => elements = SetSize
                    /\ SetSize <= Cardinality(Cells(sets'[s].aux, Expanded(sets'[s], dbrange + n)))
  BY <1>1 DEF SizeInv
<1>4. sets[s] \in SetDesc /\ sets[s].aux \in Seq(Slot)
  BY <1>1 DEF TypeOK, SetDesc
<1>5. PICK ell \in 0 .. n : /\ \E U : hits[s] \in [1 .. ell -> U]
                            /\ \A j \in 1 .. ell : hits[s][j] \in DOMAIN sets[s].aux
  BY <1>1, <1>2, DrawsOfSet
<1>6. PICK U : hits[s] \in [1 .. ell -> U]
  BY <1>5
<1> DEFINE set == sets[s]  new == CurrSet(BatchDiff(set, hits[s], n))
           was == Cardinality(Cells(set.aux, DOMAIN set.aux))
           is  == Cardinality(Cells(new.aux, DOMAIN new.aux))
           old == Cardinality(Cells(set.aux, Expanded(set, dbrange)))
           cur == Cardinality(Cells(new.aux, Expanded(new, dbrange + n)))
<1>12. ExtendedBy(set.aux, Extend(set.aux, hits[s], n), Kicks(set.aux, hits[s]), n, ell)
  BY <1>2, <1>4, <1>5, <1>6, ExtendSlots
<1>13. DOMAIN hits[s] = 1 .. ell /\ \A j \in 1 .. ell : hits[s][j] \in DOMAIN set.aux
  BY <1>5, <1>6
<1>7. /\ is % UModulus = was % UModulus /\ (NoUnderflow(set.aux, hits[s]) => is = was)
      /\ old <= cur
  BY <1>2, <1>4, <1>12, <1>13, BatchKeepsSize
<1>8. was % UModulus = SetSize /\ (sound[s] => was = SetSize) /\ SetSize <= old
  BY DEF SizeInv
<1>9. sets'[s] = new /\ sound'[s] = (sound[s] /\ NoUnderflow(set.aux, hits[s]))
  BY <1>3
<1>10. old \in Nat /\ cur \in Nat
  <2>1. new.aux \in Seq(Slot)
    BY <1>12 DEF ExtendedBy, CurrSet, BatchDiff
  <2>2. Expanded(set, dbrange) \subseteq DOMAIN set.aux
        /\ Expanded(new, dbrange + n) \subseteq DOMAIN new.aux
    BY DEF Expanded
  <2> HIDE DEF new
  <2> QED  BY <1>4, <2>1, <2>2, CellsFinite
<1> HIDE DEF was, is, old, cur, new
<1>11. SetSize <= cur
  BY <1>7, <1>8, <1>10, Sizes
<1> QED  BY <1>7, <1>8, <1>9, <1>11 DEF is, cur

\* No other step changes a set.
LEMMA NextSizeInv == IInv /\ SizeInv /\ [Next]_vars => SizeInv'
<1> SUFFICES ASSUME IInv, SizeInv, [Next]_vars PROVE SizeInv'
  OBVIOUS
<1>1. CASE UNCHANGED <<dbrange, sets, sound>>
  BY <1>1 DEF SizeInv, Expanded
<1>2. CASE GenerateRefreshQuery
  BY <1>2, RefreshSizeInv
<1>3. ASSUME NEW n \in BatchSizes, BatchedAdditionQuery(n) PROVE SizeInv'
  BY <1>3, BatchSizeInv
<1>4. Next \/ UNCHANGED vars
  OBVIOUS
<1>5. UNCHANGED <<dbrange, sets, sound>> \/ GenerateRefreshQuery
      \/ \E n \in BatchSizes : BatchedAdditionQuery(n)
  BY <1>4 DEF Next, vars, client, GenerateOfflineQuery, GenerateOfflineReply, UpdateParity,
      GenerateOnlineQuery, GenerateOnlineReply, QueryRecov, RefreshRecov, AddElements,
      BatchedAdditionReply, BatchedAdditionThrows
<1> QED  BY <1>1, <1>2, <1>3, <1>5

\* SizeInv is inductive relative to IInv.
LEMMA SizesInvariant == Spec => [](IInv /\ SizeInv)
<1>1. Init => IInv /\ SizeInv
  BY InitIInv, InitSizeInv
<1>2. (IInv /\ SizeInv) /\ [Next]_vars => (IInv /\ SizeInv)'
  BY NextIInv, NextSizeInv
<1> QED  BY <1>1, <1>2, PTL DEF Spec

\* The number of indices that the client expands a set to.
LEMMA MembersCardinality ==
    ASSUME IInv, NEW s \in SetNos
    PROVE  /\ IsFiniteSet(Members(s))
           /\ Cardinality(Members(s)) = Cardinality(Cells(sets[s].aux, Expanded(sets[s], dbrange)))
<1>1. /\ WellFormed(sets[s], dbrange) /\ CountsOk(sets[s], dbrange)
      /\ dbrange \in Nat /\ dbrange <= MaxDb
  BY Sizes DEF IInv, ShapeInv, TypeOK
<1> QED  BY <1>1, ExpandCardinality DEF Members

\* A sound set has exactly setsize distinct indices, whatever batches it went through
\* (client.cpp:218-293).
LEMMA SizeConservedStep == IInv /\ SizeInv => SizeConserved
<1> SUFFICES ASSUME IInv, SizeInv, NEW s \in SetNos, sound[s]
             PROVE  Cardinality(Members(s)) = SetSize
  BY DEF SizeConserved
<1>1. WellFormed(sets[s], dbrange) /\ Fits(sets[s]) /\ dbrange \in Nat
  BY Sizes DEF IInv, ShapeInv, TypeOK
<1>2. Expanded(sets[s], dbrange) = DOMAIN sets[s].aux
  <2> SUFFICES ASSUME NEW i \in DOMAIN sets[s].aux PROVE sets[s].aux[i].cnt <= dbrange
    BY DEF Expanded
  <2>1. sets[s].aux[i].cnt <= sets[s].aux[i].range
    BY <1>1 DEF Fits
  <2>2. sets[s].aux[i].range <= dbrange
    BY <1>1, RangeBound
  <2>3. sets[s].aux \in Seq(Slot)
    BY <1>1 DEF WellFormed, SetDesc
  <2>4. sets[s].aux[i].cnt \in Nat /\ sets[s].aux[i].range \in Nat
    BY <2>3, SlotType, SizeAssumption DEF Count
  <2> QED  BY <1>1, <2>1, <2>2, <2>4
<1>3. Cardinality(Members(s)) = Cardinality(Cells(sets[s].aux, DOMAIN sets[s].aux))
  BY <1>2, MembersCardinality
<1> QED  BY <1>3 DEF SizeInv

(***************************************************************************)
(* A set that no step has spoilt has exactly setsize indices, whatever     *)
(* batches and refreshes it went through: batched_addition_query balances. *)
(***************************************************************************)
THEOREM SoundSetsKeepTheirSize == Spec => []SizeConserved
BY SizesInvariant, SizeConservedStep, PTL

-----------------------------------------------------------------------------
(* The search of generate_online_query *)

\* Taking the shift away and adding it again gives the row back.
LEMMA ShiftBack ==
    ASSUME NEW r \in Nat, r > 0, NEW t \in 0 .. r - 1, NEW y \in 0 .. r - 1
    PROVE  LET z == (y + r - t) % r IN z \in 0 .. r - 1 /\ (z + t) % r = y
<1>1. PICK a \in Int : a = y + r - t
  OBVIOUS
<1>2. a % r = IF a < r THEN a ELSE a - r
  BY <1>1, ModAbove
<1>3. PICK z \in Int : z = a % r
  BY <1>1, <1>2
<1>4. z = (IF y < t THEN y + r - t ELSE y - t) /\ z \in 0 .. r - 1
  BY <1>1, <1>2, <1>3
<1>5. PICK b \in Int : b = z + t
  OBVIOUS
<1>6. b % r = IF b < r THEN b ELSE b - r
  BY <1>4, <1>5, ModAbove
<1> QED  BY <1>1, <1>3, <1>4, <1>5, <1>6

(***************************************************************************)
(* The inverse evaluation of generate_online_query undoes Eval in every    *)
(* slot but a first one whose shift is 0, where it takes the wrong key.    *)
(***************************************************************************)
LEMMA EvalInverse ==
    ASSUME NEW set, NEW n, WellFormed(set, n), NEW i \in DOMAIN set.aux, i # 1 \/ set.shift # 0,
           NEW y \in 0 .. set.aux[i].range - 1
    PROVE  /\ InvEval(set, i, y) \in 0 .. set.aux[i].range - 1
           /\ Eval(set, i, InvEval(set, i, y)) = y
<1> DEFINE r == set.aux[i].range  t == set.shift  k == SlotKey(set, i)
<1>1. set \in SetDesc /\ set.aux \in Seq(Slot) /\ t \in Nat
  BY DEF WellFormed, SetDesc
<1>2. k \in Key
  BY <1>1, SlotKeyType
<1>3. r \in 1 .. MaxDb /\ r \in Nat /\ r > 0
  BY <1>1, SlotType, SizeAssumption
<1>4. \A z \in 0 .. r - 1 : /\ InvCycleWalk(z, r, k) \in 0 .. r - 1
                            /\ CycleWalk(InvCycleWalk(z, r, k), r, k) = z
  <2> TAKE z \in 0 .. r - 1
  <2>1. \E x \in 0 .. r - 1 : CycleWalk(x, r, k) = z
    BY <1>2, <1>3, CycleWalkPermutes
  <2> HIDE DEF r, k
  <2> QED  BY <2>1 DEF InvCycleWalk
<1>5. CASE i = 1
  <2> DEFINE z == (y + r - t) % r  x == InvCycleWalk(z, r, k)
  <2>1. t # 0 /\ t < r
    BY <1>5 DEF WellFormed
  <2>2. k = set.sk
    BY <1>5 DEF SlotKey
  <2>3. InvEval(set, i, y) = x
    BY <1>5, <2>1, <2>2 DEF InvEval
  <2>4. \A v : Eval(set, i, v) = (CycleWalk(v, r, k) + t) % r
    BY <1>5, <2>1, <2>2 DEF Eval
  <2> HIDE DEF r, t, k
  <2>5. y \in 0 .. r - 1
    BY DEF r
  <2>6. t \in 0 .. r - 1
    BY <1>1, <1>3, <2>1
  <2>7. z \in 0 .. r - 1 /\ (z + t) % r = y
    BY <1>3, <2>5, <2>6, ShiftBack
  <2>9. x \in 0 .. r - 1 /\ CycleWalk(x, r, k) = z
    <3> HIDE DEF z
    <3> QED  BY <1>4, <2>7
  <2> HIDE DEF x, z
  <2>10. Eval(set, i, x) = y
    BY <2>4, <2>7, <2>9
  <2> QED  BY <2>3, <2>9, <2>10 DEF r
<1>6. CASE i # 1
  <2>1. k = SubKey(set.sk, i)
    BY <1>6 DEF SlotKey
  <2>2. InvEval(set, i, y) = InvCycleWalk(y, r, k)
    BY <1>6, <2>1 DEF InvEval
  <2>3. \A v : Eval(set, i, v) = CycleWalk(v, r, k)
    BY <1>6, <2>1 DEF Eval
  <2>4. y \in 0 .. r - 1
    OBVIOUS
  <2> HIDE DEF r, k
  <2> QED  BY <1>4, <2>2, <2>3, <2>4 DEF r
<1> QED  BY <1>5, <1>6

\* Nothing lies before the first slot.
LEMMA FirstBase ==
    ASSUME NEW aux \in Seq(Slot)
    PROVE  AccumRange(aux, DOMAIN aux, 1) = 0
<1>1. {j \in DOMAIN aux : j < 1} = {}
  OBVIOUS
<1>2. Rows(aux, {}) = {}
  BY DEF Rows
<1> QED  BY <1>1, <1>2, FS_EmptySet DEF AccumRange

\* The search and the expansion agree on a set whose counts fit.
LEMMA HoldsIsMembership ==
    ASSUME NEW set, NEW n, WellFormed(set, n), Fits(set), NEW idx \in Nat,
           set.shift # 0 \/ idx >= set.aux[1].range
    PROVE  Holds(set, idx) <=> idx \in Expand(set, n)
<1> DEFINE aux == set.aux  D == DOMAIN set.aux  base(i) == AccumRange(aux, D, i)
<1>1. aux \in Seq(Slot) /\ aux # <<>>
  BY DEF WellFormed, SetDesc
<1>2. Expand(set, n) = {Position(set, D, c) : c \in Cells(aux, D)}
  BY FitsExpand DEF Image
<1>3. ASSUME NEW i \in D
      PROVE  /\ base(i) \in Nat /\ aux[i].range \in Nat /\ aux[i].cnt \in Nat
             /\ aux[i].cnt <= aux[i].range
  <2>1. base(i) \in Nat
    BY <1>1, SlotEnds
  <2>2. aux[i].range \in Nat /\ aux[i].cnt \in Nat
    BY <1>1, SlotType, SizeAssumption DEF Count
  <2> QED  BY <2>1, <2>2 DEF Fits
<1>4. ASSUME NEW i \in D, idx \in base(i) .. base(i) + aux[i].range - 1
      PROVE  i # 1 \/ set.shift # 0
  <2> SUFFICES ASSUME i = 1, set.shift = 0 PROVE FALSE
    OBVIOUS
  <2>1. base(i) = 0
    BY <1>1, FirstBase
  <2>2. idx < aux[1].range /\ idx >= aux[1].range
    BY <1>3, <1>4, <2>1
  <2> QED  BY <1>3, <2>2
<1>5. ASSUME Holds(set, idx)
      PROVE  idx \in Expand(set, n)
  <2>1. PICK i \in D : /\ idx \in base(i) .. base(i) + aux[i].range - 1
                       /\ InvEval(set, i, idx - base(i)) < aux[i].cnt
    BY <1>5 DEF Holds
  <2> DEFINE y == idx - base(i)  x == InvEval(set, i, y)  c == <<i, x>>
  <2>2. y \in 0 .. aux[i].range - 1
    BY <1>3, <2>1
  <2>3. i # 1 \/ set.shift # 0
    BY <1>4, <2>1
  <2>4. x \in 0 .. aux[i].range - 1 /\ Eval(set, i, x) = y
    BY <2>2, <2>3, EvalInverse
  <2>5. aux[i].cnt \in Count /\ UModulus \in Nat
    BY <1>1, SlotType, SizeAssumption
  <2>6. x \in Count /\ x < aux[i].cnt
    <3> HIDE DEF x, aux
    <3> QED  BY <1>3, <2>1, <2>4, <2>5 DEF Count, x, y
  <2>7. c \in Cells(aux, D)
    <3> HIDE DEF x
    <3> QED  BY <2>6 DEF Cells
  <2>8. Position(set, D, c) = base(i) + y
    BY <2>4 DEF Position
  <2>9. base(i) + y = idx
    BY <1>3
  <2> HIDE DEF c, y, x
  <2> QED  BY <1>2, <2>7, <2>8, <2>9
<1>6. ASSUME idx \in Expand(set, n)
      PROVE  Holds(set, idx)
  <2>1. PICK c \in Cells(aux, D) : idx = Position(set, D, c)
    BY <1>2, <1>6
  <2>2. c \in InRange(aux, D)
    BY FitsInRange
  <2>3. c[1] \in D /\ c[2] \in Nat /\ c[2] < aux[c[1]].cnt /\ c[2] < aux[c[1]].range
    BY <2>1, <2>2 DEF Cells, InRange
  <2>4. PICK i \in D : i = c[1]
    BY <2>3
  <2>5. /\ base(i) \in Nat
        /\ idx \in base(i) .. base(i) + aux[i].range - 1
    BY <2>1, <2>2, <2>4, PositionBounds
  <2> DEFINE y == idx - base(i)  x == InvEval(set, i, y)
  <2>6. y \in 0 .. aux[i].range - 1
    BY <1>3, <2>5
  <2>7. i # 1 \/ set.shift # 0
    BY <1>4, <2>5
  <2>8. x \in 0 .. aux[i].range - 1 /\ Eval(set, i, x) = y
    BY <2>6, <2>7, EvalInverse
  <2>9. c[2] \in 0 .. aux[i].range - 1
    BY <1>3, <2>3, <2>4
  <2>10. Eval(set, i, c[2]) = y
    <3>1. idx = base(i) + Eval(set, i, c[2])
      BY <2>1, <2>4 DEF Position
    <3>2. Eval(set, i, c[2]) \in 0 .. aux[i].range - 1
      BY <2>9, EvalInjective
    <3>3. Eval(set, i, c[2]) \in Int
      BY <3>2
    <3> QED  BY <1>3, <3>1, <3>3
  <2>11. x = c[2]
    <3>1. \A v, w \in 0 .. aux[i].range - 1 : Eval(set, i, v) = Eval(set, i, w) => v = w
      BY EvalInjective
    <3> HIDE DEF x, y
    <3> QED  BY <2>8, <2>9, <2>10, <3>1
  <2>12. x < aux[i].cnt
    BY <2>3, <2>4, <2>11
  <2> QED  BY <2>5, <2>12 DEF Holds
<1> QED  BY <1>5, <1>6

\* The search by inverse evaluation finds exactly the sound sets that hold the index.
THEOREM SearchFindsWhatSetsHold == Spec => []FindAgrees
<1>1. IInv => FindAgrees
  <2> SUFFICES ASSUME IInv, NEW s \in SetNos, NEW idx \in 0 .. dbrange - 1, sound[s],
                      sets[s].shift # 0 \/ idx >= sets[s].aux[1].range
               PROVE  Holds(sets[s], idx) <=> idx \in Members(s)
    BY DEF FindAgrees
  <2>1. WellFormed(sets[s], dbrange) /\ Fits(sets[s])
    BY DEF IInv, ShapeInv
  <2>2. idx \in Nat
    OBVIOUS
  <2> QED  BY <2>1, <2>2, HoldsIsMembership DEF Members
<1> QED  BY <1>1, InductiveInvariant, PTL

-----------------------------------------------------------------------------
(* What the sizes of the sets rule out *)

\* No remainder is taken by 0 (server.cpp).
THEOREM NeverDividesByZero == Spec => []NoZeroDivisor
<1>1. IInv /\ SizeInv => NoZeroDivisor
  <2> SUFFICES ASSUME IInv, SizeInv, NEW s \in SetNos
               PROVE  /\ Cntr(sets[s].aux, Len(sets[s].aux)) # 0
                      /\ \A idx \in Index : Members(s) \ {idx} # {}
    BY DEF NoZeroDivisor
  <2>1. sets[s].aux \in Seq(Slot)
    BY DEF IInv, TypeOK, SetDesc
  <2>2. DOMAIN sets[s].aux = 1 .. Len(sets[s].aux)
    BY <2>1
  <2>3. Cntr(sets[s].aux, Len(sets[s].aux)) = SetSize
    BY <2>2 DEF SizeInv, Cntr
  <2>4. IsFiniteSet(Members(s)) /\ SetSize <= Cardinality(Members(s))
    BY MembersCardinality DEF SizeInv
  <2>5. ASSUME NEW idx \in Index, Members(s) \ {idx} = {}
        PROVE  FALSE
    <3>1. Members(s) \subseteq {idx}
      BY <2>5
    <3>2. IsFiniteSet({idx}) /\ Cardinality({idx}) = 1
      BY FS_Singleton
    <3>3. Cardinality(Members(s)) <= 1
      BY <3>1, <3>2, FS_Subset
    <3>4. Cardinality(Members(s)) \in Nat
      BY <2>4, FS_CardinalityType
    <3> QED  BY <2>4, <3>3, <3>4, Sizes
  <2>6. SetSize # 0
    BY Sizes
  <2> QED  BY <2>3, <2>5, <2>6
<1> QED  BY <1>1, SizesInvariant, PTL

\* Two finite sets of the same size lose as much to each other as they gain.
LEMMA EqualSizes ==
    ASSUME NEW A, NEW B, IsFiniteSet(A), IsFiniteSet(B), Cardinality(A) = Cardinality(B)
    PROVE  Cardinality(A \ B) = Cardinality(B \ A)
<1>1. /\ Cardinality(A \ B) = Cardinality(A) - Cardinality(A \cap B)
      /\ Cardinality(B \ A) = Cardinality(B) - Cardinality(B \cap A)
  BY FS_Difference
<1>2. A \cap B = B \cap A
  OBVIOUS
<1> QED  BY <1>1, <1>2

\* A batch gives a sound set no old row and trades as many rows as it adds.
LEMMA ExchangeStep ==
    ASSUME IInv, SizeInv, IInv', SizeInv', Next, NEW s \in SetNos, dbrange' # dbrange, sound'[s]
    PROVE  /\ Members(s)' \cap (0 .. dbrange - 1) \subseteq Members(s)
           /\ Cardinality(Members(s) \ Members(s)') = Cardinality(Members(s)' \ Members(s))
<1>1. PICK n \in BatchSizes : BatchedAdditionQuery(n)
  BY DEF Next, client, GenerateOfflineQuery, GenerateOfflineReply, UpdateParity,
      GenerateOnlineQuery, GenerateOnlineReply, QueryRecov, GenerateRefreshQuery, RefreshRecov,
      AddElements, BatchedAdditionReply, BatchedAdditionThrows
<1>2. sound[s] /\ Members(s)' \cap (0 .. dbrange - 1) \subseteq Members(s)
  BY <1>1, BatchGrows
<1>3. Cardinality(Members(s)) = SetSize
  BY <1>2, SizeConservedStep DEF SizeConserved
<1>4. (IInv /\ SizeInv => SizeConserved)'
  BY SizeConservedStep, PTL
<1>5. Cardinality(Members(s)') = SetSize
  BY <1>4 DEF SizeConserved
<1>6. IsFiniteSet(Members(s))
  BY MembersCardinality
<1>7. IsFiniteSet(Members(s)')
  <2>1. Members(s)' \subseteq 0 .. dbrange' - 1
    <3>1. (TypeOK /\ ShapeInv)'
      BY DEF IInv
    <3>2. /\ dbrange' \in Nat /\ dbrange' <= MaxDb
          /\ WellFormed(sets'[s], dbrange') /\ CountsOk(sets'[s], dbrange')
      BY <3>1, Sizes DEF TypeOK, ShapeInv
    <3> QED  BY <3>2, ExpandBounds DEF Members
  <2>2. IsFiniteSet(0 .. dbrange' - 1)
    <3>1. dbrange' \in Int
      BY Sizes DEF IInv, TypeOK
    <3>2. dbrange' - 1 \in Int /\ 0 \in Int
      BY <3>1
    <3> QED  BY <3>2, FS_Interval
  <2> QED  BY <2>1, <2>2, FS_Subset
<1> QED  BY <1>2, <1>3, <1>5, <1>6, <1>7, EqualSizes

\* A batch of additions exchanges rows of a sound set, one old for one new.
THEOREM BatchesExchange == Spec => BatchExchanges
<1>1. IInv /\ SizeInv /\ (IInv /\ SizeInv)' /\ [Next]_vars
        => [\A s \in SetNos :
              dbrange' # dbrange /\ sound'[s] =>
                LET old == Members(s)  new == Members(s)' IN
                /\ new \cap (0 .. dbrange - 1) \subseteq old
                /\ Cardinality(old \ new) = Cardinality(new \ old)]_vars
  BY ExchangeStep
<1> QED  BY <1>1, SizesInvariant, PTL DEF Spec, BatchExchanges
=============================================================================
