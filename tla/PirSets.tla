------------------------------ MODULE PirSets ------------------------------
(***************************************************************************)
(* The succinct description of a pseudorandom set of database indices      *)
(* (pir.hpp, SetDesc), and the pure computations that client.cpp and       *)
(* server.cpp make on it: evaluating a set, looking an index up in it,     *)
(* the difference a batch of additions makes to it, and the parity of      *)
(* database blocks.                                                        *)
(*                                                                         *)
(* Blocks are symbolic: the block stored at index i is {i}, exclusive or   *)
(* is symmetric difference, so that the parity of some blocks is the set   *)
(* of the indices that occur an odd number of times among them.            *)
(*                                                                         *)
(* The keyed permutation of adprp.cpp and the key derivation of pir.cpp    *)
(* are parameters: cycle_walk(x, range, k) is Prp[k][range][x], and        *)
(* kdf(mk, k, b) is Kdf[k][b & 0xFF] (a client never changes its mk).      *)
(* Slots are numbered from 1 here and from 0 in the code.                  *)
(***************************************************************************)
EXTENDS Integers, Sequences, FiniteSets, FiniteSetsExt, Functions

CONSTANTS Key,       \* the 128-bit keys
          Prp,       \* the pseudorandom permutation of each key and range
          Kdf,       \* the key derivation from a set key and a batch number
          MaxDb,     \* bound: the database never holds more blocks
          UModulus   \* 2^32: the counts of a slot are uint32_t

Index == 0 .. MaxDb - 1
Count == 0 .. UModulus - 1

ASSUME SizeAssumption == MaxDb \in Nat \ {0} /\ UModulus \in Nat /\ UModulus > 2 * MaxDb

\* cycle_walk is a permutation of 0..range-1 for every key and range.
ASSUME PrpAssumption ==
    \A k \in Key, r \in 1 .. MaxDb : Prp[k][r] \in Bijection(0 .. r - 1, 0 .. r - 1)

ASSUME KdfAssumption == Kdf \in [Key -> [0 .. 255 -> Key]]

(***************************************************************************)
(* A slot of aux is a range of the database and how many pseudorandom      *)
(* indices of that range belong to the set.                                *)
(***************************************************************************)
Slot    == [range : 1 .. MaxDb, cnt : Count]
SetDesc == [sk : Key, shift : Nat, aux : Seq(Slot)]

CycleWalk(x, range, k)    == Prp[k][range][x]
InvCycleWalk(y, range, k) == CHOOSE x \in 0 .. range - 1 : CycleWalk(x, range, k) = y
SubKey(sk, slot)          == Kdf[sk][(slot - 1) % 256]

\* The rows of the database that the slots J of aux cover.
Rows(aux, J) == {c \in J \X Index : c[2] < aux[c[1]].range}

\* (mutant) accum_range is assigned the range of the slot before, not increased by it.
AccumRangeAssigned(aux, J, i) == Cardinality(Rows(aux, {j \in J : j = i - 1}))

\* accum_range when a loop over the slots J reaches slot i: the rows before it.
AccumRange(aux, J, i) == Cardinality(Rows(aux, {j \in J : j < i}))

\* The number of rows of the database that aux covers.
Coverage(aux) == Cardinality(Rows(aux, DOMAIN aux))

\* (mutant) The shifted element is not reduced modulo the range.
EvalNotReduced(set, i, x) ==
    CycleWalk(x, set.aux[i].range, IF i = 1 THEN set.sk ELSE SubKey(set.sk, i))
        + IF i = 1 THEN set.shift ELSE 0

(***************************************************************************)
(* The evaluation of element x of slot i: the first slot uses the set key  *)
(* and, unless it is 0, the shift.                                         *)
(***************************************************************************)
Eval(set, i, x) ==
    LET range == set.aux[i].range
        y     == CycleWalk(x, range, IF i = 1 THEN set.sk ELSE SubKey(set.sk, i))
    IN  IF set.shift # 0 /\ i = 1 THEN (y + set.shift) % range ELSE y

Position(set, J, c) == AccumRange(set.aux, J, c[1]) + Eval(set, c[1], c[2])

\* The elements (slot, x) of the slots J of aux.
Cells(aux, J) == {c \in J \X Count : c[2] < aux[c[1]].cnt}

\* generate_online_query skips a slot whose count exceeds the database size,
\* and does not advance accum_range over it.
Expanded(set, dbrange) == {i \in DOMAIN set.aux : set.aux[i].cnt <= dbrange}
Expand(set, dbrange) ==
    LET J == Expanded(set, dbrange) IN {Position(set, J, c) : c \in Cells(set.aux, J)}

\* (mutant) The inverse adds the shift that it should take away.
InvEvalAddsShift(set, i, y) ==
    LET range == set.aux[i].range IN
    IF set.shift # 0 /\ i = 1
    THEN InvCycleWalk((y + set.shift) % range, range, set.sk)
    ELSE InvCycleWalk(y, range, SubKey(set.sk, i))

(***************************************************************************)
(* The search of generate_online_query for a set that holds idx.  The      *)
(* inverse is taken under the set key only in a first slot whose shift is  *)
(* not 0; in every other case under the derived key of the slot.           *)
(***************************************************************************)
InvEval(set, i, y) ==
    LET range == set.aux[i].range IN
    IF set.shift # 0 /\ i = 1
    THEN InvCycleWalk((y + range - set.shift) % range, range, set.sk)
    ELSE InvCycleWalk(y, range, SubKey(set.sk, i))

Holds(set, idx) ==
    \E i \in DOMAIN set.aux :
        LET base == AccumRange(set.aux, DOMAIN set.aux, i) IN
        /\ idx \in base .. base + set.aux[i].range - 1
        /\ InvEval(set, i, idx - base) < set.aux[i].cnt

\* probabilistic_remove: either idx itself is removed, or another element is
\* and idx is (still, or now) in the result.
RemoveIndex(s, idx) == s \ {idx}
RemoveOther(s, idx) == {(s \ {r}) \cup {idx} : r \in s \ {idx}}

(***************************************************************************)
(* Parities.  XorOf is the exclusive or of the blocks at positions f[c],   *)
(* for every c: a position visited twice cancels.                          *)
(***************************************************************************)
XorOf(f) == {y \in Range(f) : Cardinality({c \in DOMAIN f : f[c] = y}) % 2 = 1}

\* generate_offline_reply: the first setsize elements of the one slot that the
\* server assumes, over the server's own dbrange; aux is not looked at.
OfflineParity(set, dbrange, setsize) ==
    XorOf([x \in 0 .. setsize - 1 |-> (CycleWalk(x, dbrange, set.sk) + set.shift) % dbrange])

(***************************************************************************)
(* A batch of additions.  A difference gives the slots before and after:   *)
(* the server evaluates the elements kicked out of the old slots, and all  *)
(* elements of the new one.                                                *)
(***************************************************************************)
DiffSetDesc == [sk : Key, shift : Nat, aux_prev : Seq(Slot), aux_curr : Seq(Slot)]

PrevSet(d) == [sk |-> d.sk, shift |-> d.shift, aux |-> d.aux_prev]
CurrSet(d) == [sk |-> d.sk, shift |-> d.shift, aux |-> d.aux_curr]

\* (mutant) The elements kicked out of a slot are taken to be one further up.
DiffCellsOffByOne(d) ==
    {c \in (DOMAIN d.aux_curr) \X Count :
        IF c[1] <= Len(d.aux_prev)
        THEN d.aux_curr[c[1]].cnt < c[2] /\ c[2] <= d.aux_prev[c[1]].cnt
        ELSE c[2] < d.aux_curr[c[1]].cnt}

DiffCells(d) ==
    LET kick_slot == Len(d.aux_prev) IN
    {c \in (DOMAIN d.aux_curr) \X Count :
        IF c[1] <= kick_slot
        THEN d.aux_curr[c[1]].cnt <= c[2] /\ c[2] < d.aux_prev[c[1]].cnt
        ELSE c[2] < d.aux_curr[c[1]].cnt}

\* cycle_walk throws on an element that is not below the range of its slot.
DiffThrows(d) == \E c \in DiffCells(d) : c[2] >= d.aux_curr[c[1]].range

DiffParity(d) ==
    XorOf([c \in DiffCells(d) |-> Position(CurrSet(d), DOMAIN d.aux_curr, c)])

\* The running sums cntr and lsum of batched_addition_query are kept in a
\* double and truncated to 32 bits.
Cntr(aux, i) == Cardinality(Cells(aux, 1 .. i)) % UModulus

\* The slot that loses an element when the random number is fall: 0 is none.
FallsInto(aux, fall) ==
    LET hit(i) == IF i = 1 THEN fall < Cntr(aux, 1)
                  ELSE Cntr(aux, i - 1) <= fall /\ fall < Cntr(aux, i)
        Hits   == {i \in DOMAIN aux : hit(i)}
    IN  IF Hits = {} THEN 0 ELSE Min(Hits)
FallSlots(aux) == {FallsInto(aux, fall) : fall \in 0 .. Cntr(aux, Len(aux)) - 1}

\* How often each slot loses an element when the draws are hits.
Kicks(aux, hits) == [i \in DOMAIN aux |-> Cardinality({j \in DOMAIN hits : hits[j] = i})]

\* (mutant) The new slot is appended, but no old slot loses an element.
ExtendKeepsAll(aux, hits, nbr_add) == Append(aux, [range |-> nbr_add, cnt |-> Len(hits)])

\* (mutant) The slot of the new rows is appended empty.
ExtendWithEmptySlot(aux, hits, nbr_add) ==
    Append([i \in DOMAIN aux |->
              [range |-> aux[i].range, cnt |-> (aux[i].cnt - Kicks(aux, hits)[i]) % UModulus]],
           [range |-> nbr_add, cnt |-> 0])

\* (mutant) The counts are signed.
ExtendSigned(aux, hits, nbr_add) ==
    Append([i \in DOMAIN aux |->
              [range |-> aux[i].range, cnt |-> aux[i].cnt - Kicks(aux, hits)[i]]],
           [range |-> nbr_add, cnt |-> Len(hits)])

\* aux after the kicks, with the slot of the nbr_add new rows appended.
Extend(aux, hits, nbr_add) ==
    Append([i \in DOMAIN aux |->
              [range |-> aux[i].range, cnt |-> (aux[i].cnt - Kicks(aux, hits)[i]) % UModulus]],
           [range |-> nbr_add, cnt |-> Len(hits)])

BatchDiff(set, hits, nbr_add) ==
    [sk |-> set.sk, shift |-> set.shift,
     aux_prev |-> set.aux, aux_curr |-> Extend(set.aux, hits, nbr_add)]

\* No slot was drawn more often than it had elements when the batch began.
NoUnderflow(aux, hits) == \A i \in DOMAIN aux : Kicks(aux, hits)[i] <= aux[i].cnt
-----------------------------------------------------------------------------
(* What the invariants say of descriptions and differences. *)

\* A set over a database of n blocks, and one whose counts fit its ranges.
WellFormed(set, n) ==
    /\ set \in SetDesc
    /\ set.aux # <<>>
    /\ set.shift < set.aux[1].range
    /\ Coverage(set.aux) = n

Fits(set) == \A i \in DOMAIN set.aux : set.aux[i].cnt <= set.aux[i].range

\* Counts that fit, or that have wrapped around so far that the client skips them.
CountsOk(set, n) ==
    \A i \in DOMAIN set.aux : \/ set.aux[i].cnt <= set.aux[i].range
                              \/ set.aux[i].cnt >= UModulus - n

\* aux_curr is aux_prev with a slot appended, over the same ranges.
Appends(d) ==
    /\ Len(d.aux_curr) = Len(d.aux_prev) + 1
    /\ \A i \in DOMAIN d.aux_prev : d.aux_curr[i].range = d.aux_prev[i].range

\* No count of an old slot has grown.
Shrinks(d) == \A i \in DOMAIN d.aux_prev : d.aux_curr[i].cnt <= d.aux_prev[i].cnt
=============================================================================
