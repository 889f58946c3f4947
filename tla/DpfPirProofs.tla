---------------------------- MODULE DpfPirProofs ----------------------------
(***************************************************************************)
(* About DPF-PIR beyond its tree (which is in DpfProofs).                  *)
(*                                                                         *)
(* The store: for every number of records and every indexing, answer_pir1, *)
(* 2, 4 and 5 return the exclusive or of the records that the indexing     *)
(* selects, because each accumulator holds the selected records of its     *)
(* residue that the loop has passed; and two servers recover the record of *)
(* the client, in answer_pir3 only the last of every eight.  That the      *)
(* switch and the table of masks are right in each of their 256 cases is   *)
(* the assumption TablesAreRight, which TLC evaluates.                     *)
(*                                                                         *)
(* The retrieval: for every height, point and final word, the padding of   *)
(* the keys takes the same bytes from both, and the answer is the record   *)
(* that was asked for, up to records of its leaf if any were taken.        *)
(***************************************************************************)
EXTENDS HashDataStore, DpfPir, SequenceTheorems, TLAPS

LEMMA DivMod ==
    ASSUME NEW x \in Int
    PROVE  x = 8 * (x \div 8) + (x % 8) /\ x % 8 \in 0 .. 7 /\ x \div 8 \in Int
OBVIOUS

LEMMA DivModOf ==
    ASSUME NEW q \in Int, NEW k \in 0 .. 7
    PROVE  (8 * q + k) \div 8 = q /\ (8 * q + k) % 8 = k
OBVIOUS

LEMMA DivModBetween ==
    ASSUME NEW q \in Int, NEW j \in Int, NEW n \in Int
    PROVE  /\ (8 * q <= j /\ j < 8 * q + 8) => (j \div 8 = q /\ j % 8 = j - 8 * q)
           /\ j < 8 * n <=> j \div 8 < n
OBVIOUS

Sums == [Lane -> [{0, 1} -> SUBSET Int]]

\* The accumulator that record j is added to, if it is, and whether server p adds it.
LaneOf(j) == IF fn = "pir3" THEN 7 - (j % 8) ELSE j % 8
Counted(p, j) ==
    \/ fn \in Sound /\ Selected(p, j)
    \/ fn = "pir3" /\ j % 8 = 7 /\ Selected(p, j)
    \/ fn = "idea_speed_comparison"

\* The accumulators and the answers of all six versions.
SumsInv ==
    \A p \in Server, k \in Lane : results[p][k][1] =
        {j \in 0 .. size - 1 : j < i[p] /\ LaneOf(j) = k /\ Counted(p, j)}
AnswersInv ==
    \A p \in Server : pc[p] = "returned" =>
        answer[p] = {j \in 0 .. size - 1 : Counted(p, j)}

\* The two indexings differ in the bit of the record that the client asks for.
IndexingsInv ==
    \A j \in 0 .. size - 1 : Selected(1, j) <=> (IF j = alpha THEN ~Selected(0, j) ELSE Selected(0, j))

IInv ==
    /\ size \in Nat \ {0} /\ alpha \in 0 .. size - 1
    /\ fn \in Sound \cup {"pir3", "idea_speed_comparison"}
    /\ indexing \in [Server -> [0 .. (size - 1) \div 8 -> Byte]]
    /\ pc \in [Server -> {"called", "aborted", "loop", "returned"}]
    /\ i \in [Server -> Nat]
    /\ results \in [Server -> Sums]
    /\ answer \in [Server -> SUBSET Int]
    /\ \A p \in Server : i[p] % 8 = 0 /\ (pc[p] = "loop" => size % 8 = 0)
    /\ SumsInv /\ AnswersInv /\ IndexingsInv

\* The value of a bit of a byte by its weight.
LEMMA BitValues ==
    ASSUME NEW x \in Int
    PROVE  /\ Bit(x, 0) = x % 2 /\ Bit(x, 1) = (x \div 2) % 2
           /\ Bit(x, 2) = (x \div 4) % 2 /\ Bit(x, 3) = (x \div 8) % 2
           /\ Bit(x, 4) = (x \div 16) % 2 /\ Bit(x, 5) = (x \div 32) % 2
           /\ Bit(x, 6) = (x \div 64) % 2 /\ Bit(x, 7) = (x \div 128) % 2
<1>1. x \div 1 = x
  OBVIOUS
<1> QED  BY <1>1, PowersOfTwo DEF Bit

\* A byte is the sum of its bits,
LEMMA ByteIsSum ==
    ASSUME NEW v \in 0 .. 255
    PROVE  v = (v % 2) + 2 * ((v \div 2) % 2) + 4 * ((v \div 4) % 2) + 8 * ((v \div 8) % 2)
               + 16 * ((v \div 16) % 2) + 32 * ((v \div 32) % 2) + 64 * ((v \div 64) % 2)
               + 128 * ((v \div 128) % 2)
OBVIOUS

\* and any eight bits are the bits of their sum.
LEMMA BitsOfSum ==
    ASSUME NEW a0 \in {0, 1}, NEW a1 \in {0, 1}, NEW a2 \in {0, 1}, NEW a3 \in {0, 1},
           NEW a4 \in {0, 1}, NEW a5 \in {0, 1}, NEW a6 \in {0, 1}, NEW a7 \in {0, 1},
           NEW s \in Int,
           s = a0 + 2 * a1 + 4 * a2 + 8 * a3 + 16 * a4 + 32 * a5 + 64 * a6 + 128 * a7
    PROVE  /\ s \in Byte
           /\ Bit(s, 0) = a0 /\ Bit(s, 1) = a1 /\ Bit(s, 2) = a2 /\ Bit(s, 3) = a3
           /\ Bit(s, 4) = a4 /\ Bit(s, 5) = a5 /\ Bit(s, 6) = a6 /\ Bit(s, 7) = a7
<1>1. /\ s \in 0 .. 255
      /\ s % 2 = a0 /\ (s \div 2) % 2 = a1 /\ (s \div 4) % 2 = a2
      /\ (s \div 8) % 2 = a3 /\ (s \div 16) % 2 = a4 /\ (s \div 32) % 2 = a5
      /\ (s \div 64) % 2 = a6 /\ (s \div 128) % 2 = a7
  BY SMTT(30)
<1>2. /\ Bit(s, 0) = s % 2 /\ Bit(s, 1) = (s \div 2) % 2
      /\ Bit(s, 2) = (s \div 4) % 2 /\ Bit(s, 3) = (s \div 8) % 2
      /\ Bit(s, 4) = (s \div 16) % 2 /\ Bit(s, 5) = (s \div 32) % 2
      /\ Bit(s, 6) = (s \div 64) % 2 /\ Bit(s, 7) = (s \div 128) % 2
  BY BitValues
<1> QED  BY <1>1, <1>2 DEF Byte

\* Flipping a bit of a byte gives a byte in which that bit, and no other, is different.
LEMMA FlipsOneBit ==
    ASSUME NEW v \in Byte, NEW k \in Lane
    PROVE  /\ Flipped(v, k) \in Byte
           /\ \A m \in Lane :
                 (Bit(Flipped(v, k), m) = 1) <=> (IF m = k THEN Bit(v, m) # 1 ELSE Bit(v, m) = 1)
<1>1. v \in 0 .. 255 /\ v \in Int
  BY DEF Byte
<1>2. PICK b0 \in {0, 1}, b1 \in {0, 1}, b2 \in {0, 1}, b3 \in {0, 1}, b4 \in {0, 1}, b5 \in {0, 1}, b6 \in {0, 1}, b7 \in {0, 1} :
        /\ v = b0 + 2 * b1 + 4 * b2 + 8 * b3 + 16 * b4 + 32 * b5 + 64 * b6 + 128 * b7
        /\ Bit(v, 0) = b0 /\ Bit(v, 1) = b1 /\ Bit(v, 2) = b2 /\ Bit(v, 3) = b3
        /\ Bit(v, 4) = b4 /\ Bit(v, 5) = b5 /\ Bit(v, 6) = b6 /\ Bit(v, 7) = b7
  <2>1. \A x \in Int : x % 2 \in {0, 1}
    OBVIOUS
  <2>2. /\ v \div 2 \in Int /\ v \div 4 \in Int /\ v \div 8 \in Int /\ v \div 16 \in Int
        /\ v \div 32 \in Int /\ v \div 64 \in Int /\ v \div 128 \in Int
    BY <1>1
  <2>3. /\ Bit(v, 0) = v % 2 /\ Bit(v, 1) = (v \div 2) % 2
        /\ Bit(v, 2) = (v \div 4) % 2 /\ Bit(v, 3) = (v \div 8) % 2
        /\ Bit(v, 4) = (v \div 16) % 2 /\ Bit(v, 5) = (v \div 32) % 2
        /\ Bit(v, 6) = (v \div 64) % 2 /\ Bit(v, 7) = (v \div 128) % 2
    BY <1>1, BitValues
  <2>4. /\ Bit(v, 0) \in {0, 1} /\ Bit(v, 1) \in {0, 1} /\ Bit(v, 2) \in {0, 1}
        /\ Bit(v, 3) \in {0, 1} /\ Bit(v, 4) \in {0, 1} /\ Bit(v, 5) \in {0, 1}
        /\ Bit(v, 6) \in {0, 1} /\ Bit(v, 7) \in {0, 1}
    BY <1>1, <2>1, <2>2, <2>3
  <2>5. v = Bit(v, 0) + 2 * Bit(v, 1) + 4 * Bit(v, 2) + 8 * Bit(v, 3) + 16 * Bit(v, 4)
            + 32 * Bit(v, 5) + 64 * Bit(v, 6) + 128 * Bit(v, 7)
    BY <1>1, <2>3, ByteIsSum
  <2> QED  BY <2>4, <2>5
<1>4. CASE k = 0
  <2>1. PICK a \in {0, 1} : a = 1 - b0
    OBVIOUS
  <2>2. PICK s \in Int : s = Flipped(v, k)
    BY <1>1, <1>4, PowersOfTwo DEF Flipped
  <2>3. s = a + 2 * b1 + 4 * b2 + 8 * b3 + 16 * b4 + 32 * b5 + 64 * b6 + 128 * b7
    BY <1>2, <1>4, <2>1, <2>2, PowersOfTwo DEF Flipped
  <2>4. /\ s \in Byte /\ Bit(s, 0) = a
        /\ Bit(s, 1) = b1 /\ Bit(s, 2) = b2 /\ Bit(s, 3) = b3 /\ Bit(s, 4) = b4 /\ Bit(s, 5) = b5 /\ Bit(s, 6) = b6 /\ Bit(s, 7) = b7
    BY BitsOfSum, <2>3
  <2> QED  BY <1>2, <1>4, <2>1, <2>2, <2>4 DEF Lane
<1>5. CASE k = 1
  <2>1. PICK a \in {0, 1} : a = 1 - b1
    OBVIOUS
  <2>2. PICK s \in Int : s = Flipped(v, k)
    BY <1>1, <1>5, PowersOfTwo DEF Flipped
  <2>3. s = b0 + 2 * a + 4 * b2 + 8 * b3 + 16 * b4 + 32 * b5 + 64 * b6 + 128 * b7
    BY <1>2, <1>5, <2>1, <2>2, PowersOfTwo DEF Flipped
  <2>4. /\ s \in Byte /\ Bit(s, 1) = a
        /\ Bit(s, 0) = b0 /\ Bit(s, 2) = b2 /\ Bit(s, 3) = b3 /\ Bit(s, 4) = b4 /\ Bit(s, 5) = b5 /\ Bit(s, 6) = b6 /\ Bit(s, 7) = b7
    BY BitsOfSum, <2>3
  <2> QED  BY <1>2, <1>5, <2>1, <2>2, <2>4 DEF Lane
<1>6. CASE k = 2
  <2>1. PICK a \in {0, 1} : a = 1 - b2
    OBVIOUS
  <2>2. PICK s \in Int : s = Flipped(v, k)
    BY <1>1, <1>6, PowersOfTwo DEF Flipped
  <2>3. s = b0 + 2 * b1 + 4 * a + 8 * b3 + 16 * b4 + 32 * b5 + 64 * b6 + 128 * b7
    BY <1>2, <1>6, <2>1, <2>2, PowersOfTwo DEF Flipped
  <2>4. /\ s \in Byte /\ Bit(s, 2) = a
        /\ Bit(s, 0) = b0 /\ Bit(s, 1) = b1 /\ Bit(s, 3) = b3 /\ Bit(s, 4) = b4 /\ Bit(s, 5) = b5 /\ Bit(s, 6) = b6 /\ Bit(s, 7) = b7
    BY BitsOfSum, <2>3
  <2> QED  BY <1>2, <1>6, <2>1, <2>2, <2>4 DEF Lane
<1>7. CASE k = 3
  <2>1. PICK a \in {0, 1} : a = 1 - b3
    OBVIOUS
  <2>2. PICK s \in Int : s = Flipped(v, k)
    BY <1>1, <1>7, PowersOfTwo DEF Flipped
  <2>3. s = b0 + 2 * b1 + 4 * b2 + 8 * a + 16 * b4 + 32 * b5 + 64 * b6 + 128 * b7
    BY <1>2, <1>7, <2>1, <2>2, PowersOfTwo DEF Flipped
  <2>4. /\ s \in Byte /\ Bit(s, 3) = a
        /\ Bit(s, 0) = b0 /\ Bit(s, 1) = b1 /\ Bit(s, 2) = b2 /\ Bit(s, 4) = b4 /\ Bit(s, 5) = b5 /\ Bit(s, 6) = b6 /\ Bit(s, 7) = b7
    BY BitsOfSum, <2>3
  <2> QED  BY <1>2, <1>7, <2>1, <2>2, <2>4 DEF Lane
<1>8. CASE k = 4
  <2>1. PICK a \in {0, 1} : a = 1 - b4
    OBVIOUS
  <2>2. PICK s \in Int : s = Flipped(v, k)
    BY <1>1, <1>8, PowersOfTwo DEF Flipped
  <2>3. s = b0 + 2 * b1 + 4 * b2 + 8 * b3 + 16 * a + 32 * b5 + 64 * b6 + 128 * b7
    BY <1>2, <1>8, <2>1, <2>2, PowersOfTwo DEF Flipped
  <2>4. /\ s \in Byte /\ Bit(s, 4) = a
        /\ Bit(s, 0) = b0 /\ Bit(s, 1) = b1 /\ Bit(s, 2) = b2 /\ Bit(s, 3) = b3 /\ Bit(s, 5) = b5 /\ Bit(s, 6) = b6 /\ Bit(s, 7) = b7
    BY BitsOfSum, <2>3
  <2> QED  BY <1>2, <1>8, <2>1, <2>2, <2>4 DEF Lane
<1>9. CASE k = 5
  <2>1. PICK a \in {0, 1} : a = 1 - b5
    OBVIOUS
  <2>2. PICK s \in Int : s = Flipped(v, k)
    BY <1>1, <1>9, PowersOfTwo DEF Flipped
  <2>3. s = b0 + 2 * b1 + 4 * b2 + 8 * b3 + 16 * b4 + 32 * a + 64 * b6 + 128 * b7
    BY <1>2, <1>9, <2>1, <2>2, PowersOfTwo DEF Flipped
  <2>4. /\ s \in Byte /\ Bit(s, 5) = a
        /\ Bit(s, 0) = b0 /\ Bit(s, 1) = b1 /\ Bit(s, 2) = b2 /\ Bit(s, 3) = b3 /\ Bit(s, 4) = b4 /\ Bit(s, 6) = b6 /\ Bit(s, 7) = b7
    BY BitsOfSum, <2>3
  <2> QED  BY <1>2, <1>9, <2>1, <2>2, <2>4 DEF Lane
<1>10. CASE k = 6
  <2>1. PICK a \in {0, 1} : a = 1 - b6
    OBVIOUS
  <2>2. PICK s \in Int : s = Flipped(v, k)
    BY <1>1, <1>10, PowersOfTwo DEF Flipped
  <2>3. s = b0 + 2 * b1 + 4 * b2 + 8 * b3 + 16 * b4 + 32 * b5 + 64 * a + 128 * b7
    BY <1>2, <1>10, <2>1, <2>2, PowersOfTwo DEF Flipped
  <2>4. /\ s \in Byte /\ Bit(s, 6) = a
        /\ Bit(s, 0) = b0 /\ Bit(s, 1) = b1 /\ Bit(s, 2) = b2 /\ Bit(s, 3) = b3 /\ Bit(s, 4) = b4 /\ Bit(s, 5) = b5 /\ Bit(s, 7) = b7
    BY BitsOfSum, <2>3
  <2> QED  BY <1>2, <1>10, <2>1, <2>2, <2>4 DEF Lane
<1>11. CASE k = 7
  <2>1. PICK a \in {0, 1} : a = 1 - b7
    OBVIOUS
  <2>2. PICK s \in Int : s = Flipped(v, k)
    BY <1>1, <1>11, PowersOfTwo DEF Flipped
  <2>3. s = b0 + 2 * b1 + 4 * b2 + 8 * b3 + 16 * b4 + 32 * b5 + 64 * b6 + 128 * a
    BY <1>2, <1>11, <2>1, <2>2, PowersOfTwo DEF Flipped
  <2>4. /\ s \in Byte /\ Bit(s, 7) = a
        /\ Bit(s, 0) = b0 /\ Bit(s, 1) = b1 /\ Bit(s, 2) = b2 /\ Bit(s, 3) = b3 /\ Bit(s, 4) = b4 /\ Bit(s, 5) = b5 /\ Bit(s, 6) = b6
    BY BitsOfSum, <2>3
  <2> QED  BY <1>2, <1>11, <2>1, <2>2, <2>4 DEF Lane
<1> QED  BY <1>4, <1>5, <1>6, <1>7, <1>8, <1>9, <1>10, <1>11 DEF Lane

LEMMA AddType ==
    ASSUME NEW r \in Sums, NEW k \in Lane, NEW x \in SUBSET Int
    PROVE  Add(r, k, x) \in [{0, 1} -> SUBSET Int] /\ Add(r, k, x)[1] = r[k][1] ## x
<1>1. r[k] \in [{0, 1} -> SUBSET Int] /\ r[k][1] \in SUBSET Int
  BY DEF Sums
<1>2. r[k][1] ## x \in SUBSET Int
  BY <1>1 DEF ##
<1> QED BY <1>1, <1>2 DEF Add

\* Whatever a version does with a byte, the accumulator k gets record at + k if the
\* bit k is set.
LEMMA SoundStepAdds ==
    ASSUME fn \in Sound, NEW r \in Sums, NEW v \in Byte, NEW at \in Int
    PROVE  /\ Step(r, v, at) \in Sums
           /\ \A k \in Lane : Step(r, v, at)[k][1] =
                  r[k][1] ## (IF Bit(v, k) = 1 THEN {at + k} ELSE {})
<1> DEFINE x(k) == IF Bit(v, k) = 1 THEN {at + k} ELSE {}
<1>1. \A k \in Lane : x(k) \in SUBSET Int
  BY DEF Lane
<1>2. \A k \in Lane : (k \in Switch(v) <=> Bit(v, k) = 1) /\ (k \in Masks(v) <=> Bit(v, k) = 1)
  BY TablesAreRight
<1>3. CASE fn = "pir1"
  <2>1. Step(r, v, at) = [k \in Lane |-> [r[k] EXCEPT ![Bit(v, k)] = r[k][1] ## {at + k}]]
    BY <1>3 DEF Step, Pir1
  <2>2. ASSUME NEW k \in Lane
        PROVE  /\ [r[k] EXCEPT ![Bit(v, k)] = r[k][1] ## {at + k}] \in [{0, 1} -> SUBSET Int]
               /\ [r[k] EXCEPT ![Bit(v, k)] = r[k][1] ## {at + k}][1] = r[k][1] ## x(k)
    <3> DEFINE b == Bit(v, k)
               y == r[k][1] ## {at + k}
               g == [r[k] EXCEPT ![b] = y]
    <3>1. r[k] \in [{0, 1} -> SUBSET Int] /\ r[k][1] \in SUBSET Int
      BY DEF Sums
    <3>2. y \in SUBSET Int /\ r[k][1] ## {} = r[k][1]
      BY <3>1 DEF ##, Lane
    <3>3. x(k) = IF b = 1 THEN {at + k} ELSE {}
      OBVIOUS
    <3> HIDE DEF y, b, x
    <3>4. g \in [{0, 1} -> SUBSET Int]
      BY <3>1, <3>2
    <3>5. g[1] = IF b = 1 THEN y ELSE r[k][1]
      BY <3>1
    <3> QED BY <3>2, <3>3, <3>4, <3>5 DEF y, b
  <2> DEFINE g(k) == [r[k] EXCEPT ![Bit(v, k)] = r[k][1] ## {at + k}]
  <2>3. /\ \A k \in Lane : g(k) \in [{0, 1} -> SUBSET Int] /\ g(k)[1] = r[k][1] ## x(k)
        /\ Step(r, v, at) = [k \in Lane |-> g(k)]
    BY <2>1, <2>2
  <2> HIDE DEF g, x
  <2> QED BY <2>3 DEF x, Sums
<1>4. CASE fn = "pir2"
  <2>1. Step(r, v, at) = [k \in Lane |-> Add(r, k, x(k))]
    BY <1>4 DEF Step, Pir2
  <2> HIDE DEF x
  <2>2. \A k \in Lane : Add(r, k, x(k)) \in [{0, 1} -> SUBSET Int]
                        /\ Add(r, k, x(k))[1] = r[k][1] ## x(k)
    BY <1>1, AddType
  <2> QED BY ZenonT(60), <2>1, <2>2 DEF x, Sums
<1>5. CASE fn = "pir4"
  <2>1. Step(r, v, at) = [k \in Lane |-> Add(r, k, IF k \in Switch(v) THEN {at + k} ELSE {})]
    BY <1>5 DEF Step, Pir4
  <2>2. \A k \in Lane : (IF k \in Switch(v) THEN {at + k} ELSE {}) = x(k)
    BY <1>2
  <2>3. Step(r, v, at) = [k \in Lane |-> Add(r, k, x(k))]
    BY <2>1, <2>2
  <2> HIDE DEF x
  <2>4. \A k \in Lane : Add(r, k, x(k)) \in [{0, 1} -> SUBSET Int]
                        /\ Add(r, k, x(k))[1] = r[k][1] ## x(k)
    BY <1>1, AddType
  <2> QED BY ZenonT(60), <2>3, <2>4 DEF x, Sums
<1>6. CASE fn = "pir5"
  <2>1. Step(r, v, at) = [k \in Lane |-> Add(r, k, IF k \in Masks(v) THEN {at + k} ELSE {})]
    BY <1>6 DEF Step, Pir5
  <2>2. \A k \in Lane : (IF k \in Masks(v) THEN {at + k} ELSE {}) = x(k)
    BY <1>2
  <2>3. Step(r, v, at) = [k \in Lane |-> Add(r, k, x(k))]
    BY <2>1, <2>2
  <2> HIDE DEF x
  <2>4. \A k \in Lane : Add(r, k, x(k)) \in [{0, 1} -> SUBSET Int]
                        /\ Add(r, k, x(k))[1] = r[k][1] ## x(k)
    BY <1>1, AddType
  <2> QED BY ZenonT(60), <2>3, <2>4 DEF x, Sums
<1> QED BY <1>3, <1>4, <1>5, <1>6 DEF Sound

\* What the version adds to accumulator k for a byte: at most one record of the eight.
Takes(v, k) ==
    \/ fn \in Sound /\ Bit(v, k) = 1
    \/ fn = "pir3" /\ k = 0 /\ Bit(v, 7) = 1
    \/ fn = "idea_speed_comparison"
Elem(k) == IF fn = "pir3" THEN 7 - k ELSE k

LEMMA StepAdds ==
    ASSUME fn \in Sound \cup {"pir3", "idea_speed_comparison"},
           NEW r \in Sums, NEW v \in Byte, NEW at \in Int
    PROVE  /\ Step(r, v, at) \in Sums
           /\ \A k \in Lane : Step(r, v, at)[k][1] =
                  r[k][1] ## (IF Takes(v, k) THEN {at + Elem(k)} ELSE {})
<1> DEFINE x(k) == IF Takes(v, k) THEN {at + Elem(k)} ELSE {}
<1>1. CASE fn \in Sound
  <2>1. \A k : x(k) = IF Bit(v, k) = 1 THEN {at + k} ELSE {}
    BY <1>1 DEF Takes, Elem, Sound
  <2> HIDE DEF x
  <2>2. /\ Step(r, v, at) \in Sums
        /\ \A k \in Lane : Step(r, v, at)[k][1] =
                  r[k][1] ## (IF Bit(v, k) = 1 THEN {at + k} ELSE {})
    BY <1>1, SoundStepAdds
  <2>3. \A k \in Lane : Step(r, v, at)[k][1] = r[k][1] ## x(k)
    BY <2>1, <2>2
  <2> QED  BY <2>2, <2>3 DEF x
<1>2. CASE fn \notin Sound
  <2>1. \A k \in Lane : x(k) \in SUBSET Int
    BY DEF Lane, Elem
  <2>2. Step(r, v, at) = [k \in Lane |-> Add(r, k, x(k))]
    <3>1. CASE fn = "pir3"
      <4>1. \A k \in Lane : (IF MaskAfterShifts(v, k) = 1 THEN {at + 7 - k} ELSE {}) = x(k)
        <5> TAKE k \in Lane
        <5>1. MaskAfterShifts(v, k) = IF k = 0 THEN Bit(v, 7) ELSE 0
          BY DEF MaskAfterShifts, Lane
        <5>2. at + 7 - k = at + Elem(k)
          BY <3>1 DEF Lane, Elem
        <5>3. Takes(v, k) <=> (k = 0 /\ Bit(v, 7) = 1)
          BY <3>1 DEF Takes, Sound
        <5> QED  BY <5>1, <5>2, <5>3
      <4>2. Step(r, v, at) = [k \in Lane |->
                Add(r, k, IF MaskAfterShifts(v, k) = 1 THEN {at + 7 - k} ELSE {})]
        BY <3>1 DEF Step, Pir3
      <4> HIDE DEF x
      <4> QED  BY <4>1, <4>2
    <3>2. CASE fn = "idea_speed_comparison"
      <4>1. Step(r, v, at) = [k \in Lane |-> Add(r, k, {at + k})]
        BY <3>2 DEF Step, IdeaSpeedComparison
      <4>2. \A k \in Lane : {at + k} = x(k)
        BY <3>2 DEF Takes, Elem
      <4> HIDE DEF x
      <4> QED  BY <4>1, <4>2
    <3> QED  BY <1>2, <3>1, <3>2
  <2> HIDE DEF x
  <2>3. \A k \in Lane : /\ Add(r, k, x(k)) \in [{0, 1} -> SUBSET Int]
                        /\ Add(r, k, x(k))[1] = r[k][1] ## x(k)
    BY <2>1, AddType
  <2> QED  BY ZenonT(60), <2>2, <2>3 DEF x, Sums
<1> QED  BY <1>1, <1>2

\* Sets of different lanes: their exclusive or is their union.
OfLane(S, lane, k) == {j \in S : lane[j] = k}

LEMMA FoldIsUnion ==
    ASSUME NEW r, NEW S, NEW lane \in [S -> 0 .. 7],
           \A k \in Lane : r[k][1] = OfLane(S, lane, k)
    PROVE  Fold(r) = S
<1>1. \A j \in S : lane[j] \in 0 .. 7
  OBVIOUS
<1>2. /\ r[0][1] = {j \in S : lane[j] = 0} /\ r[1][1] = {j \in S : lane[j] = 1}
      /\ r[2][1] = {j \in S : lane[j] = 2} /\ r[3][1] = {j \in S : lane[j] = 3}
      /\ r[4][1] = {j \in S : lane[j] = 4} /\ r[5][1] = {j \in S : lane[j] = 5}
      /\ r[6][1] = {j \in S : lane[j] = 6} /\ r[7][1] = {j \in S : lane[j] = 7}
  BY DEF Lane, OfLane
<1>3. r[0][1] ## r[1][1] = {j \in S : lane[j] \in 0 .. 1}
  BY <1>2 DEF ##
<1>4. (r[0][1] ## r[1][1]) ## r[2][1] = {j \in S : lane[j] \in 0 .. 2}
  BY <1>2, <1>3 DEF ##
<1>5. ((r[0][1] ## r[1][1]) ## r[2][1]) ## r[3][1] = {j \in S : lane[j] \in 0 .. 3}
  BY <1>2, <1>4 DEF ##
<1>6. (((r[0][1] ## r[1][1]) ## r[2][1]) ## r[3][1]) ## r[4][1] = {j \in S : lane[j] \in 0 .. 4}
  BY <1>2, <1>5 DEF ##
<1>7. ((((r[0][1] ## r[1][1]) ## r[2][1]) ## r[3][1]) ## r[4][1]) ## r[5][1]
          = {j \in S : lane[j] \in 0 .. 5}
  BY <1>2, <1>6 DEF ##
<1>8. (((((r[0][1] ## r[1][1]) ## r[2][1]) ## r[3][1]) ## r[4][1]) ## r[5][1]) ## r[6][1]
          = {j \in S : lane[j] \in 0 .. 6}
  BY <1>2, <1>7 DEF ##
<1>9. Fold(r) = {j \in S : lane[j] \in 0 .. 7}
  <2> DEFINE u == (((((r[0][1] ## r[1][1]) ## r[2][1]) ## r[3][1]) ## r[4][1]) ## r[5][1]) ## r[6][1]
  <2>1. Fold(r) = u ## r[7][1]
    BY DEF Fold
  <2>2. u = {j \in S : lane[j] \in 0 .. 6} /\ r[7][1] = {j \in S : lane[j] = 7}
    BY <1>2, <1>8
  <2> HIDE DEF u
  <2>3. u ## r[7][1] = {j \in S : lane[j] \in 0 .. 7}
    BY <2>2 DEF ##
  <2> QED BY <2>1, <2>3
<1> QED BY <1>1, <1>9

-----------------------------------------------------------------------------

\* What the client generates differs in the bit of its record only.
LEMMA InitIndexings == Init => IndexingsInv
<1> SUFFICES ASSUME Init, NEW j \in 0 .. size - 1
             PROVE  Selected(1, j) <=> (IF j = alpha THEN ~Selected(0, j) ELSE Selected(0, j))
  BY DEF IndexingsInv
<1>1. size \in Nat \ {0} /\ alpha \in 0 .. size - 1 /\ alpha \in Int /\ j \in Int
  BY StoreAssumption DEF Init
<1>2. PICK x \in Indexings :
          /\ DOMAIN x = 0 .. (size - 1) \div 8
          /\ indexing = [p \in Server |-> IF p = 0 THEN x
                            ELSE [x EXCEPT ![alpha \div 8] = Flipped(x[alpha \div 8], alpha % 8)]]
  BY DEF Init
<1> DEFINE k == alpha % 8  v == x[alpha \div 8]
<1>3. \A y \in 0 .. size - 1 : y \div 8 \in 0 .. (size - 1) \div 8 /\ y % 8 \in Lane
  BY <1>1 DEF Lane
<1>4. alpha \div 8 \in DOMAIN x /\ j \div 8 \in DOMAIN x /\ k \in Lane /\ j % 8 \in Lane
  BY <1>1, <1>2, <1>3
<1>5. v \in Byte
  BY <1>2, <1>4, StoreAssumption
<1>6. indexing[0] = x /\ indexing[1] = [x EXCEPT ![alpha \div 8] = Flipped(v, k)]
  BY <1>2 DEF Server
<1>7. \A m \in Lane : (Bit(Flipped(v, k), m) = 1) <=> (IF m = k THEN Bit(v, m) # 1 ELSE Bit(v, m) = 1)
  <2> HIDE DEF v, k
  <2> QED  BY <1>4, <1>5, FlipsOneBit
<1>8. Selected(0, j) <=> Bit(x[j \div 8], j % 8) = 1
  BY <1>6 DEF Selected
<1>9. CASE j \div 8 = alpha \div 8
  <2>1. indexing[1][j \div 8] = Flipped(v, k) /\ x[j \div 8] = v
    BY <1>4, <1>6, <1>9
  <2>2. Selected(1, j) <=> (IF j % 8 = k THEN Bit(v, j % 8) # 1 ELSE Bit(v, j % 8) = 1)
    BY <1>4, <1>7, <2>1 DEF Selected
  <2>3. j % 8 = k <=> j = alpha
    BY <1>1, <1>9, DivMod
  <2> QED  BY <1>8, <2>1, <2>2, <2>3
<1>10. CASE j \div 8 # alpha \div 8
  <2>1. indexing[1][j \div 8] = x[j \div 8]
    BY <1>4, <1>6, <1>10
  <2> QED  BY <1>8, <1>10, <2>1 DEF Selected
<1> QED  BY <1>9, <1>10

LEMMA InitIInv == Init => IInv
<1> SUFFICES ASSUME Init PROVE IInv
  OBVIOUS
<1>1. /\ size \in Nat \ {0} /\ alpha \in 0 .. size - 1
      /\ fn \in Sound \cup {"pir3", "idea_speed_comparison"}
  BY StoreAssumption DEF Init, Sound
<1>2. PICK x \in Indexings :
          DOMAIN x = 0 .. (size - 1) \div 8 /\ indexing \in [Server -> [DOMAIN x -> Byte]]
  BY DEF Init
<1>3. /\ pc = [p \in Server |-> "called"] /\ i = [p \in Server |-> 0]
      /\ results = [p \in Server |-> [k \in Lane |-> [b \in {0, 1} |-> {}]]]
      /\ answer = [p \in Server |-> {}]
  BY DEF Init
<1>4. results \in [Server -> Sums]
  BY <1>3 DEF Sums
<1>5. SumsInv
  <2> SUFFICES ASSUME NEW p \in Server, NEW k \in Lane
               PROVE  results[p][k][1] =
                          {j \in 0 .. size - 1 : j < i[p] /\ LaneOf(j) = k /\ Counted(p, j)}
    BY DEF SumsInv
  <2>1. results[p][k][1] = {} /\ i[p] = 0
    BY <1>3
  <2> QED  BY <1>1, <2>1
<1>6. AnswersInv
  BY <1>3 DEF AnswersInv
<1>7. /\ pc \in [Server -> {"called", "aborted", "loop", "returned"}]
      /\ i \in [Server -> Nat] /\ answer \in [Server -> SUBSET Int]
      /\ \A p \in Server : i[p] = 0 /\ pc[p] # "loop"
  BY <1>3
<1>8. 0 % 8 = 0
  OBVIOUS
<1> QED  BY <1>1, <1>2, <1>4, <1>5, <1>6, <1>7, <1>8, InitIndexings DEF IInv

LEMMA IterateIInv ==
    ASSUME IInv, NEW p \in Server, Iterate(p)
    PROVE  IInv'
<1> DEFINE at == i[p]
           v  == indexing[p][at \div 8]
<1>1. /\ pc[p] = "loop" /\ at < size
      /\ results' = [results EXCEPT ![p] = Step(results[p], v, at)]
      /\ i' = [i EXCEPT ![p] = at + 8]
      /\ UNCHANGED <<size, alpha, fn, indexing, pc, answer>>
  BY DEF Iterate
<1>2. /\ size \in Nat \ {0} /\ at \in Nat /\ at % 8 = 0 /\ size % 8 = 0
      /\ indexing[p] \in [0 .. (size - 1) \div 8 -> Byte] /\ results[p] \in Sums
  BY <1>1 DEF IInv
<1> DEFINE q8 == at \div 8
           n8 == size \div 8
<1>0. at = 8 * q8 /\ size = 8 * n8 /\ q8 \in Nat /\ n8 \in Nat /\ q8 < n8
  <2>1. at = 8 * q8 + (at % 8) /\ size = 8 * n8 + (size % 8) /\ q8 \in Int /\ n8 \in Int
    <3>1. at \in Int /\ size \in Int
      BY <1>2
    <3> HIDE DEF at
    <3>2. at = 8 * (at \div 8) + (at % 8) /\ at \div 8 \in Int
      BY <3>1, DivMod
    <3>3. size = 8 * (size \div 8) + (size % 8) /\ size \div 8 \in Int
      BY <3>1, DivMod
    <3> QED BY <3>2, <3>3
  <2>2. at \in Nat /\ size \in Nat /\ at % 8 = 0 /\ size % 8 = 0 /\ at < size
    BY <1>1, <1>2
  <2> HIDE DEF at, q8, n8
  <2> QED BY <2>1, <2>2
<1>3. at \div 8 \in 0 .. (size - 1) \div 8 /\ at + 8 <= size /\ (at + 8) % 8 = 0
  <2> HIDE DEF at, q8, n8
  <2>1. (size - 1) \div 8 = n8 - 1
    BY <1>0, DivModOf, size - 1 = 8 * (n8 - 1) + 7
  <2>2. (8 * (q8 + 1) + 0) % 8 = 0 /\ at + 8 = 8 * (q8 + 1) + 0
    BY <1>0, DivModOf
  <2> QED BY <1>0, <2>1, <2>2 DEF q8
<1>4. v \in Byte
  BY <1>2, <1>3
<1>5. /\ Step(results[p], v, at) \in Sums
      /\ \A k \in Lane : Step(results[p], v, at)[k][1] =
             results[p][k][1] ## (IF Takes(v, k) THEN {at + Elem(k)} ELSE {})
  <2>1. at \in Int /\ fn \in Sound \cup {"pir3", "idea_speed_comparison"}
    BY <1>2 DEF IInv
  <2> HIDE DEF v, at
  <2> QED BY <1>2, <1>4, <2>1, StepAdds, Zenon
<1>6. results' \in [Server -> Sums] /\ i' \in [Server -> Nat]
  BY <1>1, <1>2, <1>5 DEF IInv
<1>7. \A q \in Server : i'[q] % 8 = 0
  BY <1>1, <1>2, <1>3 DEF IInv
<1>8. SumsInv'
  <2> SUFFICES ASSUME NEW q \in Server, NEW k \in Lane
               PROVE  results'[q][k][1] =
                          {j \in 0 .. size - 1 : j < i'[q] /\ LaneOf(j) = k /\ Counted(q, j)}
    BY <1>1 DEF SumsInv, LaneOf, Counted, Selected
  <2>1. results[q][k][1] = {j \in 0 .. size - 1 : j < i[q] /\ LaneOf(j) = k /\ Counted(q, j)}
    BY DEF IInv, SumsInv
  <2>2. CASE q # p
    BY <2>1, <2>2, <1>1 DEF IInv
  <2>3. CASE q = p
    <3> DEFINE e == Elem(k)
    <3>1. i'[p] = at + 8
      BY <1>1 DEF IInv
    <3>2. results'[p][k][1] = results[p][k][1] ## (IF Takes(v, k) THEN {at + e} ELSE {})
      BY <1>1, <1>5 DEF IInv
    <3>3. e \in 0 .. 7 /\ k \in 0 .. 7
      BY DEF Lane, Elem
    <3>4. /\ at + e \in 0 .. size - 1 /\ ~(at + e < at) /\ (at + e) % 8 = e
          /\ (at + e) \div 8 = at \div 8
      <4> HIDE DEF at, q8, e
      <4>1. (at + e) % 8 = e /\ (at + e) \div 8 = q8
        BY <1>0, <3>3, DivModOf
      <4>2. at + e \in 0 .. size - 1 /\ ~(at + e < at)
        BY <1>0, <1>2, <1>3, <3>3
      <4>3. q8 = at \div 8
        BY DEF q8
      <4> QED BY <4>1, <4>2, <4>3, Zenon
    <3>5. LaneOf(at + e) = k
      BY <3>3, <3>4 DEF LaneOf, Elem
    <3>6. ASSUME NEW j \in 0 .. size - 1
          PROVE  (j < at + 8 /\ LaneOf(j) = k) <=> ((j < at /\ LaneOf(j) = k) \/ j = at + e)
      <4>1. (at <= j /\ j < at + 8) => j % 8 = j - at
        <5> HIDE DEF at, q8
        <5>1. j \in Int /\ q8 \in Int /\ at = 8 * q8
          BY <1>0, <1>2
        <5>2. (8 * q8 <= j /\ j < 8 * q8 + 8) => j % 8 = j - 8 * q8
          BY <5>1, DivModBetween
        <5> QED  BY <5>1, <5>2
      <4>2. (at <= j /\ j < at + 8) => (LaneOf(j) = k <=> j = at + e)
        <5> HIDE DEF at
        <5> QED  BY <1>2, <3>3, <4>1 DEF LaneOf, Elem, e
      <4> HIDE DEF at, e
      <4>3. at + e < at + 8 /\ at \in Nat /\ ~(at + e < at)
        BY <1>2, <3>3, <3>4
      <4> QED BY <3>3, <3>5, <4>2, <4>3
    <3>7. Counted(p, at + e) <=> Takes(v, k)
      <4>1. Selected(p, at + e) <=> Bit(v, e) = 1
        BY <3>4 DEF Selected
      <4>2. fn = "pir3" => (e = 7 <=> k = 0)
        BY <3>3 DEF Elem
      <4>3. fn \in Sound => e = k
        BY DEF Elem, Sound
      <4>4. (at + e) % 8 = e
        BY <3>4
      <4> HIDE DEF at, v, e
      <4> QED  BY <4>1, <4>2, <4>3, <4>4 DEF Counted, Takes, Sound
    <3> HIDE DEF v, at, e
    <3>8. (IF Takes(v, k) THEN {at + e} ELSE {}) = {j \in {at + e} : Counted(p, j)}
      BY <3>7
    <3>9. results[p][k][1] = {j \in 0 .. size - 1 : j < at /\ LaneOf(j) = k /\ Counted(p, j)}
      BY <2>1, <2>3 DEF at
    <3>10. ~(at + e \in results[p][k][1])
      BY <3>4, <3>9
    <3>11. results'[p][k][1] = results[p][k][1] \cup {j \in {at + e} : Counted(p, j)}
      BY <3>2, <3>8, <3>10 DEF ##
    <3>12. {j \in 0 .. size - 1 : j < at + 8 /\ LaneOf(j) = k /\ Counted(p, j)}
             = {j \in 0 .. size - 1 : j < at /\ LaneOf(j) = k /\ Counted(p, j)}
               \cup {j \in {at + e} : Counted(p, j)}
      BY <3>4, <3>6
    <3> QED BY <2>3, <3>1, <3>9, <3>11, <3>12
  <2> QED BY <2>2, <2>3
<1>9. AnswersInv' /\ IndexingsInv'
  BY <1>1 DEF IInv, AnswersInv, IndexingsInv, Counted, Selected
<1> QED BY <1>1, <1>6, <1>7, <1>8, <1>9 DEF IInv

LEMMA ReturnIInv ==
    ASSUME IInv, NEW p \in Server, Return(p)
    PROVE  IInv'
<1> DEFINE S == {j \in 0 .. size - 1 : Counted(p, j)}
           lane == [j \in S |-> LaneOf(j)]
<1>1. /\ pc[p] = "loop" /\ i[p] >= size
      /\ answer' = [answer EXCEPT ![p] = Fold(results[p])]
      /\ pc' = [pc EXCEPT ![p] = "returned"]
      /\ UNCHANGED <<size, alpha, fn, indexing, i, results>>
  BY DEF Return
<1>2. size \in Nat /\ i[p] \in Nat
  BY DEF IInv
<1>3. \A k \in Lane : results[p][k][1] = {j \in S : lane[j] = k}
  <2> TAKE k \in Lane
  <2>1. results[p][k][1] = {j \in 0 .. size - 1 : j < i[p] /\ LaneOf(j) = k /\ Counted(p, j)}
    BY DEF IInv, SumsInv
  <2>2. \A j \in 0 .. size - 1 : j < i[p]
    BY <1>1, <1>2
  <2> QED BY <2>1, <2>2
<1>4. S \in SUBSET Int /\ lane \in [S -> 0 .. 7]
  <2>1. \A j \in Int : LaneOf(j) \in 0 .. 7
    BY DEF LaneOf
  <2> QED  BY <2>1
<1>5. Fold(results[p]) = S
  <2> DEFINE r == results[p]
  <2>1. \A k \in Lane : r[k][1] = OfLane(S, lane, k)
    BY <1>3 DEF OfLane
  <2> HIDE DEF S, lane, r
  <2>2. Fold(r) = S
    BY <1>4, <2>1, FoldIsUnion
  <2> QED BY <2>2 DEF r
<1> HIDE DEF S, lane
<1>6. answer' \in [Server -> SUBSET Int] /\ answer'[p] = S /\ pc'[p] = "returned"
      /\ \A q \in Server : q # p => answer'[q] = answer[q] /\ pc'[q] = pc[q]
  BY <1>1, <1>4, <1>5 DEF IInv
<1>7. AnswersInv'
  BY <1>1, <1>6 DEF S, IInv, AnswersInv, Counted, Selected
<1>8. SumsInv' /\ IndexingsInv'
  BY <1>1 DEF IInv, SumsInv, IndexingsInv, LaneOf, Counted, Selected
<1>9. pc' \in [Server -> {"called", "aborted", "loop", "returned"}]
  BY <1>1 DEF IInv
<1> QED BY <1>1, <1>6, <1>7, <1>8, <1>9 DEF IInv

LEMMA AssertIInv ==
    ASSUME IInv, NEW p \in Server, AssertFails(p) \/ AssertHolds(p)
    PROVE  IInv'
<1>1. PICK c \in {"aborted", "loop"} : pc' = [pc EXCEPT ![p] = c] /\ (c = "loop" => size % 8 = 0)
  BY DEF AssertFails, AssertHolds
<1>2. UNCHANGED <<size, alpha, fn, indexing, i, results, answer>>
  BY DEF AssertFails, AssertHolds
<1>3. pc'[p] = c /\ pc' \in [Server -> {"called", "aborted", "loop", "returned"}]
      /\ \A q \in Server : q # p => pc'[q] = pc[q]
  BY <1>1 DEF IInv
<1>4. AnswersInv'
  BY <1>2, <1>3 DEF IInv, AnswersInv, Counted, Selected
<1>5. SumsInv' /\ IndexingsInv'
  BY <1>2 DEF IInv, SumsInv, IndexingsInv, LaneOf, Counted, Selected
<1> QED BY <1>1, <1>2, <1>3, <1>4, <1>5 DEF IInv

\* IInv holds whatever version the two servers run, however their calls interleave.
THEOREM StoreInvariant == Spec => []IInv
<1>1. Init => IInv
  BY InitIInv
<1>2. IInv /\ [Next]_vars => IInv'
  <2>1. CASE UNCHANGED vars
    BY <2>1 DEF vars, IInv, SumsInv, AnswersInv, IndexingsInv, LaneOf, Counted, Selected
  <2>2. CASE Next
    BY <2>2, IterateIInv, ReturnIInv, AssertIInv DEF Next
  <2> QED BY <2>1, <2>2
<1> QED BY <1>1, <1>2, PTL DEF Spec

\* The accumulators hold what the loop has passed, in every version of answer_pir but
\* the third and the speed comparison (hashdatastore.cpp:264-336, 380-3510).
THEOREM StorePartialSums == Spec => []PartialSums
<1>1. IInv => PartialSums
  <2> SUFFICES ASSUME IInv, fn \in Sound PROVE PartialSums
    BY DEF PartialSums
  <2>1. \A j : LaneOf(j) = j % 8
    BY DEF LaneOf, Sound
  <2>2. \A p, j : Counted(p, j) <=> Selected(p, j)
    BY DEF Counted, Sound
  <2> QED  BY <2>1, <2>2 DEF IInv, SumsInv, PartialSums
<1> QED BY StoreInvariant, <1>1, PTL

\* What these versions return is the exclusive or of the selected records, for every
\* number of records and every indexing.
THEOREM StoreAnswersTheSelection == Spec => []AnswersAreTheSelection
<1>1. IInv => AnswersAreTheSelection
  BY DEF IInv, AnswersInv, AnswersAreTheSelection, Counted, Sound
<1> QED BY StoreInvariant, <1>1, PTL

\* From two servers that run the same version the client gets its record, nothing from
\* the speed comparison, and from answer_pir3 its record only if that is the last of
\* its eight, for every number of records and every pair of indexings.
THEOREM StoreRecoversTheRecord == Spec => []RecordRecovered
<1>1. IInv => RecordRecovered
  <2> SUFFICES ASSUME IInv, \A p \in Server : pc[p] = "returned"
               PROVE  answer[0] ## answer[1] =
                          {j \in {alpha} : fn \in Sound \/ (fn = "pir3" /\ j % 8 = 7)}
    BY DEF RecordRecovered
  <2>1. /\ answer[0] = {j \in 0 .. size - 1 : Counted(0, j)}
        /\ answer[1] = {j \in 0 .. size - 1 : Counted(1, j)}
    BY DEF IInv, AnswersInv, Server
  <2>2. alpha \in 0 .. size - 1
    BY DEF IInv
  <2>3. \A j \in 0 .. size - 1 :
          Selected(1, j) <=> (IF j = alpha THEN ~Selected(0, j) ELSE Selected(0, j))
    BY DEF IInv, IndexingsInv
  <2>4. \A j \in 0 .. size - 1 : (Counted(0, j) <=> ~Counted(1, j)) <=>
          j = alpha /\ (fn \in Sound \/ (fn = "pir3" /\ j % 8 = 7))
    BY <2>3 DEF Counted, Sound
  <2> QED  BY <2>1, <2>2, <2>4 DEF ##
<1> QED BY StoreInvariant, <1>1, PTL

-----------------------------------------------------------------------------
(* The retrieval: bytes and bits                                            *)

LEMMA FunctionIsSeq ==
    ASSUME NEW S, NEW n \in Nat, NEW f \in [1 .. n -> S]
    PROVE  f \in Seq(S) /\ Len(f) = n
OBVIOUS

\* Every choice of bits is the bits of a byte.
LEMMA ByteFromBits ==
    ASSUME NEW S
    PROVE  \E v \in Byte : \A b \in Lane : Bit(v, b) = 1 <=> b \in S
<1> DEFINE a(b) == IF b \in S THEN 1 ELSE 0
<1>1. \A b : a(b) \in {0, 1} /\ (a(b) = 1 <=> b \in S)
  OBVIOUS
<1> HIDE DEF a
<1>2. PICK a0 \in {0, 1}, a1 \in {0, 1}, a2 \in {0, 1}, a3 \in {0, 1},
           a4 \in {0, 1}, a5 \in {0, 1}, a6 \in {0, 1}, a7 \in {0, 1} :
          /\ a0 = a(0) /\ a1 = a(1) /\ a2 = a(2) /\ a3 = a(3)
          /\ a4 = a(4) /\ a5 = a(5) /\ a6 = a(6) /\ a7 = a(7)
  BY <1>1
<1>3. PICK s \in Int : s = a0 + 2 * a1 + 4 * a2 + 8 * a3 + 16 * a4 + 32 * a5 + 64 * a6 + 128 * a7
  OBVIOUS
<1>4. /\ s \in Byte
      /\ Bit(s, 0) = a0 /\ Bit(s, 1) = a1 /\ Bit(s, 2) = a2 /\ Bit(s, 3) = a3
      /\ Bit(s, 4) = a4 /\ Bit(s, 5) = a5 /\ Bit(s, 6) = a6 /\ Bit(s, 7) = a7
  BY <1>3, BitsOfSum
<1>5. \A b \in Lane : Bit(s, b) = a(b)
  BY <1>2, <1>4 DEF Lane
<1> QED  BY <1>1, <1>4, <1>5

\* The bytes that a word of bits is stored as, and back.
LEMMA BytesKeepBits ==
    ASSUME NEW S \in SUBSET Offsets
    PROVE  BytesOf(S) \in [1 .. 16 -> Byte] /\ BitsOf(BytesOf(S)) = S
<1> DEFINE Right(v, j) == \A b \in Lane : Bit(v, b) = 1 <=> (8 * (j - 1)) + b \in S
<1>1. ASSUME NEW j \in 1 .. 16
      PROVE  BytesOf(S)[j] \in Byte /\ Right(BytesOf(S)[j], j)
  <2>1. PICK v \in Byte : \A b \in Lane : Bit(v, b) = 1 <=> b \in {c \in Lane : (8 * (j - 1)) + c \in S}
    BY ByteFromBits
  <2>2. Right(v, j)
    BY <2>1
  <2>3. BytesOf(S)[j] = CHOOSE u \in Byte : Right(u, j)
    BY DEF BytesOf
  <2> HIDE DEF Right
  <2> QED  BY <2>2, <2>3
<1>2. BytesOf(S) \in [1 .. 16 -> Byte]
  <2>1. BytesOf(S) = [j \in 1 .. 16 |-> BytesOf(S)[j]]
    BY DEF BytesOf
  <2> QED  BY <1>1, <2>1
<1>3. ASSUME NEW o \in Offsets
      PROVE  o \in BitsOf(BytesOf(S)) <=> o \in S
  <2>1. PICK j \in 1 .. 16, b \in Lane : j = (o \div 8) + 1 /\ b = o % 8 /\ o = (8 * (j - 1)) + b
    BY DivMod DEF Offsets, Lane
  <2>2. o \in BitsOf(BytesOf(S)) <=> Bit(BytesOf(S)[j], b) = 1
    BY <2>1 DEF BitsOf
  <2>3. Bit(BytesOf(S)[j], b) = 1 <=> (8 * (j - 1)) + b \in S
    BY <1>1
  <2> QED  BY <2>1, <2>2, <2>3
<1>4. BitsOf(BytesOf(S)) \subseteq Offsets
  BY DEF BitsOf
<1> QED  BY <1>2, <1>3, <1>4

-----------------------------------------------------------------------------
(* Packing a key into words and unpacking it                                *)

\* The last word, and how many bytes of the key are lost with its padding.
LastWord(k) == [b \in 1 .. 4 |-> IF b <= Len(k) % 4 THEN k[(4 * (Len(k) \div 4)) + b] ELSE 255]
Lost(k)     == (Len(k) % 4) - Kept(LastWord(k))

LEMMA DivMod4 ==
    ASSUME NEW n \in Nat
    PROVE  n \div 4 \in Nat /\ n % 4 \in 0 .. 3 /\ n = (4 * (n \div 4)) + (n % 4)
OBVIOUS

\* Unpacking keeps what stands before the first 0xFF of a word that ends in one.
LEMMA KeptUpToPadding ==
    ASSUME NEW w \in [1 .. 4 -> Byte], NEW r \in 0 .. 3, \A b \in r + 1 .. 4 : w[b] = 255
    PROVE  /\ Kept(w) \in 0 .. r
           /\ w[Kept(w) + 1] = 255
           /\ \A b \in 1 .. Kept(w) : w[b] # 255
<1> DEFINE Cut(n) == w[n + 1] = 255 /\ \A b \in 1 .. n : w[b] # 255
<1>1. w[4] = 255
  OBVIOUS
<1>2. \E n \in 0 .. 3 : Cut(n)
  <2>1. CASE w[1] = 255
    <3>1. Cut(0)
      BY <2>1
    <3> QED  BY <3>1
  <2>2. CASE w[1] # 255 /\ w[2] = 255
    <3>1. Cut(1)
      BY <2>2
    <3> QED  BY <3>1
  <2>3. CASE w[1] # 255 /\ w[2] # 255 /\ w[3] = 255
    <3>1. Cut(2)
      BY <2>3
    <3> QED  BY <3>1
  <2>4. CASE w[1] # 255 /\ w[2] # 255 /\ w[3] # 255
    <3>1. Cut(3)
      BY <2>4, <1>1
    <3> QED  BY <3>1
  <2> QED  BY <2>1, <2>2, <2>3, <2>4
<1>3. Kept(w) = CHOOSE n \in 0 .. 3 : Cut(n)
  BY <1>1 DEF Kept
<1>4. Kept(w) \in 0 .. 3 /\ Cut(Kept(w))
  <2> HIDE DEF Cut
  <2> QED  BY <1>2, <1>3
<1> QED  BY <1>4

\* The words of a key.
LEMMA PackedWords ==
    ASSUME NEW k \in Seq(Byte)
    PROVE  /\ Len(Packed(k)) = (Len(k) \div 4) + 1
           /\ Packed(k)[(Len(k) \div 4) + 1] = LastWord(k)
           /\ \A j \in 1 .. Len(k) : /\ ((j - 1) \div 4) + 1 \in 1 .. (Len(k) \div 4) + 1
                                     /\ ((j - 1) % 4) + 1 \in 1 .. 4
                                     /\ Packed(k)[((j - 1) \div 4) + 1][((j - 1) % 4) + 1] = k[j]
<1>1. Len(k) \in Nat /\ Len(k) \div 4 \in Nat /\ Len(k) % 4 \in 0 .. 3
      /\ Len(k) = (4 * (Len(k) \div 4)) + (Len(k) % 4)
  BY LenProperties, DivMod4
<1>2. PICK q \in Nat, r \in 0 .. 3 : q = Len(k) \div 4 /\ r = Len(k) % 4 /\ Len(k) = (4 * q) + r
  BY <1>1
<1>3. Len(Packed(k)) = q + 1
  BY <1>2 DEF Packed
<1>4. Packed(k)[q + 1] = LastWord(k)
  <2>1. Packed(k)[q + 1] = [b \in 1 .. 4 |-> IF 4 * ((q + 1) - 1) + b <= Len(k) THEN k[4 * ((q + 1) - 1) + b] ELSE 255]
    BY <1>2 DEF Packed
  <2>2. LastWord(k) = [b \in 1 .. 4 |-> IF b <= r THEN k[(4 * q) + b] ELSE 255]
    BY <1>2 DEF LastWord
  <2>3. (q + 1) - 1 = q /\ \A b \in 1 .. 4 : ((4 * q) + b <= Len(k)) <=> (b <= r)
    BY <1>2
  <2> QED  BY <2>1, <2>2, <2>3
<1>5. ASSUME NEW j \in 1 .. Len(k)
      PROVE  /\ ((j - 1) \div 4) + 1 \in 1 .. q + 1
             /\ ((j - 1) % 4) + 1 \in 1 .. 4
             /\ Packed(k)[((j - 1) \div 4) + 1][((j - 1) % 4) + 1] = k[j]
  <2>1. j - 1 \in Nat
    BY <1>1
  <2>2. PICK d \in Nat, m \in 0 .. 3 : d = (j - 1) \div 4 /\ m = (j - 1) % 4 /\ j - 1 = (4 * d) + m
    BY <2>1, DivMod4
  <2>3. d + 1 \in 1 .. q + 1 /\ m + 1 \in 1 .. 4
    BY <1>1, <1>2, <2>2
  <2>4. Packed(k)[d + 1] = [b \in 1 .. 4 |-> IF 4 * ((d + 1) - 1) + b <= Len(k) THEN k[4 * ((d + 1) - 1) + b] ELSE 255]
    BY <1>2, <2>3 DEF Packed
  <2>5. Packed(k)[d + 1][m + 1] = IF 4 * ((d + 1) - 1) + (m + 1) <= Len(k) THEN k[4 * ((d + 1) - 1) + (m + 1)] ELSE 255
    BY <2>3, <2>4
  <2>6. 4 * ((d + 1) - 1) + (m + 1) = j
    BY <2>2
  <2> QED  BY <1>1, <2>2, <2>3, <2>5, <2>6
<1> QED  BY <1>2, <1>3, <1>4, <1>5

\* What comes back of a key: it loses what its last word has of 0xFF and behind.
LEMMA UnpackedPacked ==
    ASSUME NEW k \in Seq(Byte)
    PROVE  /\ Lost(k) \in 0 .. Len(k) % 4
           /\ Unpacked(Packed(k)) = SubSeq(k, 1, Len(k) - Lost(k))
           /\ Lost(k) > 0 => k[Len(k) - Lost(k) + 1] = 255
           /\ \A j \in Len(k) - (Len(k) % 4) + 1 .. Len(k) - Lost(k) : k[j] # 255
<1>1. PICK q \in Nat, r \in 0 .. 3 : q = Len(k) \div 4 /\ r = Len(k) % 4 /\ Len(k) = (4 * q) + r
  BY LenProperties, DivMod4
<1>2. \A j \in 1 .. Len(k) : k[j] \in Byte
  BY ElementOfSeq
<1> DEFINE w == LastWord(k)
<1>3. w = [b \in 1 .. 4 |-> IF b <= r THEN k[(4 * q) + b] ELSE 255]
  BY <1>1 DEF LastWord
<1>4. w \in [1 .. 4 -> Byte] /\ \A b \in r + 1 .. 4 : w[b] = 255
  <2>1. ASSUME NEW b \in 1 .. 4
        PROVE  (IF b <= r THEN k[(4 * q) + b] ELSE 255) \in Byte
    <3>1. b <= r => (4 * q) + b \in 1 .. Len(k)
      BY <1>1
    <3>2. 255 \in Byte
      BY DEF Byte
    <3> QED  BY <1>2, <3>1, <3>2
  <2> HIDE DEF w
  <2>2. w \in [1 .. 4 -> Byte]
    BY <1>3, <2>1
  <2> QED  BY <1>3, <2>2
<1>5. \A b \in 1 .. 4 : b <= r => w[b] = k[(4 * q) + b]
  BY <1>3
<1> HIDE DEF w
<1>6. /\ Kept(w) \in 0 .. r /\ w[Kept(w) + 1] = 255 /\ \A b \in 1 .. Kept(w) : w[b] # 255
  BY <1>4, KeptUpToPadding
<1>7. PICK c \in 0 .. r : c = Kept(w)
  BY <1>6
<1>8. Lost(k) = r - c
  BY <1>1, <1>7 DEF Lost, w
<1>9. Len(k) - Lost(k) = (4 * q) + c
  BY <1>1, <1>7, <1>8
<1>10. Unpacked(Packed(k)) = SubSeq(k, 1, (4 * q) + c)
  <2>1. /\ Len(Packed(k)) = q + 1
        /\ Packed(k)[q + 1] = w
        /\ \A j \in 1 .. Len(k) : Packed(k)[((j - 1) \div 4) + 1][((j - 1) % 4) + 1] = k[j]
    BY <1>1, PackedWords DEF w
  <2>2. PICK ws : ws = Packed(k)
    OBVIOUS
  <2>3. 4 * (Len(ws) - 1) + Kept(ws[Len(ws)]) = (4 * q) + c
    BY <2>1, <2>2, <1>7
  <2>4. Unpacked(ws) = [j \in 1 .. (4 * q) + c |->
            IF j <= 4 * Len(ws) THEN ws[((j - 1) \div 4) + 1][((j - 1) % 4) + 1]
            ELSE ws[Len(ws)][((j - 1) % 4) + 1]]
    BY <2>3 DEF Unpacked
  <2>5. ASSUME NEW j \in 1 .. (4 * q) + c
        PROVE  j \in 1 .. Len(k) /\ j <= 4 * Len(ws)
    BY <1>1, <2>1, <2>2
  <2>6. Unpacked(ws) = [j \in 1 .. (4 * q) + c |-> k[j]]
    BY <2>1, <2>2, <2>4, <2>5
  <2>7. Unpacked(ws) \in [1 .. (4 * q) + c -> Byte]
    BY <1>2, <2>5, <2>6
  <2>8. Unpacked(ws) \in Seq(Byte) /\ Len(Unpacked(ws)) = (4 * q) + c
    <3>1. (4 * q) + c \in Nat
      BY <1>7
    <3> QED  BY <2>7, <3>1, FunctionIsSeq
  <2>9. /\ SubSeq(k, 1, (4 * q) + c) \in Seq(Byte)
        /\ Len(SubSeq(k, 1, (4 * q) + c)) = (4 * q) + c
        /\ \A j \in 1 .. (4 * q) + c : SubSeq(k, 1, (4 * q) + c)[j] = k[j]
    <3>1. PICK n \in Nat : n = (4 * q) + c
      BY <1>7
    <3>2. \A j \in 1 .. n : k[j] \in Byte
      BY <1>2, <2>5, <3>1
    <3>3. /\ SubSeq(k, 1, n) \in Seq(Byte)
          /\ Len(SubSeq(k, 1, n)) = IF 1 <= n THEN n - 1 + 1 ELSE 0
          /\ \A j \in 1 .. n - 1 + 1 : SubSeq(k, 1, n)[j] = k[1 + j - 1]
      BY <3>2, SubSeqProperties
    <3>4. \A j \in 1 .. n : 1 + j - 1 = j
      OBVIOUS
    <3> QED  BY <3>1, <3>3, <3>4
  <2>10. \A j \in 1 .. (4 * q) + c : Unpacked(ws)[j] = SubSeq(k, 1, (4 * q) + c)[j]
    BY <2>6, <2>9
  <2> QED  BY <2>2, <2>8, <2>9, <2>10, SeqEqual
<1>11. Lost(k) > 0 => k[Len(k) - Lost(k) + 1] = 255
  <2>1. CASE c < r
    <3>1. c + 1 \in 1 .. 4 /\ c + 1 <= r
      BY <1>1, <1>7, <2>1
    <3>2. w[c + 1] = k[(4 * q) + (c + 1)] /\ w[c + 1] = 255
      BY <1>5, <1>6, <1>7, <3>1
    <3>3. (4 * q) + (c + 1) = Len(k) - Lost(k) + 1
      BY <1>1, <1>7, <1>9
    <3> QED  BY <3>2, <3>3
  <2>2. CASE c = r
    BY <1>1, <1>8, <2>2
  <2> QED  BY <1>1, <1>7, <2>1, <2>2
<1>12. ASSUME NEW j \in (4 * q) + 1 .. (4 * q) + c
       PROVE  k[j] # 255
  <2>1. PICK b \in 1 .. c : j = (4 * q) + b
    <3>1. j - (4 * q) \in 1 .. c
      OBVIOUS
    <3> QED  BY <3>1
  <2>2. b \in 1 .. 4 /\ b <= r
    OBVIOUS
  <2>3. w[b] = k[(4 * q) + b]
    BY <1>5, <2>2
  <2>4. w[b] # 255
    BY <1>6, <1>7, <2>1
  <2>5. k[j] = k[(4 * q) + b]
    BY <2>1
  <2> QED  BY <2>3, <2>4, <2>5, Zenon
<1>13. Len(k) - (Len(k) % 4) + 1 = (4 * q) + 1
  BY <1>1
<1>14. \A j \in Len(k) - (Len(k) % 4) + 1 .. Len(k) - Lost(k) : k[j] # 255
  <2>1. (Len(k) - (Len(k) % 4) + 1 .. Len(k) - Lost(k)) = ((4 * q) + 1 .. (4 * q) + c)
    BY <1>9, <1>13, Zenon
  <2>2. ASSUME NEW j \in Len(k) - (Len(k) % 4) + 1 .. Len(k) - Lost(k)
        PROVE  k[j] # 255
    <3>1. j \in (4 * q) + 1 .. (4 * q) + c
      BY <2>1, Zenon
    <3> QED  BY <1>12, <3>1
  <2> QED  BY <2>2, Zenon
<1>15. Lost(k) \in 0 .. Len(k) % 4
  BY <1>1, <1>7, <1>8
<1> QED  BY <1>9, <1>10, <1>11, <1>14, <1>15, Zenon

-----------------------------------------------------------------------------
(* The keys                                                                 *)

\* What generate_query works on.
FixedInv ==
    /\ lgn \in Heights /\ qry_idx \in Nat /\ qry_idx < 2^lgn /\ head \in Byte
    /\ tree \in [Party -> [0 .. 2^Stop - 1 -> [t : BOOLEAN, block : SUBSET Offsets]]]
    /\ \A l \in 0 .. 2^Stop - 1 : l # Leaf(qry_idx) => tree[0][l] = tree[1][l]
    /\ tree[0][Leaf(qry_idx)].t # tree[1][Leaf(qry_idx)].t

LEMMA LeafIsThere ==
    ASSUME FixedInv
    PROVE  /\ Leaf(qry_idx) \in 0 .. 2^Stop - 1 /\ qry_idx % 128 \in Offsets
           /\ qry_idx = (128 * Leaf(qry_idx)) + (qry_idx % 128)
           /\ Final \in SUBSET Offsets
           /\ Stop \in Nat /\ Stop >= 3
<1>1. lgn \in Nat /\ lgn >= 10 /\ Stop \in Nat /\ Stop >= 3
  BY DpfPirAssumption DEF FixedInv, Stop
<1>2. PICK n \in Nat : n = 2^Stop /\ 2^lgn = 128 * n
  BY LeavesArePacked DEF FixedInv, Stop
<1>3. PICK x \in Nat : x = qry_idx /\ x < 128 * n
  BY <1>2 DEF FixedInv
<1>4. x \div 128 \in 0 .. n - 1 /\ x % 128 \in 0 .. 127 /\ x = (128 * (x \div 128)) + (x % 128)
  BY <1>3
<1>5. Leaf(qry_idx) \in 0 .. 2^Stop - 1
  BY <1>2, <1>3, <1>4 DEF Leaf
<1>6. Final \in SUBSET Offsets
  <2>1. \A p \in Party : tree[p][Leaf(qry_idx)].block \in SUBSET Offsets
    BY <1>5 DEF FixedInv
  <2>2. qry_idx % 128 \in Offsets
    BY <1>3, <1>4 DEF Offsets
  <2>3. 0 \in Party /\ 1 \in Party
    BY DEF Party
  <2> QED  BY <2>1, <2>2, <2>3 DEF Final, ##
<1> QED  BY <1>1, <1>3, <1>4, <1>5, <1>6 DEF Leaf, Offsets

\* The two keys are 33 bytes and 18 for every level long and differ in the byte 17 only;
\* they end in the bytes of the final word.
LEMMA KeyShape ==
    ASSUME FixedInv, NEW p \in Party
    PROVE  /\ Key(p) \in Seq(Byte) /\ Len(Key(p)) = 33 + 18 * Stop
           /\ \A j \in 1 .. 33 + 18 * Stop : j # 17 => Key(p)[j] = Key(0)[j]
           /\ \A j \in 1 .. 16 : Key(p)[17 + 18 * Stop + j] = BytesOf(Final)[j]
<1>1. PICK m \in Nat : m = 17 + 18 * Stop /\ m >= 71
  BY LeafIsThere
<1> DEFINE Begin(q) == [j \in 1 .. m |-> IF j = 17 THEN q ELSE head]
<1>2. \A q \in Party : Begin(q) \in Seq(Byte) /\ Len(Begin(q)) = m
  <2>1. \A q \in Party : q \in Byte
    BY DEF Party, Byte
  <2>2. \A q \in Party : Begin(q) \in [1 .. m -> Byte]
    BY <2>1 DEF FixedInv
  <2> HIDE DEF Begin
  <2> QED  BY <1>1, <2>2, FunctionIsSeq
<1>3. BytesOf(Final) \in Seq(Byte) /\ Len(BytesOf(Final)) = 16
  <2>1. PICK f \in [1 .. 16 -> Byte] : f = BytesOf(Final)
    BY LeafIsThere, BytesKeepBits
  <2>2. f \in Seq(Byte) /\ Len(f) = 16
    BY 16 \in Nat, FunctionIsSeq
  <2> QED  BY <2>1, <2>2
<1>4. \A q \in Party : Key(q) = Begin(q) \o BytesOf(Final)
  BY <1>1 DEF Key
<1>5. \A q \in Party : \A j \in 1 .. m : Begin(q)[j] = IF j = 17 THEN q ELSE head
  OBVIOUS
<1> HIDE DEF Begin
<1>6. ASSUME NEW q \in Party
      PROVE  /\ Key(q) \in Seq(Byte) /\ Len(Key(q)) = m + 16
             /\ \A j \in 1 .. m + 16 : Key(q)[j] =
                    IF j <= m THEN (IF j = 17 THEN q ELSE head) ELSE BytesOf(Final)[j - m]
  <2>1. /\ Key(q) \in Seq(Byte) /\ Len(Key(q)) = m + 16
        /\ \A j \in 1 .. m + 16 : Key(q)[j] = IF j <= m THEN Begin(q)[j] ELSE BytesOf(Final)[j - m]
    <3>1. PICK a \in Seq(Byte), e \in Seq(Byte) : a = Begin(q) /\ Len(a) = m /\ e = BytesOf(Final) /\ Len(e) = 16
      BY <1>2, <1>3
    <3>2. Key(q) = a \o e
      BY <1>4, <3>1
    <3>3. /\ a \o e \in Seq(Byte) /\ Len(a \o e) = m + 16
          /\ \A j \in 1 .. m + 16 : (a \o e)[j] = IF j <= m THEN a[j] ELSE e[j - m]
      <4>1. /\ a \o e \in Seq(Byte)
            /\ Len(a \o e) = Len(a) + Len(e)
            /\ \A j \in 1 .. Len(a) + Len(e) : (a \o e)[j] = IF j <= Len(a) THEN a[j] ELSE e[j - Len(a)]
        BY ConcatProperties
      <4> QED  BY <3>1, <4>1
    <3> QED  BY <3>1, <3>2, <3>3
  <2> QED  BY <1>1, <1>5, <2>1
<1>7. 0 \in Party
  BY DEF Party
<1>8. ASSUME NEW j \in 1 .. m + 16, j # 17
      PROVE  Key(p)[j] = Key(0)[j]
  BY <1>6, <1>7, <1>8
<1>9. ASSUME NEW j \in 1 .. 16
      PROVE  Key(p)[m + j] = BytesOf(Final)[j]
  <2>1. m + j \in 1 .. m + 16 /\ ~(m + j <= m) /\ (m + j) - m = j
    OBVIOUS
  <2> QED  BY <1>6, <2>1
<1>10. 33 + 18 * Stop = m + 16
  BY <1>1, LeafIsThere
<1> QED  BY <1>1, <1>6, <1>8, <1>9, <1>10

\* The two keys end alike, so they lose the same.
LEMMA KeysLoseTheSame ==
    ASSUME FixedInv, NEW p \in Party
    PROVE  /\ Lost(Key(p)) = Lost(Key(0)) /\ Lost(Key(0)) \in 0 .. 3
           /\ Len(Key(p)) = 33 + 18 * Stop /\ Len(Key(0)) = 33 + 18 * Stop
<1>1. 0 \in Party
  BY DEF Party
<1>2. PICK n \in Nat : n = 33 + 18 * Stop /\ n >= 87
  BY LeafIsThere
<1>3. /\ Key(p) \in Seq(Byte) /\ Len(Key(p)) = n /\ Key(0) \in Seq(Byte) /\ Len(Key(0)) = n
      /\ \A j \in 1 .. n : j # 17 => Key(p)[j] = Key(0)[j]
  BY <1>1, <1>2, KeyShape
<1>4. PICK q \in Nat, r \in 0 .. 3 : q = n \div 4 /\ r = n % 4 /\ n = (4 * q) + r
  BY <1>2, DivMod4
<1>5. ASSUME NEW b \in 1 .. 4, b <= r
      PROVE  Key(p)[(4 * q) + b] = Key(0)[(4 * q) + b]
  <2>1. (4 * q) + b \in 1 .. n /\ (4 * q) + b # 17
    BY <1>2, <1>4, <1>5
  <2> QED  BY <1>3, <2>1
<1>6. LastWord(Key(p)) = LastWord(Key(0))
  <2>1. LastWord(Key(p)) = [b \in 1 .. 4 |-> IF b <= r THEN Key(p)[(4 * q) + b] ELSE 255]
    BY <1>3, <1>4 DEF LastWord
  <2>2. LastWord(Key(0)) = [b \in 1 .. 4 |-> IF b <= r THEN Key(0)[(4 * q) + b] ELSE 255]
    BY <1>3, <1>4 DEF LastWord
  <2>3. \A b \in 1 .. 4 : (IF b <= r THEN Key(p)[(4 * q) + b] ELSE 255)
                           = (IF b <= r THEN Key(0)[(4 * q) + b] ELSE 255)
    BY <1>5
  <2> QED  BY <2>1, <2>2, <2>3
<1>7. Lost(Key(p)) = Lost(Key(0))
  BY <1>3, <1>6 DEF Lost
<1>8. Lost(Key(0)) \in 0 .. 3
  <2>1. Lost(Key(0)) \in 0 .. Len(Key(0)) % 4
    BY <1>3, UnpackedPacked
  <2> QED  BY <1>3, <1>4, <2>1
<1> QED  BY <1>2, <1>3, <1>7, <1>8

LEMMA FinalWordIsLast ==
    ASSUME NEW k \in Seq(Byte), Len(k) >= 16
    PROVE  /\ FinalWord(k) \in Seq(Byte) /\ Len(FinalWord(k)) = 16
           /\ \A j \in 1 .. 16 : FinalWord(k)[j] = k[Len(k) - 16 + j]
<1>0. PICK m \in Nat : m = Len(k) /\ m >= 16
  BY LenProperties
<1>1. \A j \in m - 15 .. m : k[j] \in Byte
  <2>1. \A j \in m - 15 .. m : j \in 1 .. m
    BY <1>0
  <2> QED  BY <1>0, <2>1, ElementOfSeq
<1>2. /\ SubSeq(k, m - 15, m) \in Seq(Byte)
      /\ Len(SubSeq(k, m - 15, m)) = IF m - 15 <= m THEN m - (m - 15) + 1 ELSE 0
      /\ \A j \in 1 .. m - (m - 15) + 1 : SubSeq(k, m - 15, m)[j] = k[(m - 15) + j - 1]
  BY <1>1, SubSeqProperties
<1>3. m - (m - 15) + 1 = 16 /\ m - 15 <= m
  BY <1>0
<1>4. \A j \in 1 .. 16 : (m - 15) + j - 1 = m - 16 + j
  OBVIOUS
<1>5. FinalWord(k) = SubSeq(k, m - 15, m)
  BY <1>0 DEF FinalWord
<1>6. ASSUME NEW j \in 1 .. 16
      PROVE  SubSeq(k, m - 15, m)[j] = k[m - 16 + j]
  <2>1. SubSeq(k, m - 15, m)[j] = k[(m - 15) + j - 1]
    BY <1>2, <1>3
  <2> QED  BY <1>4, <2>1, Zenon
<1> QED  BY <1>0, <1>2, <1>3, <1>5, <1>6

\* Both servers read the same final word, and the one of the keys if nothing was lost.
LEMMA FinalWordsAgree ==
    ASSUME FixedInv, NEW p \in Party
    PROVE  /\ FinalWord(Unpacked(Packed(Key(p)))) = FinalWord(Unpacked(Packed(Key(0))))
           /\ FinalWord(Key(0)) = BytesOf(Final)
<1>1. 0 \in Party
  BY DEF Party
<1>2. PICK n \in Nat, m \in Nat : n = 33 + 18 * Stop /\ n >= 87 /\ m = n - Lost(Key(0)) /\ m >= 84 /\ m <= n
  BY LeafIsThere, KeysLoseTheSame
<1>3. ASSUME NEW q \in Party
      PROVE  /\ Unpacked(Packed(Key(q))) \in Seq(Byte) /\ Len(Unpacked(Packed(Key(q)))) = m
             /\ \A j \in 1 .. m : Unpacked(Packed(Key(q)))[j] = Key(q)[j]
  <2>1. Key(q) \in Seq(Byte) /\ Len(Key(q)) = n /\ Lost(Key(q)) = Lost(Key(0))
    BY <1>2, KeyShape, KeysLoseTheSame
  <2>2. Unpacked(Packed(Key(q))) = SubSeq(Key(q), 1, m)
    BY <1>2, <2>1, UnpackedPacked
  <2>3. \A j \in 1 .. m : Key(q)[j] \in Byte
    BY <1>2, <2>1, ElementOfSeq
  <2>4. /\ SubSeq(Key(q), 1, m) \in Seq(Byte)
        /\ Len(SubSeq(Key(q), 1, m)) = IF 1 <= m THEN m - 1 + 1 ELSE 0
        /\ \A j \in 1 .. m - 1 + 1 : SubSeq(Key(q), 1, m)[j] = Key(q)[1 + j - 1]
    BY <2>3, SubSeqProperties
  <2>5. m - 1 + 1 = m /\ \A j \in 1 .. m : 1 + j - 1 = j
    BY <1>2
  <2> QED  BY <1>2, <2>2, <2>4, <2>5
<1>4. ASSUME NEW q \in Party
      PROVE  /\ FinalWord(Unpacked(Packed(Key(q)))) \in Seq(Byte)
             /\ Len(FinalWord(Unpacked(Packed(Key(q))))) = 16
             /\ \A j \in 1 .. 16 : FinalWord(Unpacked(Packed(Key(q))))[j] = Key(0)[m - 16 + j]
  <2>1. PICK k \in Seq(Byte) : k = Unpacked(Packed(Key(q))) /\ Len(k) = m /\ \A j \in 1 .. m : k[j] = Key(q)[j]
    BY <1>3
  <2>2. /\ FinalWord(k) \in Seq(Byte) /\ Len(FinalWord(k)) = 16
        /\ \A j \in 1 .. 16 : FinalWord(k)[j] = k[m - 16 + j]
    <3>1. Len(k) >= 16
      BY <1>2, <2>1
    <3>2. /\ FinalWord(k) \in Seq(Byte) /\ Len(FinalWord(k)) = 16
          /\ \A j \in 1 .. 16 : FinalWord(k)[j] = k[Len(k) - 16 + j]
      BY <3>1, FinalWordIsLast
    <3> QED  BY <2>1, <3>2
  <2>3. ASSUME NEW j \in 1 .. 16
        PROVE  k[m - 16 + j] = Key(0)[m - 16 + j]
    <3>1. PICK x \in 1 .. n : x = m - 16 + j /\ x # 17 /\ x \in 1 .. m
      BY <1>2
    <3>2. Key(q)[x] = Key(0)[x]
      BY <1>2, <3>1, KeyShape
    <3> QED  BY <2>1, <3>1, <3>2
  <2> QED  BY <2>1, <2>2, <2>3
<1>5. FinalWord(Unpacked(Packed(Key(p)))) = FinalWord(Unpacked(Packed(Key(0))))
  <2>1. PICK f \in Seq(Byte) : f = FinalWord(Unpacked(Packed(Key(p)))) /\ Len(f) = 16
                               /\ \A j \in 1 .. 16 : f[j] = Key(0)[m - 16 + j]
    BY <1>4
  <2>2. PICK g \in Seq(Byte) : g = FinalWord(Unpacked(Packed(Key(0)))) /\ Len(g) = 16
                               /\ \A j \in 1 .. 16 : g[j] = Key(0)[m - 16 + j]
    BY <1>1, <1>4
  <2>3. f = g
    <3>1. Len(f) = Len(g) /\ \A x \in 1 .. Len(f) : f[x] = g[x]
      BY <2>1, <2>2
    <3> QED  BY <3>1, SeqEqual
  <2> QED  BY <2>1, <2>2, <2>3
<1>6. FinalWord(Key(0)) = BytesOf(Final)
  <2>1. PICK f \in [1 .. 16 -> Byte] : f = BytesOf(Final)
    BY LeafIsThere, BytesKeepBits
  <2>2. f \in Seq(Byte) /\ Len(f) = 16
    BY 16 \in Nat, FunctionIsSeq
  <2>3. Key(0) \in Seq(Byte) /\ Len(Key(0)) = n /\ \A j \in 1 .. 16 : Key(0)[n - 16 + j] = f[j]
    <3>1. 17 + 18 * Stop = n - 16
      BY <1>2, LeafIsThere
    <3> QED  BY <1>1, <1>2, <2>1, <3>1, KeyShape
  <2>4. PICK g \in Seq(Byte) : g = FinalWord(Key(0)) /\ Len(g) = 16 /\ \A j \in 1 .. 16 : g[j] = f[j]
    <3>1. /\ FinalWord(Key(0)) \in Seq(Byte) /\ Len(FinalWord(Key(0))) = 16
          /\ \A j \in 1 .. 16 : FinalWord(Key(0))[j] = Key(0)[Len(Key(0)) - 16 + j]
      <4>1. Len(Key(0)) >= 16 /\ Key(0) \in Seq(Byte)
        BY <1>2, <2>3
      <4> QED  BY <4>1, FinalWordIsLast
    <3> QED  BY <2>3, <3>1
  <2>5. g = f
    <3>1. Len(g) = Len(f) /\ \A x \in 1 .. Len(g) : g[x] = f[x]
      BY <2>2, <2>4
    <3> QED  BY <2>2, <3>1, SeqEqual
  <2> QED  BY <2>1, <2>4, <2>5
<1> QED  BY <1>5, <1>6

-----------------------------------------------------------------------------
(* The answers                                                              *)

\* Two servers that read the same final word: their sums differ at the point, and where
\* that word is not the one that was sent, in the leaf of the point.
LEMMA SumsDiffer ==
    ASSUME FixedInv, NEW k0, NEW k1, BitsOf(FinalWord(k1)) = BitsOf(FinalWord(k0))
    PROVE  Sum(0, k0) ## Sum(1, k1) =
               {qry_idx} ## {128 * Leaf(qry_idx) + o : o \in BitsOf(FinalWord(k0)) ## Final}
<1> DEFINE W == BitsOf(FinalWord(k0))
           Bits(p, l) == IF tree[p][l].t THEN tree[p][l].block ## W ELSE tree[p][l].block
           Leaves == 0 .. 2^Stop - 1
           at == Leaf(qry_idx)
           Image(S) == {128 * at + o : o \in S}
<1> SUFFICES Sum(0, k0) ## Sum(1, k1) = {qry_idx} ## Image(W ## Final)
  OBVIOUS
<1>1. PICK off \in Offsets :
          qry_idx % 128 = off /\ at \in Nat /\ qry_idx = (128 * at) + off /\ at \in Leaves
  <2>1. at \in Nat
    BY DEF FixedInv, Leaf
  <2> QED  BY <2>1, LeafIsThere
<1>2. W \in SUBSET Offsets
  BY DEF BitsOf
<1>3. \A p \in Party, l \in Leaves : Bits(p, l) \in SUBSET Offsets
  <2>1. \A p \in Party, l \in Leaves : tree[p][l].block \in SUBSET Offsets
    BY DEF FixedInv
  <2> HIDE DEF Leaves, W
  <2> QED  BY <1>2, <2>1 DEF ##
<1>4. \A p \in Party : DOMAIN tree[p] = Leaves
  BY DEF FixedInv
<1>5. /\ Sum(0, k0) = UNION {{128 * l + o : o \in Bits(0, l)} : l \in Leaves}
      /\ Sum(1, k1) = UNION {{128 * l + o : o \in Bits(1, l)} : l \in Leaves}
  <2>1. DOMAIN tree[0] = Leaves /\ DOMAIN tree[1] = Leaves
    BY <1>4 DEF Party
  <2> DEFINE SumOf(p, w) ==
          UNION {{128 * l + o : o \in IF tree[p][l].t THEN tree[p][l].block ## w ELSE tree[p][l].block}
                    : l \in DOMAIN tree[p]}
  <2>2. \A p : SumOf(p, W) = UNION {{128 * l + o : o \in Bits(p, l)} : l \in DOMAIN tree[p]}
    OBVIOUS
  <2>3. Sum(0, k0) = SumOf(0, W) /\ Sum(1, k1) = SumOf(1, W)
    <3>1. \A p, k : Sum(p, k) = SumOf(p, BitsOf(FinalWord(k)))
      BY DEF Sum
    <3> HIDE DEF SumOf
    <3> QED  BY <3>1
  <2> HIDE DEF SumOf
  <2> HIDE DEF Leaves, Bits
  <2> QED  BY <2>1, <2>2, <2>3
<1>6. \A l \in Leaves : l # at => Bits(0, l) = Bits(1, l)
  BY <1>1 DEF FixedInv
<1>7. Bits(0, at) ## Bits(1, at) = {off} ## (W ## Final)
  <2>1. tree[0][at].t \in BOOLEAN /\ tree[1][at].t \in BOOLEAN /\ tree[0][at].t # tree[1][at].t
    <3>1. 0 \in Party /\ 1 \in Party
      BY DEF Party
    <3> QED  BY <1>1, <3>1 DEF FixedInv
  <2>2. Final = {off} ## (tree[0][at].block ## tree[1][at].block)
    BY <1>1 DEF Final
  <2>3. CASE tree[0][at].t /\ ~tree[1][at].t
    <3>1. Bits(0, at) = tree[0][at].block ## W /\ Bits(1, at) = tree[1][at].block
      BY <2>3
    <3> HIDE DEF Bits, W
    <3> QED  BY <2>2, <3>1 DEF ##
  <2>4. CASE ~tree[0][at].t /\ tree[1][at].t
    <3>1. Bits(0, at) = tree[0][at].block /\ Bits(1, at) = tree[1][at].block ## W
      BY <2>4
    <3> HIDE DEF Bits, W
    <3> QED  BY <2>2, <3>1 DEF ##
  <2> QED  BY <2>1, <2>3, <2>4
<1> HIDE DEF Bits, W, Leaves, at
<1>8. ASSUME NEW x
      PROVE  x \in Sum(0, k0) ## Sum(1, k1) <=> x \in {128 * at + o : o \in Bits(0, at) ## Bits(1, at)}
  <2>1. /\ x \in Sum(0, k0) <=> \E l \in Leaves : \E o \in Bits(0, l) : x = 128 * l + o
        /\ x \in Sum(1, k1) <=> \E l \in Leaves : \E o \in Bits(1, l) : x = 128 * l + o
    BY <1>5
  <2>2. \A l, m \in Leaves : \A o, b \in Offsets : 128 * l + o = 128 * m + b => l = m /\ o = b
    <3>2. \A l \in Leaves : l \in Int
      BY DEF Leaves
    <3>3. ASSUME NEW l \in Leaves, NEW m \in Leaves, NEW o \in Offsets, NEW b \in Offsets,
                 128 * l + o = 128 * m + b
          PROVE  l = m /\ o = b
      <4>1. l \in Int /\ m \in Int /\ o \in 0 .. 127 /\ b \in 0 .. 127
        BY <3>2 DEF Offsets
      <4> QED  BY <3>3, <4>1
    <3> QED  BY <3>3
  <2>3. 0 \in Party /\ 1 \in Party
    BY DEF Party
  <2>4. ASSUME x \in Sum(0, k0) ## Sum(1, k1)
        PROVE  x \in {128 * at + o : o \in Bits(0, at) ## Bits(1, at)}
    <3>1. PICK l \in Leaves, o \in Offsets : x = 128 * l + o /\ (o \in Bits(0, l) \/ o \in Bits(1, l))
      BY <1>3, <2>1, <2>3, <2>4 DEF ##
    <3>2. \A p \in Party : o \in Bits(p, l) <=> \E m \in Leaves : \E b \in Bits(p, m) : x = 128 * m + b
      BY <1>3, <2>2, <3>1
    <3>3. o \in Bits(0, l) ## Bits(1, l)
      BY <2>1, <2>3, <2>4, <3>2 DEF ##
    <3>4. l = at
      BY <1>6, <3>3 DEF ##
    <3> QED  BY <3>1, <3>3, <3>4
  <2>5. ASSUME x \in {128 * at + o : o \in Bits(0, at) ## Bits(1, at)}
        PROVE  x \in Sum(0, k0) ## Sum(1, k1)
    <3>1. PICK o : x = 128 * at + o /\ o \in Bits(0, at) ## Bits(1, at)
      BY <2>5
    <3>2. o \in Offsets
      BY <1>1, <1>3, <2>3, <3>1 DEF ##
    <3>3. \A p \in Party : o \in Bits(p, at) <=> \E m \in Leaves : \E b \in Bits(p, m) : x = 128 * m + b
      BY <1>1, <1>3, <2>2, <3>1, <3>2
    <3> QED  BY <2>1, <2>3, <3>1, <3>3 DEF ##
  <2> QED  BY <2>4, <2>5
<1>9. Final \in SUBSET Offsets
  BY LeafIsThere
<1>10. {128 * at + o : o \in {off} ## (W ## Final)} = {(128 * at) + off} ## {128 * at + o : o \in W ## Final}
  <2>1. PICK D \in SUBSET Offsets : D = W ## Final
    BY <1>2, <1>9 DEF ##
  <2>2. \A o \in Offsets : 128 * at + o = 128 * at + off => o = off
    BY <1>1 DEF Offsets
  <2>3. {128 * at + o : o \in {off} ## D} = {(128 * at) + off} ## {128 * at + o : o \in D}
    <3> DEFINE F(o) == 128 * at + o
    <3>1. \A o \in Offsets : F(o) = F(off) => o = off
      BY <2>2
    <3> HIDE DEF F
    <3>2. {F(o) : o \in {off} ## D} = {F(off)} ## {F(o) : o \in D}
      BY <1>1, <2>1, <3>1 DEF ##
    <3> QED  BY <3>2 DEF F
  <2> QED  BY <2>1, <2>3
<1>11. \A x : x \in Sum(0, k0) ## Sum(1, k1) <=> x \in Image(Bits(0, at) ## Bits(1, at))
  BY <1>8
<1>12. Image({off} ## (W ## Final)) = {qry_idx} ## Image(W ## Final)
  BY <1>1, <1>10
<1> HIDE DEF Image
<1>13. Sum(0, k0) ## Sum(1, k1) = Image(Bits(0, at) ## Bits(1, at))
  BY <1>11
<1> QED  BY <1>7, <1>12, <1>13


-----------------------------------------------------------------------------
(* The retrieval                                                            *)

Calls == {"generate_query", "serialize_query", "deserialize_query", "generate_left_reply",
          "generate_right_reply", "serialize_reply", "deserialize_reply", "recover", "done"}

\* What every step has left behind for the next.
QueriesInv ==
    /\ call # "generate_query" => query = [p \in Party |-> Key(p)]
    /\ call \notin {"generate_query", "serialize_query"} => words = [p \in Party |-> Packed(Key(p))]
    /\ Arrived => query1 = [p \in Party |-> Unpacked(Packed(Key(p)))]
RepliesInv ==
    /\ DOMAIN reply = Party
    /\ call \in {"generate_right_reply", "serialize_reply", "deserialize_reply", "recover", "done"} =>
           reply[0] = Answers(0, query1[0])
    /\ call \in {"serialize_reply", "deserialize_reply", "recover", "done"} =>
           reply[1] = Answers(1, query1[1])
    /\ call \in {"deserialize_reply", "recover", "done"} => msg = reply[0] \o reply[1]
    /\ call \in {"recover", "done"} =>
           lr = [p \in Party |-> [n \in 1 .. Len(msg) \div 2 |-> msg[p * (Len(msg) \div 2) + n]]]
    /\ call = "done" => result = lr[0][1] ## lr[1][1]

RetrievalInv == call \in Calls /\ FixedInv /\ QueriesInv /\ RepliesInv

LEMMA InitRetrieval == RetrievalInit => RetrievalInv
<1> SUFFICES ASSUME RetrievalInit
             PROVE  RetrievalInv
  OBVIOUS
<1>1. lgn \in Heights /\ qry_idx \in Nat /\ qry_idx < 2^lgn /\ head \in Byte
  BY DpfPirAssumption DEF RetrievalInit, MayAsk
<1>2. FixedInv
  <2>1. PICK on \in Nodes, other \in {n.block : n \in Nodes} :
            LET common == [l \in 0 .. 2^Stop - 1 |-> Elsewhere[l % 2]]
            IN  tree = [p \in Party |-> [common EXCEPT ![Leaf(qry_idx)] =
                    IF p = 0 THEN on ELSE [t |-> ~on.t, block |-> other]]]
    BY DEF RetrievalInit
  <2> DEFINE Node == [t : BOOLEAN, block : SUBSET Offsets]
             common == [l \in 0 .. 2^Stop - 1 |-> Elsewhere[l % 2]]
             off == [t |-> ~on.t, block |-> other]
             at == Leaf(qry_idx)
  <2>2. on \in Node /\ off \in Node /\ on.t # off.t
    <3>1. Nodes \subseteq Node
      BY DpfPirAssumption
    <3>2. on \in Node /\ other \in SUBSET Offsets
      BY <3>1
    <3> QED  BY <3>2
  <2>3. common \in [0 .. 2^Stop - 1 -> Node]
    <3>1. \A l \in 0 .. 2^Stop - 1 : l % 2 \in 0 .. 1
      <4>1. PICK n \in Nat : n = 2^Stop
        BY <1>1, LeavesArePacked DEF Stop
      <4> QED  BY <4>1
    <3>2. Elsewhere \in [0 .. 1 -> Node]
      BY DpfPirAssumption
    <3> HIDE DEF Node
    <3> QED  BY <3>1, <3>2
  <2>4. at \in 0 .. 2^Stop - 1
    <3>1. PICK n \in Nat : n = 2^Stop /\ 2^lgn = 128 * n
      BY <1>1, LeavesArePacked DEF Stop
    <3>2. PICK x \in Nat : x = qry_idx /\ x < 128 * n
      BY <1>1, <3>1
    <3>3. x \div 128 \in 0 .. n - 1
      BY <3>2
    <3> QED  BY <3>1, <3>2, <3>3 DEF Leaf
  <2>5. tree = [p \in Party |-> [common EXCEPT ![at] = IF p = 0 THEN on ELSE off]]
    BY <2>1
  <2> HIDE DEF Node, common, off, at
  <2>6. tree[0] = [common EXCEPT ![at] = on] /\ tree[1] = [common EXCEPT ![at] = off]
    BY <2>5 DEF Party
  <2>7. tree \in [Party -> [0 .. 2^Stop - 1 -> Node]]
    BY <2>2, <2>3, <2>4, <2>5
  <2>8. \A l \in 0 .. 2^Stop - 1 : l # at => tree[0][l] = tree[1][l]
    BY <2>3, <2>6
  <2>9. tree[0][at].t # tree[1][at].t
    BY <2>2, <2>3, <2>4, <2>6
  <2> QED  BY <1>1, <2>7, <2>8, <2>9 DEF FixedInv, Node, at
<1>3. call = "generate_query" /\ reply = Nothing
  BY DEF RetrievalInit
<1>4. QueriesInv
  BY <1>3 DEF QueriesInv, Arrived
<1>5. RepliesInv
  BY <1>3 DEF RepliesInv, Nothing
<1> QED  BY <1>2, <1>3, <1>4, <1>5 DEF RetrievalInv, Calls

\* The client's arguments stay, and with them the keys and what each server would answer.
LEMMA ArgumentsStay ==
    ASSUME UNCHANGED <<lgn, qry_idx, tree, head>>
    PROVE  /\ FixedInv' <=> FixedInv
           /\ \A p : Key(p)' = Key(p)
           /\ \A p, k : Sum(p, k)' = Sum(p, k)
           /\ \A p, k : Answers(p, k)' = Answers(p, k)
BY DEF FixedInv, Key, Final, Stop, Leaf, Sum, Answers

LEMMA NextRetrieval == RetrievalInv /\ [RetrievalNext]_retrievalvars => RetrievalInv'
<1> SUFFICES ASSUME RetrievalInv, [RetrievalNext]_retrievalvars
             PROVE  RetrievalInv'
  OBVIOUS
<1> USE DEF RetrievalInv
<1>1. UNCHANGED <<lgn, qry_idx, tree, head>>
  BY DEF RetrievalNext, retrievalvars, GenerateQuery, SerializeQuery, DeserializeQuery, GenerateLeftReply,
         GenerateRightReply, SerializeReply, DeserializeReply, Recover
<1>2. FixedInv' /\ \A p : Key(p)' = Key(p)
  BY <1>1, ArgumentsStay
<1>3. call' \in Calls
  BY DEF RetrievalNext, retrievalvars, GenerateQuery, SerializeQuery, DeserializeQuery, GenerateLeftReply,
         GenerateRightReply, SerializeReply, DeserializeReply, Recover, Calls
<1>4. CASE GenerateQuery
  <2>1. QueriesInv'
    BY <1>2, <1>4 DEF GenerateQuery, QueriesInv, Arrived
  <2>2. RepliesInv'
    BY <1>4 DEF GenerateQuery, RepliesInv
  <2> QED  BY <1>2, <1>3, <2>1, <2>2
<1>5. CASE SerializeQuery
  <2>1. words' = [p \in Party |-> Packed(Key(p))]
    BY <1>5 DEF SerializeQuery, QueriesInv
  <2>2. QueriesInv'
    BY <1>2, <1>5, <2>1 DEF SerializeQuery, QueriesInv, Arrived
  <2>3. RepliesInv'
    BY <1>5 DEF SerializeQuery, RepliesInv
  <2> QED  BY <1>2, <1>3, <2>2, <2>3
<1>6. CASE DeserializeQuery
  <2>1. query1' = [p \in Party |-> Unpacked(Packed(Key(p)))]
    BY <1>6 DEF DeserializeQuery, QueriesInv
  <2>2. QueriesInv'
    BY <1>2, <1>6, <2>1 DEF DeserializeQuery, QueriesInv, Arrived
  <2>3. RepliesInv'
    BY <1>6 DEF DeserializeQuery, RepliesInv
  <2> QED  BY <1>2, <1>3, <2>2, <2>3
<1>7. ASSUME UNCHANGED query1
      PROVE  Answers(0, query1[0])' = Answers(0, query1[0]) /\ Answers(1, query1[1])' = Answers(1, query1[1])
  BY <1>1, <1>7 DEF Answers, Sum
<1>8. CASE GenerateLeftReply
  <2>1. QueriesInv'
    BY <1>2, <1>8 DEF GenerateLeftReply, QueriesInv, Arrived
  <2>2. RepliesInv'
    BY <1>7, <1>8 DEF GenerateLeftReply, RepliesInv, Party
  <2> QED  BY <1>2, <1>3, <2>1, <2>2
<1>9. CASE GenerateRightReply
  <2>1. QueriesInv'
    BY <1>2, <1>9 DEF GenerateRightReply, QueriesInv, Arrived
  <2>2. RepliesInv'
    BY <1>7, <1>9 DEF GenerateRightReply, RepliesInv, Party
  <2> QED  BY <1>2, <1>3, <2>1, <2>2
<1>10. CASE SerializeReply
  <2>1. QueriesInv'
    BY <1>2, <1>10 DEF SerializeReply, QueriesInv, Arrived
  <2>2. RepliesInv'
    BY <1>7, <1>10 DEF SerializeReply, RepliesInv
  <2> QED  BY <1>2, <1>3, <2>1, <2>2
<1>11. CASE DeserializeReply
  <2>1. QueriesInv'
    BY <1>2, <1>11 DEF DeserializeReply, QueriesInv, Arrived
  <2>2. RepliesInv'
    BY <1>7, <1>11 DEF DeserializeReply, RepliesInv
  <2> QED  BY <1>2, <1>3, <2>1, <2>2
<1>12. CASE Recover
  <2>1. QueriesInv'
    BY <1>2, <1>12 DEF Recover, QueriesInv, Arrived
  <2>2. RepliesInv'
    BY <1>7, <1>12 DEF Recover, RepliesInv
  <2> QED  BY <1>2, <1>3, <2>1, <2>2
<1>13. CASE UNCHANGED retrievalvars
  <2>1. QueriesInv'
    BY <1>2, <1>13 DEF retrievalvars, QueriesInv, Arrived
  <2>2. RepliesInv'
    BY <1>7, <1>13 DEF retrievalvars, RepliesInv
  <2> QED  BY <1>2, <1>3, <2>1, <2>2
<1> QED  BY <1>4, <1>5, <1>6, <1>8, <1>9, <1>10, <1>11, <1>12, <1>13 DEF RetrievalNext

\* What happened between two calls of a retrieval is what the calls say.
THEOREM RetrievalInvariant == RetrievalSpec => []RetrievalInv
<1>1. RetrievalInv /\ UNCHANGED retrievalvars => RetrievalInv'
  BY NextRetrieval
<1> QED  BY InitRetrieval, NextRetrieval, PTL DEF RetrievalSpec

LEMMA CutAlike == RetrievalInv => KeysAreCutAlike
<1> DEFINE lost == Lost(Key(0))
           Cut(p, m) == LET k == query[p] IN
                        /\ query1[p] = SubSeq(k, 1, Len(k) - m)
                        /\ m > 0 => k[Len(k) - m + 1] = 255
                        /\ \A j \in Len(k) - (Len(k) % 4) + 1 .. Len(k) - m : k[j] # 255
           Whole(p) == \A j \in BesidePadding(query[p]) : query[p][j] # 255
<1> SUFFICES ASSUME RetrievalInv, Arrived
             PROVE  /\ query1 = query <=> \A p \in Party : Whole(p)
                    /\ \E m \in 0 .. 3 : \A p \in Party : Cut(p, m)
  BY DEF KeysAreCutAlike
<1>1. FixedInv /\ 0 \in Party
  BY DEF RetrievalInv, Party
<1>2. query = [p \in Party |-> Key(p)] /\ query1 = [p \in Party |-> Unpacked(Packed(Key(p)))]
  BY DEF RetrievalInv, QueriesInv, Arrived
<1>3. lost \in 0 .. 3
  BY <1>1, KeysLoseTheSame
<1>4. ASSUME NEW p \in Party
      PROVE  /\ Cut(p, lost)
             /\ query1[p] = query[p] <=> lost = 0
             /\ Whole(p) <=> lost = 0
  <2>1. PICK k \in Seq(Byte) : k = Key(p)
    BY <1>1, KeyShape
  <2>2. Lost(k) = lost
    BY <1>1, <2>1, KeysLoseTheSame
  <2>3. query[p] = k /\ query1[p] = Unpacked(Packed(k))
    BY <1>2, <2>1
  <2>4. /\ Unpacked(Packed(k)) = SubSeq(k, 1, Len(k) - Lost(k))
        /\ Lost(k) > 0 => k[Len(k) - Lost(k) + 1] = 255
        /\ \A j \in Len(k) - (Len(k) % 4) + 1 .. Len(k) - Lost(k) : k[j] # 255
        /\ Lost(k) \in 0 .. Len(k) % 4
    BY UnpackedPacked
  <2> HIDE DEF lost
  <2>5. /\ Unpacked(Packed(k)) = SubSeq(k, 1, Len(k) - lost)
        /\ lost > 0 => k[Len(k) - lost + 1] = 255
        /\ \A j \in Len(k) - (Len(k) % 4) + 1 .. Len(k) - lost : k[j] # 255
        /\ lost \in 0 .. Len(k) % 4
    BY <2>2, <2>4
  <2>6. PICK n \in Nat, r \in 0 .. 3 : n = Len(k) /\ r = Len(k) % 4 /\ r <= n /\ lost \in 0 .. r /\ n >= 4
    <3>1. PICK m \in Nat : m = Len(k) /\ m >= 87
      BY <1>1, <2>1, LeafIsThere, KeysLoseTheSame
    <3>2. PICK q \in Nat, r \in 0 .. 3 : q = m \div 4 /\ r = m % 4 /\ m = (4 * q) + r
      BY <3>1, DivMod4
    <3>3. lost \in 0 .. r /\ r <= m /\ m >= 4 /\ r = Len(k) % 4
      BY <2>5, <3>1, <3>2
    <3> QED  BY <3>1, <3>3
  <2>7. SubSeq(k, 1, n - lost) = k <=> lost = 0
    <3>1. CASE lost = 0
      <4>1. SubSeq(k, 1, Len(k)) = k
        BY <2>6
      <4> QED  BY <2>6, <3>1, <4>1
    <3>2. CASE lost > 0
      <4>1. n - lost \in Nat /\ n - lost < n /\ n - lost >= 1
        BY <2>6, <3>2
      <4>2. Len(SubSeq(k, 1, n - lost)) = n - lost
        BY <2>6, <4>1
      <4> QED  BY <2>6, <3>2, <4>1, <4>2
    <3> QED  BY <2>6, <3>1, <3>2
  <2>8. (\A j \in n - r + 1 .. n : k[j] # 255) <=> lost = 0
    <3>1. CASE lost = 0
      BY <2>5, <2>6, <3>1
    <3>2. CASE lost > 0
      <4>1. n - lost + 1 \in n - r + 1 .. n
        BY <2>6, <3>2
      <4> QED  BY <2>5, <2>6, <3>2, <4>1
    <3> QED  BY <2>6, <3>1, <3>2
  <2>9. Whole(p) <=> \A j \in n - r + 1 .. n : k[j] # 255
    BY <2>3, <2>6 DEF BesidePadding
  <2>10. query1[p] = SubSeq(k, 1, n - lost)
    BY <2>3, <2>5, <2>6
  <2> HIDE DEF Whole
  <2>11. (query1[p] = query[p] <=> lost = 0) /\ (Whole(p) <=> lost = 0)
    BY <2>3, <2>7, <2>8, <2>9, <2>10
  <2>12. Cut(p, lost)
    BY <2>3, <2>5
  <2> HIDE DEF Cut
  <2> QED  BY <2>11, <2>12
<1> HIDE DEF lost, Cut, Whole
<1>5. query1 = query <=> \A p \in Party : Whole(p)
  <2>1. query1 = query <=> \A p \in Party : query1[p] = query[p]
    BY <1>2
  <2>2. query1 = query <=> lost = 0
    BY <1>1, <1>4, <2>1, Zenon
  <2>3. (\A p \in Party : Whole(p)) <=> lost = 0
    BY <1>1, <1>4, Zenon
  <2> QED  BY <2>2, <2>3
<1> QED  BY <1>3, <1>4, <1>5

\* For every height, point, final word and filling of the keys: the keys arrive as they
\* were sent exactly when no byte beside the padding is 0xFF, and otherwise both servers
\* miss the same number of bytes, at most three (serial.hpp:245-336).
THEOREM KeysLoseTheSameBytes == RetrievalSpec => []KeysAreCutAlike
BY RetrievalInvariant, CutAlike, PTL

LEMMA ExactAnswer == RetrievalInv => AnswerIsExact
<1> SUFFICES ASSUME RetrievalInv, call = "done"
             PROVE  /\ query1 = query => result = {qry_idx}
                    /\ result = {qry_idx} ## {128 * Leaf(qry_idx) + o : o \in Read ## Final}
  BY DEF AnswerIsExact
<1>1. FixedInv /\ 0 \in Party /\ 1 \in Party
  BY DEF RetrievalInv, Party
<1>2. query = [p \in Party |-> Key(p)] /\ query1 = [p \in Party |-> Unpacked(Packed(Key(p)))]
  BY DEF RetrievalInv, QueriesInv, Arrived
<1>3. BitsOf(FinalWord(query1[1])) = BitsOf(FinalWord(query1[0]))
  BY <1>1, <1>2, FinalWordsAgree
<1>4. Sum(0, query1[0]) ## Sum(1, query1[1]) =
          {qry_idx} ## {128 * Leaf(qry_idx) + o : o \in Read ## Final}
  BY <1>1, <1>3, SumsDiffer DEF Read
<1>5. result = Sum(0, query1[0]) ## Sum(1, query1[1])
  <2>1. PICK n \in Nat : n = WORDS * Repeats /\ n >= 8
    BY DpfPirAssumption DEF WORDS
  <2>2. PICK a, b : a = Sum(0, query1[0]) /\ b = Sum(1, query1[1])
    OBVIOUS
  <2>3. reply[0] = [w \in 1 .. n |-> a] /\ reply[1] = [w \in 1 .. n |-> b]
    BY <2>1, <2>2 DEF RetrievalInv, RepliesInv, Answers
  <2>4. PICK f \in [1 .. n -> {a, b}], g \in [1 .. n -> {a, b}] :
            f = reply[0] /\ g = reply[1] /\ f[1] = a /\ g[1] = b
    BY <2>1, <2>3
  <2>5. f \in Seq({a, b}) /\ Len(f) = n /\ g \in Seq({a, b}) /\ Len(g) = n
    BY FunctionIsSeq
  <2>6. /\ Len(f \o g) = Len(f) + Len(g)
        /\ \A w \in 1 .. Len(f) + Len(g) : (f \o g)[w] = IF w <= Len(f) THEN f[w] ELSE g[w - Len(f)]
    BY <2>5, ConcatProperties
  <2>7. (f \o g)[1] = a /\ (f \o g)[n + 1] = b
    <3>1. 1 \in 1 .. Len(f) + Len(g) /\ n + 1 \in 1 .. Len(f) + Len(g) /\ (n + 1) - Len(f) = 1
          /\ 1 <= Len(f) /\ ~(n + 1 <= Len(f))
      BY <2>1, <2>5
    <3> QED  BY <2>4, <2>6, <3>1
  <2>8. msg = f \o g
    BY <2>4 DEF RetrievalInv, RepliesInv
  <2>9. Len(msg) \div 2 = n
    BY <2>1, <2>5, <2>6, <2>8
  <2>10. lr = [p \in Party |-> [w \in 1 .. n |-> msg[p * n + w]]]
    BY <2>9 DEF RetrievalInv, RepliesInv
  <2>11. lr[0][1] = msg[0 * n + 1] /\ lr[1][1] = msg[1 * n + 1]
    BY <1>1, <2>1, <2>10
  <2>12. 0 * n + 1 = 1 /\ 1 * n + 1 = n + 1
    OBVIOUS
  <2>13. lr[0][1] = a /\ lr[1][1] = b
    BY <2>7, <2>8, <2>11, <2>12
  <2> QED  BY <2>2, <2>13 DEF RetrievalInv, RepliesInv
<1>6. query1 = query => result = {qry_idx}
  <2> SUFFICES ASSUME query1 = query
               PROVE  result = {qry_idx}
    OBVIOUS
  <2>1. query1[0] = Key(0)
    BY <1>1, <1>2
  <2>2. Read = Final
    BY <1>1, <2>1, FinalWordsAgree, LeafIsThere, BytesKeepBits DEF Read
  <2>3. {128 * Leaf(qry_idx) + o : o \in Read ## Final} = {}
    BY <2>2 DEF ##
  <2> QED  BY <1>4, <1>5, <2>3 DEF ##
<1> QED  BY <1>4, <1>5, <1>6

\* For every height, point, final word and filling of the keys: what the client
\* recovers is the record that it asked for, unless its keys were cut, and then differs
\* from it by records of one leaf only.
THEOREM RetrievalIsExact == RetrievalSpec => []AnswerIsExact
BY RetrievalInvariant, ExactAnswer, PTL
=============================================================================
