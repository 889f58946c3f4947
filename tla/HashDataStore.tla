---------------------------- MODULE HashDataStore ----------------------------
(***************************************************************************)
(* The answer of a DPF-PIR server (baselines/dpf-pir/hashdatastore.cpp):   *)
(* the exclusive or of the records that the bits of the indexing select,   *)
(* eight records and one byte at a time into eight accumulators, in five   *)
(* versions and a sixth that only measures speed.  Two servers answer for  *)
(* indexings that differ in one bit, as Dpf shows of what they evaluate.   *)
(*                                                                         *)
(* Records are symbolic: record i is {i}, exclusive or is the symmetric    *)
(* difference.  The switch of answer_pir4 and the table of answer_pir5 are *)
(* written out case by case in the code, and so they are here.             *)
(***************************************************************************)
EXTENDS Bytes, Sequences

CONSTANTS Fns,        \* the versions of answer_pir that the servers call
          Sizes,      \* how many records a store may have
          Indexings   \* what a server may have evaluated, as bytes from 0

Server == {0, 1}

ASSUME StoreAssumption ==
    /\ Sizes \subseteq Nat \ {0}
    /\ Fns \subseteq {"pir1", "pir2", "pir3", "pir4", "pir5", "idea_speed_comparison"}
    /\ \A x \in Indexings : x \in [DOMAIN x -> Byte]

VARIABLES
    size,      \* data_.size()
    alpha,     \* the record that the client asks for
    fn,        \* the version that both servers run
    indexing,  \* indexing[p]: the bytes that server p evaluated
    pc,        \* where the call of server p is
    i,         \* its loop counter
    results,   \* its accumulators; only pir1 uses the element 0 of each
    answer     \* what it returned

vars == <<size, alpha, fn, indexing, pc, i, results, answer>>

Flipped(v, k) == IF Bit(v, k) = 1 THEN v - 2^k ELSE v + 2^k

Init ==
    /\ size \in Sizes /\ fn \in Fns
    /\ alpha \in 0 .. size - 1
    /\ \E x \in Indexings :
          /\ DOMAIN x = 0 .. (size - 1) \div 8
          /\ indexing = [p \in Server |->
                IF p = 0 THEN x
                ELSE [x EXCEPT ![alpha \div 8] = Flipped(@, alpha % 8)]]
          /\ indexing \in [Server -> [DOMAIN x -> Byte]]
    /\ pc = [p \in Server |-> "called"]
    /\ i = [p \in Server |-> 0]
    /\ results = [p \in Server |-> [k \in Lane |-> [b \in {0, 1} |-> {}]]]
    /\ answer = [p \in Server |-> {}]

-----------------------------------------------------------------------------
(* The switch of answer_pir4: which accumulators each of its cases adds to  *)

Cases0 ==
    <<{}, {0}, {1}, {0,1}, {2}, {0,2}, {1,2}, {0,1,2}, {3}, {0,3}, {1,3},
      {0,1,3}, {2,3}, {0,2,3}, {1,2,3}, {0,1,2,3}>>

Cases16 ==
    <<{4}, {0,4}, {1,4}, {0,1,4}, {2,4}, {0,2,4}, {1,2,4}, {0,1,2,4}, {3,4},
      {0,3,4}, {1,3,4}, {0,1,3,4}, {2,3,4}, {0,2,3,4}, {1,2,3,4}, {0,1,2,3,4}>>

Cases32 ==
    <<{5}, {0,5}, {1,5}, {0,1,5}, {2,5}, {0,2,5}, {1,2,5}, {0,1,2,5}, {3,5},
      {0,3,5}, {1,3,5}, {0,1,3,5}, {2,3,5}, {0,2,3,5}, {1,2,3,5}, {0,1,2,3,5}>>

Cases48 ==
    <<{4,5}, {0,4,5}, {1,4,5}, {0,1,4,5}, {2,4,5}, {0,2,4,5}, {1,2,4,5},
      {0,1,2,4,5}, {3,4,5}, {0,3,4,5}, {1,3,4,5}, {0,1,3,4,5}, {2,3,4,5},
      {0,2,3,4,5}, {1,2,3,4,5}, {0,1,2,3,4,5}>>

Cases64 ==
    <<{6}, {0,6}, {1,6}, {0,1,6}, {2,6}, {0,2,6}, {1,2,6}, {0,1,2,6}, {3,6},
      {0,3,6}, {1,3,6}, {0,1,3,6}, {2,3,6}, {0,2,3,6}, {1,2,3,6}, {0,1,2,3,6}>>

Cases80 ==
    <<{4,6}, {0,4,6}, {1,4,6}, {0,1,4,6}, {2,4,6}, {0,2,4,6}, {1,2,4,6},
      {0,1,2,4,6}, {3,4,6}, {0,3,4,6}, {1,3,4,6}, {0,1,3,4,6}, {2,3,4,6},
      {0,2,3,4,6}, {1,2,3,4,6}, {0,1,2,3,4,6}>>

Cases96 ==
    <<{5,6}, {0,5,6}, {1,5,6}, {0,1,5,6}, {2,5,6}, {0,2,5,6}, {1,2,5,6},
      {0,1,2,5,6}, {3,5,6}, {0,3,5,6}, {1,3,5,6}, {0,1,3,5,6}, {2,3,5,6},
      {0,2,3,5,6}, {1,2,3,5,6}, {0,1,2,3,5,6}>>

Cases112 ==
    <<{4,5,6}, {0,4,5,6}, {1,4,5,6}, {0,1,4,5,6}, {2,4,5,6}, {0,2,4,5,6},
      {1,2,4,5,6}, {0,1,2,4,5,6}, {3,4,5,6}, {0,3,4,5,6}, {1,3,4,5,6},
      {0,1,3,4,5,6}, {2,3,4,5,6}, {0,2,3,4,5,6}, {1,2,3,4,5,6}, {0,1,2,3,4,5,6}>>

Cases128 ==
    <<{7}, {0,7}, {1,7}, {0,1,7}, {2,7}, {0,2,7}, {1,2,7}, {0,1,2,7}, {3,7},
      {0,3,7}, {1,3,7}, {0,1,3,7}, {2,3,7}, {0,2,3,7}, {1,2,3,7}, {0,1,2,3,7}>>

Cases144 ==
    <<{4,7}, {0,4,7}, {1,4,7}, {0,1,4,7}, {2,4,7}, {0,2,4,7}, {1,2,4,7},
      {0,1,2,4,7}, {3,4,7}, {0,3,4,7}, {1,3,4,7}, {0,1,3,4,7}, {2,3,4,7},
      {0,2,3,4,7}, {1,2,3,4,7}, {0,1,2,3,4,7}>>

Cases160 ==
    <<{5,7}, {0,5,7}, {1,5,7}, {0,1,5,7}, {2,5,7}, {0,2,5,7}, {1,2,5,7},
      {0,1,2,5,7}, {3,5,7}, {0,3,5,7}, {1,3,5,7}, {0,1,3,5,7}, {2,3,5,7},
      {0,2,3,5,7}, {1,2,3,5,7}, {0,1,2,3,5,7}>>

Cases176 ==
    <<{4,5,7}, {0,4,5,7}, {1,4,5,7}, {0,1,4,5,7}, {2,4,5,7}, {0,2,4,5,7},
      {1,2,4,5,7}, {0,1,2,4,5,7}, {3,4,5,7}, {0,3,4,5,7}, {1,3,4,5,7},
      {0,1,3,4,5,7}, {2,3,4,5,7}, {0,2,3,4,5,7}, {1,2,3,4,5,7}, {0,1,2,3,4,5,7}>>

Cases192 ==
    <<{6,7}, {0,6,7}, {1,6,7}, {0,1,6,7}, {2,6,7}, {0,2,6,7}, {1,2,6,7},
      {0,1,2,6,7}, {3,6,7}, {0,3,6,7}, {1,3,6,7}, {0,1,3,6,7}, {2,3,6,7},
      {0,2,3,6,7}, {1,2,3,6,7}, {0,1,2,3,6,7}>>

Cases208 ==
    <<{4,6,7}, {0,4,6,7}, {1,4,6,7}, {0,1,4,6,7}, {2,4,6,7}, {0,2,4,6,7},
      {1,2,4,6,7}, {0,1,2,4,6,7}, {3,4,6,7}, {0,3,4,6,7}, {1,3,4,6,7},
      {0,1,3,4,6,7}, {2,3,4,6,7}, {0,2,3,4,6,7}, {1,2,3,4,6,7}, {0,1,2,3,4,6,7}>>

Cases224 ==
    <<{5,6,7}, {0,5,6,7}, {1,5,6,7}, {0,1,5,6,7}, {2,5,6,7}, {0,2,5,6,7},
      {1,2,5,6,7}, {0,1,2,5,6,7}, {3,5,6,7}, {0,3,5,6,7}, {1,3,5,6,7},
      {0,1,3,5,6,7}, {2,3,5,6,7}, {0,2,3,5,6,7}, {1,2,3,5,6,7}, {0,1,2,3,5,6,7}>>

Cases240 ==
    <<{4,5,6,7}, {0,4,5,6,7}, {1,4,5,6,7}, {0,1,4,5,6,7}, {2,4,5,6,7},
      {0,2,4,5,6,7}, {1,2,4,5,6,7}, {0,1,2,4,5,6,7}, {3,4,5,6,7}, {0,3,4,5,6,7},
      {1,3,4,5,6,7}, {0,1,3,4,5,6,7}, {2,3,4,5,6,7}, {0,2,3,4,5,6,7},
      {1,2,3,4,5,6,7}, {0,1,2,3,4,5,6,7}>>

Cases == << Cases0, Cases16, Cases32, Cases48, Cases64, Cases80, Cases96,
      Cases112, Cases128, Cases144, Cases160, Cases176, Cases192, Cases208,
      Cases224, Cases240 >>

Switch(v) == Cases[(v \div 16) + 1][(v % 16) + 1]

-----------------------------------------------------------------------------
(* precomputed_masks: where the row of a byte is 0xFF                       *)

MasksLow ==
    <<{}, {0}, {1}, {0,1}, {2}, {0,2}, {1,2}, {0,1,2}, {3}, {0,3}, {1,3}, {0,1,3},
      {2,3}, {0,2,3}, {1,2,3}, {0,1,2,3}, {4}, {0,4}, {1,4}, {0,1,4}, {2,4}, {0,2,4},
      {1,2,4}, {0,1,2,4}, {3,4}, {0,3,4}, {1,3,4}, {0,1,3,4}, {2,3,4}, {0,2,3,4},
      {1,2,3,4}, {0,1,2,3,4}, {5}, {0,5}, {1,5}, {0,1,5}, {2,5}, {0,2,5}, {1,2,5},
      {0,1,2,5}, {3,5}, {0,3,5}, {1,3,5}, {0,1,3,5}, {2,3,5}, {0,2,3,5}, {1,2,3,5},
      {0,1,2,3,5}, {4,5}, {0,4,5}, {1,4,5}, {0,1,4,5}, {2,4,5}, {0,2,4,5}, {1,2,4,5},
      {0,1,2,4,5}, {3,4,5}, {0,3,4,5}, {1,3,4,5}, {0,1,3,4,5}, {2,3,4,5}, {0,2,3,4,5},
      {1,2,3,4,5}, {0,1,2,3,4,5}, {6}, {0,6}, {1,6}, {0,1,6}, {2,6}, {0,2,6}, {1,2,6},
      {0,1,2,6}, {3,6}, {0,3,6}, {1,3,6}, {0,1,3,6}, {2,3,6}, {0,2,3,6}, {1,2,3,6},
      {0,1,2,3,6}, {4,6}, {0,4,6}, {1,4,6}, {0,1,4,6}, {2,4,6}, {0,2,4,6}, {1,2,4,6},
      {0,1,2,4,6}, {3,4,6}, {0,3,4,6}, {1,3,4,6}, {0,1,3,4,6}, {2,3,4,6}, {0,2,3,4,6},
      {1,2,3,4,6}, {0,1,2,3,4,6}, {5,6}, {0,5,6}, {1,5,6}, {0,1,5,6}, {2,5,6},
      {0,2,5,6}, {1,2,5,6}, {0,1,2,5,6}, {3,5,6}, {0,3,5,6}, {1,3,5,6}, {0,1,3,5,6},
      {2,3,5,6}, {0,2,3,5,6}, {1,2,3,5,6}, {0,1,2,3,5,6}, {4,5,6}, {0,4,5,6},
      {1,4,5,6}, {0,1,4,5,6}, {2,4,5,6}, {0,2,4,5,6}, {1,2,4,5,6}, {0,1,2,4,5,6},
      {3,4,5,6}, {0,3,4,5,6}, {1,3,4,5,6}, {0,1,3,4,5,6}, {2,3,4,5,6}, {0,2,3,4,5,6},
      {1,2,3,4,5,6}, {0,1,2,3,4,5,6}>>

MasksHigh ==
    <<{7}, {0,7}, {1,7}, {0,1,7}, {2,7}, {0,2,7}, {1,2,7}, {0,1,2,7}, {3,7}, {0,3,7},
      {1,3,7}, {0,1,3,7}, {2,3,7}, {0,2,3,7}, {1,2,3,7}, {0,1,2,3,7}, {4,7}, {0,4,7},
      {1,4,7}, {0,1,4,7}, {2,4,7}, {0,2,4,7}, {1,2,4,7}, {0,1,2,4,7}, {3,4,7},
      {0,3,4,7}, {1,3,4,7}, {0,1,3,4,7}, {2,3,4,7}, {0,2,3,4,7}, {1,2,3,4,7},
      {0,1,2,3,4,7}, {5,7}, {0,5,7}, {1,5,7}, {0,1,5,7}, {2,5,7}, {0,2,5,7},
      {1,2,5,7}, {0,1,2,5,7}, {3,5,7}, {0,3,5,7}, {1,3,5,7}, {0,1,3,5,7}, {2,3,5,7},
      {0,2,3,5,7}, {1,2,3,5,7}, {0,1,2,3,5,7}, {4,5,7}, {0,4,5,7}, {1,4,5,7},
      {0,1,4,5,7}, {2,4,5,7}, {0,2,4,5,7}, {1,2,4,5,7}, {0,1,2,4,5,7}, {3,4,5,7},
      {0,3,4,5,7}, {1,3,4,5,7}, {0,1,3,4,5,7}, {2,3,4,5,7}, {0,2,3,4,5,7},
      {1,2,3,4,5,7}, {0,1,2,3,4,5,7}, {6,7}, {0,6,7}, {1,6,7}, {0,1,6,7}, {2,6,7},
      {0,2,6,7}, {1,2,6,7}, {0,1,2,6,7}, {3,6,7}, {0,3,6,7}, {1,3,6,7}, {0,1,3,6,7},
      {2,3,6,7}, {0,2,3,6,7}, {1,2,3,6,7}, {0,1,2,3,6,7}, {4,6,7}, {0,4,6,7},
      {1,4,6,7}, {0,1,4,6,7}, {2,4,6,7}, {0,2,4,6,7}, {1,2,4,6,7}, {0,1,2,4,6,7},
      {3,4,6,7}, {0,3,4,6,7}, {1,3,4,6,7}, {0,1,3,4,6,7}, {2,3,4,6,7}, {0,2,3,4,6,7},
      {1,2,3,4,6,7}, {0,1,2,3,4,6,7}, {5,6,7}, {0,5,6,7}, {1,5,6,7}, {0,1,5,6,7},
      {2,5,6,7}, {0,2,5,6,7}, {1,2,5,6,7}, {0,1,2,5,6,7}, {3,5,6,7}, {0,3,5,6,7},
      {1,3,5,6,7}, {0,1,3,5,6,7}, {2,3,5,6,7}, {0,2,3,5,6,7}, {1,2,3,5,6,7},
      {0,1,2,3,5,6,7}, {4,5,6,7}, {0,4,5,6,7}, {1,4,5,6,7}, {0,1,4,5,6,7},
      {2,4,5,6,7}, {0,2,4,5,6,7}, {1,2,4,5,6,7}, {0,1,2,4,5,6,7}, {3,4,5,6,7},
      {0,3,4,5,6,7}, {1,3,4,5,6,7}, {0,1,3,4,5,6,7}, {2,3,4,5,6,7}, {0,2,3,4,5,6,7},
      {1,2,3,4,5,6,7}, {0,1,2,3,4,5,6,7}>>

Masks(v) == IF v < 128 THEN MasksLow[v + 1] ELSE MasksHigh[v - 127]

\* The two tables are right: a row says of every bit of its byte whether it is set.
ASSUME TablesAreRight ==
    \A v \in Byte : \A k \in Lane :
        /\ k \in Switch(v) <=> Bit(v, k) = 1
        /\ k \in Masks(v) <=> Bit(v, k) = 1

-----------------------------------------------------------------------------
(* One iteration: r are the accumulators, v is the byte at i \div 8         *)

Add(r, k, x) == [r[k] EXCEPT ![1] = @ ## x]

\* (mutant) Both elements are made from the element 0.
Pir1FromZero(r, v, at) ==
    [k \in Lane |-> [r[k] EXCEPT ![Bit(v, k)] = r[k][0] ## {at + k}]]

\* The bit chooses which element is written; both are made from the element 1.
Pir1(r, v, at) ==
    [k \in Lane |-> [r[k] EXCEPT ![Bit(v, k)] = r[k][1] ## {at + k}]]

Pir2(r, v, at) ==
    [k \in Lane |-> Add(r, k, IF Bit(v, k) = 1 THEN {at + k} ELSE {})]

\* The byte is the top one of each quadword, 7 and 15 of a lane, and a shift by one
\* moves the bytes of the lane up by one place: after k of them byte 15, whose top bit
\* is the mask, holds what was byte 15 - k.  (So does byte 7 with byte 7 - k.)
MaskAfterShifts(v, k) == IF 15 - k \in {7, 15} THEN Bit(v, 7) ELSE 0

Pir3(r, v, at) ==
    [k \in Lane |-> Add(r, k, IF MaskAfterShifts(v, k) = 1 THEN {at + 7 - k} ELSE {})]

Pir4(r, v, at) ==
    [k \in Lane |-> Add(r, k, IF k \in Switch(v) THEN {at + k} ELSE {})]

Pir5(r, v, at) ==
    [k \in Lane |-> Add(r, k, IF k \in Masks(v) THEN {at + k} ELSE {})]

IdeaSpeedComparison(r, v, at) == [k \in Lane |-> Add(r, k, {at + k})]

Step(r, v, at) ==
    CASE fn = "pir1" -> Pir1(r, v, at)
      [] fn = "pir2" -> Pir2(r, v, at)
      [] fn = "pir3" -> Pir3(r, v, at)
      [] fn = "pir4" -> Pir4(r, v, at)
      [] fn = "pir5" -> Pir5(r, v, at)
      [] fn = "idea_speed_comparison" -> IdeaSpeedComparison(r, v, at)

\* (mutant) The last accumulator is forgotten.
FoldSeven(r) ==
    (((((r[0][1] ## r[1][1]) ## r[2][1]) ## r[3][1]) ## r[4][1]) ## r[5][1]) ## r[6][1]

\* The accumulators are folded in order.
Fold(r) ==
    ((((((r[0][1] ## r[1][1]) ## r[2][1]) ## r[3][1]) ## r[4][1]) ## r[5][1]) ## r[6][1]) ## r[7][1]

-----------------------------------------------------------------------------
(* The call                                                                 *)

\* assert(data_.size() % 8 == 0)
AssertFails(p) ==
    /\ pc[p] = "called" /\ size % 8 # 0
    /\ pc' = [pc EXCEPT ![p] = "aborted"]
    /\ UNCHANGED <<size, alpha, fn, indexing, i, results, answer>>

AssertHolds(p) ==
    /\ pc[p] = "called" /\ size % 8 = 0
    /\ pc' = [pc EXCEPT ![p] = "loop"]
    /\ UNCHANGED <<size, alpha, fn, indexing, i, results, answer>>

Iterate(p) ==
    /\ pc[p] = "loop" /\ i[p] < size
    /\ results' = [results EXCEPT ![p] = Step(@, indexing[p][i[p] \div 8], i[p])]
    /\ i' = [i EXCEPT ![p] = @ + 8]
    /\ UNCHANGED <<size, alpha, fn, indexing, pc, answer>>

Return(p) ==
    /\ pc[p] = "loop" /\ i[p] >= size
    /\ answer' = [answer EXCEPT ![p] = Fold(results[p])]
    /\ pc' = [pc EXCEPT ![p] = "returned"]
    /\ UNCHANGED <<size, alpha, fn, indexing, i, results>>

Next == \E p \in Server : AssertFails(p) \/ AssertHolds(p) \/ Iterate(p) \/ Return(p)

Spec == Init /\ [][Next]_vars

-----------------------------------------------------------------------------
(* Properties                                                               *)

\* The versions that compute what the comment on top of answer_pir1 says.
Sound == {"pir1", "pir2", "pir4", "pir5"}

Selected(p, j) == Bit(indexing[p][j \div 8], j % 8) = 1

\* The accumulator k holds the selected ones of the records k, k + 8, ... that the
\* loop has passed: what the versions share, whatever they do with a byte
\* (hashdatastore.cpp:282-291, 317-327, 392-3465, 3489-3500).
PartialSums ==
    fn \in Sound =>
        \A p \in Server, k \in Lane : results[p][k][1] =
            {j \in 0 .. size - 1 : j < i[p] /\ j % 8 = k /\ Selected(p, j)}

\* Each of these versions returns the exclusive or of the records
\* whose bits are set, as the comment on top of answer_pir1 has it
\* (hashdatastore.cpp:265-270).
AnswersAreTheSelection ==
    \A p \in Server : (pc[p] = "returned" /\ fn \in Sound) =>
        answer[p] = {j \in 0 .. size - 1 : Selected(p, j)}

\* The same of every version that the store has for it, answer_pir3 included:
\* "if(indexing.isSet(i)) result = _mm256_xor_si256(result, data_[i])", says the comment
\* (hashdatastore.cpp:265-270, 349-379).
EveryVersionSelects ==
    \A p \in Server : (pc[p] = "returned" /\ fn # "idea_speed_comparison") =>
        answer[p] = {j \in 0 .. size - 1 : Selected(p, j)}

\* What a client gets from two servers that run the same version: the record that it
\* asked for; nothing from the speed comparison, which adds every record whatever its
\* bit; and from answer_pir3, whose shifts by bytes leave only the mask of the first of
\* eight turns, the record only if it is the last of its eight
\* (hashdatastore.cpp:349-369, 3524-3533; main.cpp:41-43).
RecordRecovered ==
    (\A p \in Server : pc[p] = "returned") =>
        answer[0] ## answer[1] =
            {j \in {alpha} : fn \in Sound \/ (fn = "pir3" /\ j % 8 = 7)}
=============================================================================
