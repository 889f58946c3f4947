------------------------------- MODULE Adprp --------------------------------
(***************************************************************************)
(* The small-domain permutation of adprp.cpp: cycle_walk, then             *)
(* inv_cycle_walk on its result, under one key.  A step is one round of    *)
(* the Feistel network, or one turn of the loop around it.                 *)
(*                                                                         *)
(* A block is the set of the positions of its 1 bits: shifts move          *)
(* positions, masks cut them off, exclusive or is symmetric difference.    *)
(* For an odd block length the halves differ in length, and they trade     *)
(* their lengths in every round.                                           *)
(***************************************************************************)
EXTENDS Integers, FiniteSets, FiniteSetsExt

CONSTANTS Key,        \* keys
          ROUNDS,     \* rounds of the network (7 in adprp.hpp)
          MaxRange,   \* bound: the largest range
          RoundFunc   \* RoundFunc[key][tweak][block]: what AES makes of the block

ASSUME RoundsAssumption == ROUNDS \in Nat \ {0} /\ MaxRange \in Nat

Bits(len) == 0 .. len - 1
Value(b)  == MapThenSumSet(LAMBDA x : 2 ^ x, b)

VARIABLES range, key, num,   \* the arguments of cycle_walk
          cnt,               \* log2(range) + 1: the length of the blocks
          pc,                \* the function that runs, or how it ended
          tmp,               \* the block in the loops
          i,                 \* the loop counter of the network
          w, back,           \* history: the last call of feistel_prp, calls undone
          trail              \* history: trail[<<v, j>>] is the block before round j of call v

args    == <<range, key, num, cnt>>
history == <<w, back, trail>>
vars    == <<args, pc, tmp, i, history>>

Short == cnt \div 2
Long  == cnt - Short

Xor(a, b)    == (a \ b) \cup (b \ a)
Low(b, len)  == b \cap Bits(len)
High(b, len) == {x - len : x \in b \ Bits(len)}     \* b >> len
Concat(left, len, right) == {x + len : x \in left} \cup right   \* (left << len) | right

round_func(block, tweak) == RoundFunc[key][tweak][block] \cap Bits(Short)

\* (mutant) The new left half is shifted by the length of the old right one.
RoundShiftsTooFar(b, tweak) ==
    LET left  == High(b, Long)
        right == Low(b, Long)
    IN Concat(right, Long, Xor(left, round_func(right, tweak)))

\* One iteration of feistel_prp and of feistel_inv_prp.
Round(b, tweak) ==
    LET left  == High(b, Long)
        right == Low(b, Long)
    IN Concat(right, Short, Xor(left, round_func(right, tweak)))

InvRound(b, tweak) ==
    LET left  == High(b, Short)
        right == Low(b, Short)
    IN Concat(Xor(right, round_func(left, tweak)), Long, left)

Init ==
    /\ range \in 1 .. MaxRange /\ key \in Key
    /\ cnt \in {n \in 1 .. range : 2 ^ (n - 1) <= range /\ range < 2 ^ n}
    /\ num \in SUBSET Bits(cnt)
    /\ pc = "call"
    /\ tmp = {} /\ i = 0
    /\ w = 0 /\ back = 0 /\ trail = << >>

InRange(b) == Value(b) < range

\* num >= range: invalid_argument.
Throw ==
    /\ pc = "call" /\ ~ InRange(num)
    /\ pc' = "thrown"
    /\ UNCHANGED <<args, tmp, i, history>>

Walk ==
    /\ pc = "call" /\ InRange(num)
    /\ pc' = "walk" /\ tmp' = num
    /\ UNCHANGED <<args, i, history>>

Record(p, b) == [q \in DOMAIN trail \cup {p} |-> IF q = p THEN b ELSE trail[q]]

FeistelRound ==
    /\ pc = "walk" /\ i < ROUNDS
    /\ tmp' = Round(tmp, i + 1)
    /\ trail' = Record(<<w, i>>, tmp)
    /\ i' = i + 1
    /\ UNCHANGED <<args, pc, w, back>>

\* (mutant) The loop starts again from the argument.
WalkOnFromArgument ==
    /\ pc = "walk" /\ i = ROUNDS /\ ~ InRange(tmp)
    /\ i' = 0 /\ tmp' = num
    /\ UNCHANGED <<args, pc, w, back, trail>>

WalkOn ==
    /\ pc = "walk" /\ i = ROUNDS /\ ~ InRange(tmp)
    /\ i' = 0 /\ w' = w + 1
    /\ UNCHANGED <<args, pc, tmp, back, trail>>

\* cycle_walk returns, inv_cycle_walk is called on the result.
Turn ==
    /\ pc = "walk" /\ i = ROUNDS /\ InRange(tmp)
    /\ pc' = "inv" /\ i' = 0
    /\ UNCHANGED <<args, tmp, history>>

\* (mutant) The rounds are undone in the order in which they were made.
FeistelInvRoundSameOrder ==
    /\ pc = "inv" /\ i < ROUNDS
    /\ tmp' = InvRound(tmp, i + 1)
    /\ i' = i + 1
    /\ UNCHANGED <<args, pc, history>>

FeistelInvRound ==
    /\ pc = "inv" /\ i < ROUNDS
    /\ tmp' = InvRound(tmp, ROUNDS - i)
    /\ i' = i + 1
    /\ UNCHANGED <<args, pc, history>>

InvWalkOn ==
    /\ pc = "inv" /\ i = ROUNDS /\ ~ InRange(tmp)
    /\ i' = 0 /\ back' = back + 1
    /\ UNCHANGED <<args, pc, tmp, w, trail>>

InvReturn ==
    /\ pc = "inv" /\ i = ROUNDS /\ InRange(tmp)
    /\ pc' = "done"
    /\ UNCHANGED <<args, tmp, i, history>>

Next == \/ Throw \/ Walk \/ FeistelRound \/ WalkOn \/ Turn
        \/ FeistelInvRound \/ InvWalkOn \/ InvReturn

Spec == Init /\ [][Next]_vars /\ WF_vars(Next)
-----------------------------------------------------------------------------
(* Properties *)

\* The blocks of both networks keep their length, which for an odd length neither of the
\* two splits does by itself.
TypeOK ==
    /\ range \in 1 .. MaxRange /\ key \in Key
    /\ num \subseteq Bits(cnt) /\ tmp \subseteq Bits(cnt)
    /\ pc \in {"call", "walk", "inv", "done", "thrown"}
    /\ cnt \in 1 .. range
    /\ i \in 0 .. ROUNDS /\ w \in Nat /\ back \in 0 .. w
    /\ \A p \in DOMAIN trail : trail[p] \subseteq Bits(cnt)

\* The block after the last round of call v of feistel_prp.
Result(v) == Round(trail[<<v, ROUNDS - 1>>], ROUNDS)

\* What feistel_prp has computed up to round m of call n is in the trail; all calls but
\* the first began out of range.
Chain(n, m) ==
    /\ DOMAIN trail = {p \in (0 .. n) \X (0 .. ROUNDS - 1) : p[1] < n \/ p[2] < m}
    /\ \A v \in 0 .. n, j \in 1 .. ROUNDS - 1 :
          v < n \/ j < m => trail[<<v, j>>] = Round(trail[<<v, j - 1>>], j)
    /\ \A v \in 0 .. n :
          v < n \/ 0 < m => IF v = 0 THEN trail[<<v, 0>>] = num
                            ELSE trail[<<v, 0>>] = Result(v - 1) /\ ~ InRange(trail[<<v, 0>>])

\* inv_cycle_walk goes through the blocks of cycle_walk in reverse order, round by round,
\* and through no other; it stops where cycle_walk began.
Retraces ==
    /\ pc = "call" => w = 0 /\ i = 0 /\ trail = << >>
    /\ pc \in {"call", "walk"} => back = 0
    /\ pc # "call" => pc = "thrown" \/ InRange(num)
    /\ pc = "walk" =>
          /\ Chain(w, i)
          /\ i > 0 => tmp = Round(trail[<<w, i - 1>>], i)
          /\ i = 0 => IF w = 0 THEN tmp = num ELSE tmp = Result(w - 1) /\ ~ InRange(tmp)
    /\ pc = "inv" =>
          /\ Chain(w, ROUNDS)
          /\ tmp = IF i = 0 THEN Result(w - back) ELSE trail[<<w - back, ROUNDS - i>>]
    /\ pc = "done" => tmp = num

\* The inverse that the client searches with undoes the permutation that it and the server
\* expand with: inv_cycle_walk(cycle_walk(num)) = num, for every range and key.
RoundTrip == pc = "done" => tmp = num

\* Both loops end: the walk through blocks out of range comes back into it.
Returns == <>(pc \in {"done", "thrown"})
=============================================================================
