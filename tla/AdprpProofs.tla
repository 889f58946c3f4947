---------------------------- MODULE AdprpProofs -----------------------------
(***************************************************************************)
(* The two networks of adprp.cpp are inverse to each other, for every key, *)
(* range, number of rounds and round function.                             *)
(***************************************************************************)
EXTENDS Adprp, TLAPS

\* Splitting undoes concatenation.
LEMMA SplitConcat ==
    ASSUME NEW len \in Nat, NEW left \in SUBSET Nat, NEW right \in SUBSET Bits(len)
    PROVE  /\ High(Concat(left, len, right), len) = left
           /\ Low(Concat(left, len, right), len) = right
<1> DEFINE b == Concat(left, len, right)
           S == {x + len : x \in left}
<1>1. \A x \in left : x + len \notin Bits(len) /\ x + len - len = x
  BY DEF Bits
<1>2. \A y \in S : y \notin Bits(len) /\ y - len \in left
  BY <1>1
<1>3. b = S \cup right
  BY DEF Concat
<1>4. \A x \in left : x + len \in S
  OBVIOUS
<1> HIDE DEF S, b
<1>5. b \cap Bits(len) = right /\ b \ Bits(len) = S
  BY <1>2, <1>3
<1>6. High(b, len) = {y - len : y \in S}
  BY <1>5 DEF High
<1>7. {y - len : y \in S} = left
  <2>1. {y - len : y \in S} \subseteq left
    BY <1>2
  <2>2. ASSUME NEW x \in left PROVE x \in {y - len : y \in S}
    <3>1. x + len \in S /\ x = x + len - len
      BY <1>1, <1>4
    <3>2. \E y \in S : x = y - len
      BY <3>1
    <3> QED  BY <3>2
  <2> QED  BY <2>1, <2>2
<1> QED  BY <1>5, <1>6, <1>7 DEF Low, b

\* Concatenation undoes splitting.
LEMMA ConcatSplit ==
    ASSUME NEW len \in Nat, NEW n \in Nat, len <= n, NEW b \in SUBSET Bits(n)
    PROVE  /\ Concat(High(b, len), len, Low(b, len)) = b
           /\ High(b, len) \subseteq Bits(n - len)
           /\ Low(b, len) \subseteq Bits(len)
<1>1. High(b, len) \subseteq Bits(n - len)
  BY DEF High, Bits
<1> DEFINE S == b \ Bits(len)
           H == {y - len : y \in S}
<1>2. \A y \in S : y - len \in H /\ (y - len) + len = y
  BY DEF Bits
<1> HIDE DEF S
<1>3. \A x \in H : x + len \in S
  BY <1>2
<1>4. \A y \in S : \E x \in H : x + len = y
  BY <1>2
<1> HIDE DEF H
<1>5. {x + len : x \in H} = S
  BY <1>3, <1>4
<1> QED  BY <1>1, <1>5 DEF Concat, High, Low, S, H

LEMMA Halves ==
    ASSUME TypeOK
    PROVE  Short \in Nat /\ Long \in Nat /\ cnt \in Nat /\ Short + Long = cnt
BY RoundsAssumption DEF TypeOK, Short, Long

\* A round keeps the length of the block, and the inverse round undoes it.
LEMMA RoundInverse ==
    ASSUME TypeOK, NEW b \in SUBSET Bits(cnt), NEW t
    PROVE  Round(b, t) \subseteq Bits(cnt) /\ InvRound(Round(b, t), t) = b
<1> DEFINE left == High(b, Long)
           right == Low(b, Long)
           f == round_func(right, t)
<1>1. Short \in Nat /\ Long \in Nat /\ cnt \in Nat /\ Short + Long = cnt
  BY Halves
<1>2. left \subseteq Bits(Short) /\ right \subseteq Bits(Long) /\ Concat(left, Long, right) = b
  <2>1. cnt - Long = Short /\ Long <= cnt
    BY <1>1
  <2> QED  BY <1>1, <2>1, ConcatSplit
<1>3. f \subseteq Bits(Short)
  BY DEF round_func
<1> HIDE DEF left, right, f
<1>4. Xor(left, f) \subseteq Bits(Short) /\ Xor(Xor(left, f), f) = left
  BY <1>2, <1>3 DEF Xor
<1>5. Round(b, t) = Concat(right, Short, Xor(left, f))
  BY DEF Round, left, right, f
<1>6. right \in SUBSET Nat
  BY <1>1, <1>2 DEF Bits
<1>7. High(Round(b, t), Short) = right /\ Low(Round(b, t), Short) = Xor(left, f)
  BY <1>1, <1>4, <1>5, <1>6, SplitConcat
<1>8. InvRound(Round(b, t), t) = Concat(Xor(Xor(left, f), f), Long, right)
  BY <1>7 DEF InvRound, f
<1>9. Round(b, t) \subseteq Bits(cnt)
  BY <1>1, <1>2, <1>4, <1>5 DEF Concat, Bits
<1> QED  BY <1>2, <1>4, <1>8, <1>9

-----------------------------------------------------------------------------
IInv == TypeOK /\ Retraces

LEMMA InitIInv ==
    ASSUME Init PROVE IInv
BY RoundsAssumption DEF Init, IInv, TypeOK, Retraces, Bits

\* What a step that leaves the trail and the arguments alone keeps.
LEMMA ChainFrame ==
    ASSUME UNCHANGED <<args, trail>>
    PROVE  /\ \A n, m : Chain(n, m)' = Chain(n, m)
           /\ \A v : Result(v)' = Result(v)
           /\ \A b : InRange(b)' = InRange(b)
           /\ \A b, t : Round(b, t)' = Round(b, t) /\ InvRound(b, t)' = InvRound(b, t)
BY DEF Chain, args, Result, Round, InvRound, InRange, Short, Long, round_func

LEMMA FeistelRoundStep ==
    ASSUME IInv, FeistelRound PROVE IInv'
<1>1. TypeOK /\ Retraces /\ pc = "walk" /\ pc' = "walk" /\ InRange(num) /\ Chain(w, i) /\ back = 0
  BY DEF IInv, FeistelRound, Retraces
<1>2. /\ i \in Nat /\ i < ROUNDS /\ w \in Nat /\ ROUNDS \in Nat \ {0} /\ tmp \in SUBSET Bits(cnt)
      /\ i' = i + 1 /\ i' \in 1 .. ROUNDS /\ w' = w /\ back' = 0
      /\ UNCHANGED <<range, key, num, cnt>>
      /\ tmp' = Round(tmp, i + 1) /\ trail' = Record(<<w, i>>, tmp)
  BY <1>1, RoundsAssumption DEF TypeOK, FeistelRound, args
<1>3. tmp' \subseteq Bits(cnt)
  BY <1>1, <1>2, RoundInverse
<1>4. \A b, t : Round(b, t)' = Round(b, t) /\ InRange(b)' = InRange(b)
  BY <1>2 DEF Round, InRange, Short, Long, round_func
<1>5. /\ DOMAIN trail' = DOMAIN trail \cup {<<w, i>>}
      /\ trail'[<<w, i>>] = tmp
      /\ \A p \in DOMAIN trail : p # <<w, i>> => trail'[p] = trail[p]
  BY <1>2 DEF Record
<1>6. DOMAIN trail = {p \in (0 .. w) \X (0 .. ROUNDS - 1) : p[1] < w \/ p[2] < i}
  BY <1>1 DEF Chain
<1>7. TypeOK'
  BY <1>1, <1>2, <1>3, <1>5 DEF TypeOK
<1>8. \A v \in 0 .. w, j \in 0 .. ROUNDS - 1 : v < w \/ j < i =>
        <<v, j>> \in DOMAIN trail /\ <<v, j>> # <<w, i>> /\ trail'[<<v, j>>] = trail[<<v, j>>]
  BY <1>2, <1>5, <1>6
<1>9. \A v \in Nat : v < w => Result(v)' = Result(v)
  <2>1. SUFFICES ASSUME NEW v \in Nat, v < w PROVE Result(v)' = Result(v)
    OBVIOUS
  <2>2. trail'[<<v, ROUNDS - 1>>] = trail[<<v, ROUNDS - 1>>]
    <3>1. v \in 0 .. w /\ ROUNDS - 1 \in 0 .. ROUNDS - 1
      BY <1>2, <2>1
    <3> QED  BY <1>8, <2>1, <3>1
  <2> QED  BY <1>4, <2>2 DEF Result
<1>10. Chain(w, i)'
  <2>1. DOMAIN trail' = {p \in (0 .. w) \X (0 .. ROUNDS - 1) : p[1] < w \/ p[2] < i + 1}
    BY <1>2, <1>5, <1>6
  <2>2. ASSUME NEW v \in 0 .. w, NEW j \in 1 .. ROUNDS - 1, v < w \/ j < i + 1
        PROVE  trail'[<<v, j>>] = Round(trail'[<<v, j - 1>>], j)
    <3>1. CASE v < w \/ j < i
      <4>1. trail[<<v, j>>] = Round(trail[<<v, j - 1>>], j)
        BY <1>1, <3>1 DEF Chain
      <4>2. trail'[<<v, j>>] = trail[<<v, j>>] /\ trail'[<<v, j - 1>>] = trail[<<v, j - 1>>]
        BY <1>2, <1>8, <3>1
      <4> QED  BY <4>1, <4>2
    <3>2. CASE v = w /\ j = i
      <4>1. tmp = Round(trail[<<w, i - 1>>], i)
        BY <1>1, <1>2, <3>2 DEF Retraces
      <4>2. trail'[<<w, i - 1>>] = trail[<<w, i - 1>>]
        BY <1>2, <1>8, <3>2
      <4> QED  BY <1>5, <3>2, <4>1, <4>2
    <3> QED  BY <1>2, <2>2, <3>1, <3>2
  <2>3. ASSUME NEW v \in 0 .. w
        PROVE  IF v = 0 THEN trail'[<<v, 0>>] = num
               ELSE trail'[<<v, 0>>] = Result(v - 1)' /\ ~ InRange(trail'[<<v, 0>>])
    <3>0. v # 0 => v - 1 \in Nat /\ v - 1 < w
      BY <1>2
    <3>1. CASE v < w \/ 0 < i
      <4>1. IF v = 0 THEN trail[<<v, 0>>] = num
            ELSE trail[<<v, 0>>] = Result(v - 1) /\ ~ InRange(trail[<<v, 0>>])
        BY <1>1, <3>1 DEF Chain
      <4>2. trail'[<<v, 0>>] = trail[<<v, 0>>]
        BY <1>2, <1>8, <3>1
      <4> QED  BY <1>9, <3>0, <4>1, <4>2
    <3>2. CASE v = w /\ i = 0
      <4>1. IF w = 0 THEN tmp = num ELSE tmp = Result(w - 1) /\ ~ InRange(tmp)
        BY <1>1, <3>2 DEF Retraces
      <4> QED  BY <1>5, <1>9, <3>0, <3>2, <4>1
    <3> QED  BY <1>2, <3>1, <3>2
  <2> QED  BY <1>2, <1>4, <2>1, <2>2, <2>3 DEF Chain
<1>11. tmp' = Round(trail'[<<w, i>>], i + 1)
  BY <1>2, <1>5
<1>12. Retraces'
  BY <1>1, <1>2, <1>4, <1>10, <1>11 DEF Retraces
<1> QED  BY <1>7, <1>12 DEF IInv

LEMMA FeistelInvRoundStep ==
    ASSUME IInv, FeistelInvRound PROVE IInv'
<1>1. TypeOK /\ Retraces /\ pc = "inv" /\ pc' = "inv" /\ InRange(num) /\ Chain(w, ROUNDS)
      /\ tmp = IF i = 0 THEN Result(w - back) ELSE trail[<<w - back, ROUNDS - i>>]
  BY DEF IInv, FeistelInvRound, Retraces
<1>2. /\ i \in Nat /\ i < ROUNDS /\ w \in Nat /\ back \in 0 .. w /\ ROUNDS \in Nat \ {0}
      /\ i' = i + 1 /\ i' \in 1 .. ROUNDS /\ w' = w /\ back' = back
      /\ UNCHANGED <<args, trail>> /\ UNCHANGED <<range, key, num, cnt>>
      /\ tmp' = InvRound(tmp, ROUNDS - i)
  BY <1>1, RoundsAssumption DEF TypeOK, FeistelInvRound, args, history
<1>3. w - back \in 0 .. w /\ ROUNDS - (i + 1) \in 0 .. ROUNDS - 1
  BY <1>2
<1> DEFINE b == trail[<<w - back, ROUNDS - (i + 1)>>]
<1>4. b \in SUBSET Bits(cnt)
  <2>1. <<w - back, ROUNDS - (i + 1)>> \in DOMAIN trail
    BY <1>1, <1>2, <1>3 DEF Chain
  <2> QED  BY <1>1, <2>1 DEF TypeOK
<1>5. tmp = Round(b, ROUNDS - i)
  <2>1. CASE i = 0
    BY <1>1, <1>2, <2>1 DEF Result
  <2>2. CASE i > 0
    <3>1. ROUNDS - i \in 1 .. ROUNDS - 1 /\ ROUNDS - i - 1 = ROUNDS - (i + 1)
      BY <1>2, <2>2
    <3>2. \A v \in 0 .. w, j \in 1 .. ROUNDS - 1 :
             v < w \/ j < ROUNDS => trail[<<v, j>>] = Round(trail[<<v, j - 1>>], j)
      BY <1>1 DEF Chain
    <3>3. trail[<<w - back, ROUNDS - i>>] = Round(trail[<<w - back, ROUNDS - i - 1>>], ROUNDS - i)
      BY <1>2, <1>3, <3>1, <3>2
    <3> QED  BY <1>1, <2>2, <3>1, <3>3
  <2> QED  BY <1>2, <2>1, <2>2
<1>6. tmp' = b
  BY <1>1, <1>2, <1>4, <1>5, RoundInverse
<1> HIDE DEF b
<1>7. TypeOK'
  BY <1>1, <1>2, <1>4, <1>6 DEF TypeOK
<1>8. tmp' = trail'[<<w' - back', ROUNDS - i'>>] /\ i' # 0
  BY <1>2, <1>6 DEF b
<1>9. Chain(w, ROUNDS)' /\ InRange(num)'
  BY <1>1, <1>2, ChainFrame
<1>10. Retraces'
  BY <1>1, <1>8, <1>9 DEF Retraces
<1> QED  BY <1>7, <1>10 DEF IInv

\* In the walk a call that is complete is one of the chain.
LEMMA WalkOnStep ==
    ASSUME IInv, WalkOn PROVE IInv'
<1>1. TypeOK /\ Retraces /\ pc = "walk" /\ pc' = "walk" /\ InRange(num) /\ Chain(w, i) /\ back = 0
      /\ ~ InRange(tmp)
  BY DEF IInv, WalkOn, Retraces
<1>2. /\ i = ROUNDS /\ w \in Nat /\ ROUNDS \in Nat \ {0} /\ i' = 0 /\ w' = w + 1 /\ back' = 0
      /\ UNCHANGED <<args, trail>> /\ UNCHANGED <<range, key, num, cnt>> /\ tmp' = tmp
  BY <1>1, RoundsAssumption DEF TypeOK, WalkOn, args
<1>3. tmp = Result(w)
  BY <1>1, <1>2 DEF Retraces, Result
<1>4. Chain(w + 1, 0)
  <2>1. DOMAIN trail = {p \in (0 .. w) \X (0 .. ROUNDS - 1) : p[1] < w \/ p[2] < ROUNDS}
    BY <1>1, <1>2 DEF Chain
  <2>2. DOMAIN trail = {p \in (0 .. w + 1) \X (0 .. ROUNDS - 1) : p[1] < w + 1 \/ p[2] < 0}
    BY <1>2, <2>1
  <2> QED  BY <1>1, <1>2, <2>2 DEF Chain
<1>5. Chain(w, i)' /\ InRange(num)' /\ ~ InRange(tmp)' /\ tmp' = Result(w - 1)'
  <2>1. w' - 1 = w
    BY <1>2
  <2>2. InRange(tmp)' = InRange(tmp)
    BY <1>2 DEF InRange
  <2>3. Result(w - 1)' = Result(w)
    BY <1>2, <2>1 DEF Result, Round, Short, Long, round_func
  <2>4. Chain(w, i)'
    BY <1>2, <1>4, ChainFrame
  <2>5. InRange(num)'
    BY <1>1, <1>2, ChainFrame
  <2> QED  BY <1>1, <1>2, <1>3, <2>2, <2>3, <2>4, <2>5
<1>6. TypeOK'
  BY <1>1, <1>2 DEF TypeOK
<1>7. w' # 0
  BY <1>2
<1>8. Retraces'
  BY <1>1, <1>2, <1>5, <1>7 DEF Retraces
<1> QED  BY <1>6, <1>8 DEF IInv

LEMMA TurnStep ==
    ASSUME IInv, Turn PROVE IInv'
<1>1. TypeOK /\ Retraces /\ pc = "walk" /\ pc' = "inv" /\ InRange(num) /\ Chain(w, i) /\ back = 0
  BY DEF IInv, Turn, Retraces
<1>2. /\ i = ROUNDS /\ w \in Nat /\ ROUNDS \in Nat \ {0} /\ i' = 0 /\ w' = w /\ back' = 0
      /\ UNCHANGED <<args, trail>> /\ UNCHANGED <<range, key, num, cnt>> /\ tmp' = tmp
  BY <1>1, RoundsAssumption DEF TypeOK, Turn, args, history
<1>3. tmp = Result(w)
  BY <1>1, <1>2 DEF Retraces, Result
<1>4. TypeOK'
  BY <1>1, <1>2 DEF TypeOK
<1>5. Chain(w, ROUNDS)' /\ InRange(num)' /\ tmp' = Result(w)
  BY <1>1, <1>2, <1>3, ChainFrame
<1>6. Result(w) = Result(w - back)'
  BY <1>2 DEF Result, Round, Short, Long, round_func
<1>7. Retraces'
  BY <1>1, <1>2, <1>5, <1>6 DEF Retraces
<1> QED  BY <1>4, <1>7 DEF IInv

\* The block before a call is the result of the call before, unless the call was the first.
LEMMA InvWalkStep ==
    ASSUME IInv, InvWalkOn \/ InvReturn PROVE IInv'
<1>1. TypeOK /\ Retraces /\ pc = "inv" /\ InRange(num) /\ Chain(w, ROUNDS) /\ i = ROUNDS
  BY DEF IInv, InvWalkOn, InvReturn, Retraces
<1>2. /\ w \in Nat /\ back \in 0 .. w /\ ROUNDS \in Nat \ {0} /\ w' = w /\ tmp' = tmp
      /\ UNCHANGED <<args, trail>> /\ UNCHANGED <<range, key, num, cnt>>
  BY <1>1, RoundsAssumption DEF TypeOK, InvWalkOn, InvReturn, args, history
<1>3. tmp = trail[<<w - back, 0>>] /\ w - back \in 0 .. w
  BY <1>1, <1>2 DEF Retraces
<1>4. IF w - back = 0 THEN tmp = num ELSE tmp = Result(w - back - 1) /\ ~ InRange(tmp)
  <2>0. 0 < ROUNDS
    BY <1>2
  <2>1. \A v \in 0 .. w : IF v = 0 THEN trail[<<v, 0>>] = num
                          ELSE trail[<<v, 0>>] = Result(v - 1) /\ ~ InRange(trail[<<v, 0>>])
    BY <1>1, <2>0, Zenon DEF Chain
  <2> QED  BY <1>3, <2>1
<1>5. Chain(w, ROUNDS)' /\ InRange(num)'
  BY <1>1, <1>2, ChainFrame
<1>6. CASE InvWalkOn
  <2>1. ~ InRange(tmp) /\ i' = 0 /\ back' = back + 1 /\ pc' = "inv"
    BY <1>1, <1>6 DEF InvWalkOn
  <2>2. w - back # 0
    BY <1>1, <1>4, <2>1
  <2>3. TypeOK'
    BY <1>1, <1>2, <2>1, <2>2 DEF TypeOK
  <2>4. w - back - 1 = w' - back'
    BY <1>2, <2>1
  <2>5. Result(w - back)' = Result(w - back - 1)
    BY <1>2, <2>4 DEF Result, Round, Short, Long, round_func
  <2>6. Retraces'
    BY <1>1, <1>2, <1>4, <1>5, <2>1, <2>2, <2>5 DEF Retraces
  <2> QED  BY <2>3, <2>6 DEF IInv
<1>7. CASE InvReturn
  <2>1. InRange(tmp) /\ pc' = "done" /\ i' = i /\ back' = back
    BY <1>1, <1>7 DEF InvReturn, history
  <2>2. tmp' = num'
    BY <1>2, <1>4, <2>1
  <2>3. TypeOK'
    BY <1>1, <1>2, <2>1 DEF TypeOK
  <2>4. Retraces'
    BY <1>1, <1>2, <1>5, <2>1, <2>2 DEF Retraces
  <2> QED  BY <2>3, <2>4 DEF IInv
<1> QED  BY <1>6, <1>7

LEMMA CallStep ==
    ASSUME IInv, Throw \/ Walk PROVE IInv'
<1>1. TypeOK /\ Retraces /\ pc = "call" /\ w = 0 /\ i = 0 /\ back = 0 /\ trail = << >>
  BY DEF IInv, Throw, Walk, Retraces
<1>2. ROUNDS \in Nat \ {0}
  BY RoundsAssumption
<1>3. CASE Throw
  BY <1>1, <1>3 DEF Throw, IInv, TypeOK, Retraces, args, history
<1>4. CASE Walk
  <2>1. /\ pc' = "walk" /\ tmp' = num /\ InRange(num)
        /\ UNCHANGED <<args, trail>> /\ UNCHANGED <<range, key, num, cnt, i, w, back>>
    BY <1>1, <1>4 DEF Walk, args, history
  <2>2. TypeOK'
    BY <1>1, <2>1 DEF TypeOK
  <2>3. Chain(0, 0)
    BY <1>1, <1>2 DEF Chain
  <2>4. Chain(w, i)' /\ InRange(num)'
    BY <1>1, <2>1, <2>3, ChainFrame
  <2> QED  BY <1>1, <2>1, <2>2, <2>4 DEF IInv, Retraces
<1> QED  BY <1>3, <1>4

LEMMA StutterStep ==
    ASSUME IInv, UNCHANGED vars PROVE IInv'
<1>1. UNCHANGED <<args, trail>> /\ UNCHANGED <<range, key, num, cnt, pc, tmp, i, w, back>>
  BY DEF vars, args, history
<1>2. TypeOK'
  BY <1>1 DEF IInv, TypeOK
<1>3. Chain(w, i)' = Chain(w, i) /\ Chain(w, ROUNDS)' = Chain(w, ROUNDS)
  BY <1>1, ChainFrame
<1>4. Retraces'
  BY <1>1, <1>3 DEF IInv, Retraces, Result, Round, InRange, Short, Long, round_func
<1> QED  BY <1>2, <1>4 DEF IInv

\* Both networks keep their blocks in length, and the inverse retraces the permutation.
THEOREM AdprpInvariant == Spec => []IInv
<1>1. Init => IInv
  BY InitIInv
<1>2. IInv /\ [Next]_vars => IInv'
  BY FeistelRoundStep, FeistelInvRoundStep, WalkOnStep, TurnStep, InvWalkStep, CallStep,
     StutterStep DEF Next
<1> QED  BY <1>1, <1>2, PTL DEF Spec

\* inv_cycle_walk(cycle_walk(num)) = num, for every key, range and round function: this is
\* what PirSets assumes of the permutation.
THEOREM InverseUndoesPermutation == Spec => []RoundTrip
<1>1. IInv => RoundTrip
  BY DEF IInv, Retraces, RoundTrip
<1> QED  BY <1>1, AdprpInvariant, PTL

\* At every moment of the inverse walk the blocks are those that the walk has been through,
\* in reverse (adprp.cpp: feistel_inv_prp against feistel_prp).
THEOREM InverseRetracesTheWalk == Spec => []Retraces
<1>1. IInv => Retraces
  BY DEF IInv
<1> QED  BY <1>1, AdprpInvariant, PTL

\* Blocks keep the length that the range gives them.
THEOREM BlocksKeepLength == Spec => []TypeOK
<1>1. IInv => TypeOK
  BY DEF IInv
<1> QED  BY <1>1, AdprpInvariant, PTL
=============================================================================
