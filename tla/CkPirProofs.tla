----------------------------- MODULE CkPirProofs -----------------------------
(***************************************************************************)
(* Proofs about CkPir, for every pseudorandom function, every size of the  *)
(* database and of its sets and every number of sets, with colliding keys  *)
(* and with hints that a refresh has spoilt.                               *)
(***************************************************************************)
EXTENDS CkPir, FiniteSetTheorems, TLAPS

\* The parity of a set without its element x: what the server replies with.
Without(set, x) ==
    XorOf([y \in (0 .. Elements - 1) \ {x} |-> Position(set.prf_key, set.shift, y)])

(***************************************************************************)
(* The inductive invariant.  What is on its way is determined by what the  *)
(* client called last and by the state of the client.                      *)
(***************************************************************************)
OfflineMessages ==
    {[type |-> "OFFLINE",
      offline_keys |-> [s \in SetNos |-> sets[s].prf_key],
      shifts       |-> [s \in SetNos |-> sets[s].shift]],
     [type |-> "HINTS", hints |-> [s \in SetNos |-> Parity(sets[s])]]}

OnlineMessages ==
    {PuncturedQuery(sets[cur_qry_setno], punc_x),
     [type |-> "PARITY", parity |-> Without(sets[cur_qry_setno], punc_x)]}

NetInv ==
    /\ pc \in {"new", "keys", "ready", "recovered", "terminated"} => net = Nothing
    /\ pc = "offline" => net \in OfflineMessages
    /\ pc \in {"query", "refresh"} => net \in OnlineMessages

\* Everything but net has its type, and there are sets once there are keys.
StateInv ==
    /\ pc \in {"new", "keys", "offline", "ready", "query", "recovered", "refresh", "terminated"}
    /\ pc = "new" => DOMAIN sets = {}
    /\ pc \notin {"new", "terminated"} => sets \in [SetNos -> SetDesc]
    /\ sets \in [SetNos -> SetDesc] \/ DOMAIN sets = {}
    /\ punc_x \in 0 .. Elements - 1 /\ cur_qry_setno \in SetNos
    /\ qry_idx \in Index /\ blk \in SUBSET Index
    /\ refreshed \subseteq SetNos /\ drawn \in Point

\* The hints start empty, and a set counts as refreshed from the request on.
PhaseInv ==
    /\ pc \in {"new", "keys", "offline"} => refreshed = {}
    /\ pc \in {"keys", "offline"} => \A s \in SetNos : sets[s].hint = {}
    /\ pc = "refresh" => cur_qry_setno \in refreshed

IInv ==
    /\ StateInv
    /\ NetInv
    /\ PhaseInv
    /\ HintsUntilRefreshed
    /\ RecoversExactlyWithHint
    /\ SetHoldsIndex

-----------------------------------------------------------------------------
(* Sets and parities                                                        *)

LEMMA Sizes ==
    /\ Elements \in Nat \ {0} /\ DbSize \in Nat \ {0} /\ NbrSets \in Nat \ {0}
    /\ SetSize \in Nat \ {0} /\ Points \in Nat /\ Elements <= Points /\ Points <= DbSize
    /\ 0 \in SetNos /\ 0 \in Index /\ 0 \in 0 .. Elements - 1 /\ 0 \in Point
BY CkAssumption DEF SetNos, Index, Point

LEMMA SymDiffFacts ==
    /\ \A A, B \in SUBSET Index : SymDiff(A, B) \in SUBSET Index
    /\ \A A : SymDiff({}, A) = A
BY DEF SymDiff

LEMMA SymDiffCancels ==
    ASSUME NEW A, NEW B, NEW C
    PROVE  /\ SymDiff(SymDiff(A, B), C) = B <=> C = A
           /\ SymDiff(A, SymDiff(B, C)) = B <=> A = C
BY DEF SymDiff

LEMMA RenewedSet ==
    ASSUME NEW set \in SetDesc, NEW k, NEW n
    PROVE  [[set EXCEPT !.prf_key = k] EXCEPT !.shift = n]
             = [prf_key |-> k, shift |-> n, hint |-> set.hint]
<1>1. set = [prf_key |-> set.prf_key, shift |-> set.shift, hint |-> set.hint]
  BY DEF SetDesc
<1>2. [set EXCEPT !.prf_key = k] = [prf_key |-> k, shift |-> set.shift, hint |-> set.hint]
  BY <1>1
<1>3. [[prf_key |-> k, shift |-> set.shift, hint |-> set.hint] EXCEPT !.shift = n]
        = [prf_key |-> k, shift |-> n, hint |-> set.hint]
  OBVIOUS
<1> QED BY <1>2, <1>3, Zenon

\* A set of naturals that is not empty has a least element.
LEMMA MinNat ==
    ASSUME NEW S, S \subseteq Nat, S # {}
    PROVE  Min(S) \in S
<1> DEFINE R == {p \in Nat \X Nat : p[1] < p[2]}
<1>1. IsWellFoundedOn(R, Nat)
  <2>1. IsWellFoundedOn(OpToRel(<, Nat), Nat)
    BY NatLessThanWellFounded
  <2>2. OpToRel(<, Nat) = R
    BY DEF OpToRel
  <2> QED BY <2>1, <2>2
<1>2. \E x \in S : \A y \in S : x <= y
  <2>1. \E x \in S : \A y \in S : ~ (<<y, x>> \in R)
    <3> HIDE DEF R
    <3> QED BY <1>1, WFMin
  <2>2. PICK x \in S : \A y \in S : ~ (<<y, x>> \in R)
    BY <2>1
  <2>3. ASSUME NEW y \in S
        PROVE  x <= y
    <3>1. ~ (<<y, x>> \in R) /\ y \in Nat /\ x \in Nat
      BY <2>2
    <3> QED BY <3>1
  <2> QED BY <2>3
<1> QED BY <1>2 DEF Min

LEMMA NoneIsEven == ~ (Cardinality({}) % 2 = 1)
BY FS_EmptySet

\* An exclusive or without one of its positions.
LEMMA XorWithout ==
    ASSUME NEW f, NEW a \in DOMAIN f, IsFiniteSet(DOMAIN f)
    PROVE  XorOf([x \in (DOMAIN f) \ {a} |-> f[x]]) = SymDiff(XorOf(f), {f[a]})
<1> DEFINE g    == [x \in (DOMAIN f) \ {a} |-> f[x]]
           S(y) == {x \in DOMAIN f : f[x] = y}
           T(y) == {x \in DOMAIN g : g[x] = y}
<1>1. \A y : IsFiniteSet(S(y)) /\ Cardinality(S(y)) \in Nat
  BY FS_Subset, FS_CardinalityType
<1>2. \A y : y # f[a] => T(y) = S(y)
  OBVIOUS
<1>3. T(f[a]) = S(f[a]) \ {a} /\ a \in S(f[a])
  OBVIOUS
<1>4. Cardinality(T(f[a])) = Cardinality(S(f[a])) - 1
  <2> HIDE DEF S, T
  <2> QED BY <1>1, <1>3, FS_RemoveElement
<1>5. Cardinality(T(f[a])) % 2 = 1 <=> ~ (Cardinality(S(f[a])) % 2 = 1)
  <2>1. \A n \in Nat : (n - 1) % 2 = 1 <=> ~ (n % 2 = 1)
    OBVIOUS
  <2> QED BY <1>1, <1>4, <2>1
<1>6. \A y : y \in XorOf(f) <=> Cardinality(S(y)) % 2 = 1
  <2>1. ASSUME NEW y, Cardinality(S(y)) % 2 = 1
        PROVE  y \in Range(f)
    <3>1. S(y) # {}
      <4> HIDE DEF S
      <4> QED BY <2>1, NoneIsEven
    <3> QED BY <3>1 DEF Range
  <2> QED BY <2>1 DEF XorOf
<1>7. \A y : y \in XorOf(g) <=> Cardinality(T(y)) % 2 = 1
  <2>1. ASSUME NEW y, Cardinality(T(y)) % 2 = 1
        PROVE  y \in Range(g)
    <3>1. T(y) # {}
      <4> HIDE DEF T
      <4> QED BY <2>1, NoneIsEven
    <3> QED BY <3>1 DEF Range
  <2> QED BY <2>1 DEF XorOf
<1> HIDE DEF g, S, T
<1>8. \A y : y \in XorOf(g) <=> y \in SymDiff(XorOf(f), {f[a]})
  <2> TAKE y
  <2>1. CASE y = f[a]
    BY <2>1, <1>5, <1>6, <1>7 DEF SymDiff
  <2>2. CASE y # f[a]
    BY <2>2, <1>2, <1>6, <1>7 DEF SymDiff
  <2> QED BY <2>1, <2>2
<1>9. XorOf(g) = SymDiff(XorOf(f), {f[a]})
  BY <1>8
<1> QED BY <1>9 DEF g

\* What an exclusive or is made of.
LEMMA XorType ==
    ASSUME NEW f, NEW S, \A x \in DOMAIN f : f[x] \in S
    PROVE  XorOf(f) \in SUBSET S
BY DEF XorOf, Range

\* Every value of the function and every position is an index of the database.
LEMMA PositionType ==
    ASSUME NEW k \in Key, NEW shift \in Index, NEW x \in 0 .. Elements - 1
    PROVE  Prf[k][x] \in Index /\ Position(k, shift, x) \in Index
<1>1. Prf[k][x] \in Index
  BY CkAssumption, Sizes DEF Point
<1>2. \A n \in Nat, m \in Nat \ {0} : n % m \in 0 .. m - 1
  OBVIOUS
<1>3. Prf[k][x] + shift \in Nat
  BY <1>1, Sizes DEF Index
<1> QED BY <1>1, <1>2, <1>3, Sizes DEF Position, Index

LEMMA PositionsType ==
    ASSUME NEW set, set.prf_key \in Key, set.shift \in Index
    PROVE  /\ \A x \in 0 .. Elements - 1 : Positions(set)[x] \in Index
           /\ Parity(set) \in SUBSET Index
           /\ \A x : Without(set, x) \in SUBSET Index
<1>1. \A x \in 0 .. Elements - 1 : Position(set.prf_key, set.shift, x) \in Index
  BY PositionType
<1>2. \A x \in 0 .. Elements - 1 : Positions(set)[x] \in Index
  BY <1>1 DEF Positions
<1>3. Parity(set) \in SUBSET Index
  BY <1>2, XorType DEF Parity, Positions
<1>4. ASSUME NEW x
      PROVE  Without(set, x) \in SUBSET Index
  <2> DEFINE f == [y \in (0 .. Elements - 1) \ {x} |-> Position(set.prf_key, set.shift, y)]
  <2>1. \A y \in DOMAIN f : f[y] \in Index
    BY <1>1
  <2> HIDE DEF f
  <2>2. XorOf(f) \in SUBSET Index
    BY <2>1, XorType
  <2> QED BY <2>2 DEF f, Without
<1> QED BY <1>2, <1>3, <1>4

\* The reply lacks the element that the query punctured, and only that.
LEMMA WithoutIs ==
    ASSUME NEW set, NEW x \in 0 .. Elements - 1
    PROVE  Without(set, x) = SymDiff(Parity(set), {Positions(set)[x]})
<1> DEFINE f == Positions(set)
<1>1. DOMAIN f = 0 .. Elements - 1 /\ IsFiniteSet(DOMAIN f)
  BY Sizes, FS_Interval DEF Positions
<1>2. Without(set, x) = XorOf([y \in (DOMAIN f) \ {x} |-> f[y]])
  <2>1. [y \in (DOMAIN f) \ {x} |-> f[y]]
          = [y \in (0 .. Elements - 1) \ {x} |-> Position(set.prf_key, set.shift, y)]
    BY DEF Positions
  <2> QED BY <2>1 DEF Without
<1>3. Parity(set) = XorOf(f)
  BY DEF Parity
<1> HIDE DEF f
<1>4. XorOf([y \in (DOMAIN f) \ {x} |-> f[y]]) = SymDiff(XorOf(f), {f[x]})
  BY <1>1, XorWithout
<1> QED BY <1>2, <1>3, <1>4 DEF f
-----------------------------------------------------------------------------
(* The inductive invariant                                                  *)

\* What Positions and the parities say of a set does not depend on its hint.
LEMMA SameSet ==
    ASSUME NEW a, NEW b, a.prf_key = b.prf_key, a.shift = b.shift
    PROVE  /\ Positions(a) = Positions(b) /\ Parity(a) = Parity(b)
           /\ \A x : Without(a, x) = Without(b, x)
<1>1. Positions(a) = Positions(b)
  BY DEF Positions
<1> QED BY <1>1 DEF Parity, Without

\* The sets of a client that has keys.
LEMMA SetFields ==
    ASSUME sets \in [SetNos -> SetDesc], NEW s \in SetNos
    PROVE  /\ sets[s].prf_key \in Key /\ sets[s].shift \in Index /\ sets[s].hint \in SUBSET Index
           /\ \A x \in 0 .. Elements - 1 : Positions(sets[s])[x] \in Index
           /\ Parity(sets[s]) \in SUBSET Index
           /\ \A x : Without(sets[s], x) \in SUBSET Index
<1>1. /\ sets[s].prf_key \in Key /\ sets[s].shift \in Index /\ sets[s].hint \in SUBSET Index
  BY DEF SetDesc
<1> QED BY <1>1, PositionsType

LEMMA InitIInv == Init => IInv
<1> SUFFICES ASSUME Init PROVE IInv
  OBVIOUS
<1>1. StateInv
  BY Sizes DEF Init, StateInv
<1>2. NetInv /\ PhaseInv /\ HintsUntilRefreshed /\ RecoversExactlyWithHint /\ SetHoldsIndex
  BY DEF Init, NetInv, PhaseInv, HintsUntilRefreshed, RecoversExactlyWithHint, SetHoldsIndex
<1> QED BY <1>1, <1>2 DEF IInv

LEMMA GenerateSetkeysStep ==
    ASSUME IInv, GenerateSetkeys
    PROVE  IInv'
<1>1. /\ sets' \in [SetNos -> [prf_key : Key, shift : Index, hint : {{}}]] /\ pc' = "keys"
      /\ pc = "new" /\ UNCHANGED <<punc_x, cur_qry_setno, qry_idx, blk, net, refreshed, drawn>>
  BY DEF GenerateSetkeys
<1>2. sets' \in [SetNos -> SetDesc]
  BY <1>1 DEF SetDesc
<1>3. StateInv'
  BY <1>1, <1>2 DEF IInv, StateInv
<1>4. NetInv'
  BY <1>1 DEF IInv, NetInv
<1>5. PhaseInv'
  BY <1>1 DEF IInv, PhaseInv
<1> QED BY <1>1, <1>3, <1>4, <1>5
        DEF IInv, HintsUntilRefreshed, RecoversExactlyWithHint, SetHoldsIndex

\* A client that throws keeps what it has, and nothing is on its way.
LEMMA ThrowsStep ==
    ASSUME IInv, GenerateSetkeysThrows \/ \E idx \in Index : GenerateOnlineQueryThrows(idx)
    PROVE  IInv'
<1>1. /\ pc \in {"new", "ready", "recovered"} /\ pc' = "terminated"
      /\ UNCHANGED <<sets, punc_x, cur_qry_setno, qry_idx, blk, net, refreshed, drawn>>
  BY DEF GenerateSetkeysThrows, GenerateOnlineQueryThrows, client
<1>2. StateInv'
  BY <1>1 DEF IInv, StateInv
<1>3. NetInv'
  BY <1>1 DEF IInv, NetInv
<1> QED BY <1>1, <1>2, <1>3
        DEF IInv, PhaseInv, HintsUntilRefreshed, RecoversExactlyWithHint, SetHoldsIndex

LEMMA GenerateOfflineQueryStep ==
    ASSUME IInv, GenerateOfflineQuery
    PROVE  IInv'
<1>1. /\ pc = "keys" /\ pc' = "offline"
      /\ UNCHANGED <<sets, punc_x, cur_qry_setno, qry_idx, blk, refreshed, drawn>>
      /\ net' = [type |-> "OFFLINE",
                 offline_keys |-> [s \in SetNos |-> sets[s].prf_key],
                 shifts       |-> [s \in SetNos |-> sets[s].shift]]
  BY DEF GenerateOfflineQuery, client
<1>2. StateInv'
  BY <1>1 DEF IInv, StateInv
<1>3. NetInv'
  BY <1>1 DEF NetInv, OfflineMessages
<1>4. PhaseInv'
  BY <1>1 DEF IInv, PhaseInv
<1> QED BY <1>1, <1>2, <1>3, <1>4
        DEF IInv, HintsUntilRefreshed, RecoversExactlyWithHint, SetHoldsIndex

LEMMA GenerateOfflineReplyStep ==
    ASSUME IInv, GenerateOfflineReply
    PROVE  IInv'
<1>1. net.type = "OFFLINE" /\ UNCHANGED <<sets, punc_x, cur_qry_setno, pc, qry_idx, blk, refreshed, drawn>>
      /\ net' = [type |-> "HINTS",
                 hints |-> [s \in SetNos |->
                              XorOf([x \in 0 .. Elements - 1 |->
                                       Position(net.offline_keys[s], net.shifts[s], x)])]]
  BY DEF GenerateOfflineReply, client
<1>2. /\ pc = "offline"
      /\ net = [type |-> "OFFLINE",
                offline_keys |-> [s \in SetNos |-> sets[s].prf_key],
                shifts       |-> [s \in SetNos |-> sets[s].shift]]
  BY <1>1 DEF IInv, StateInv, NetInv, Nothing, OfflineMessages, OnlineMessages, PuncturedQuery
<1>3. [s \in SetNos |->
         XorOf([x \in 0 .. Elements - 1 |-> Position(net.offline_keys[s], net.shifts[s], x)])]
        = [s \in SetNos |-> Parity(sets[s])]
  BY <1>2 DEF Parity, Positions
<1>4. net' = [type |-> "HINTS", hints |-> [s \in SetNos |-> Parity(sets[s])]]
  BY <1>1, <1>3
<1>5. OfflineMessages' = OfflineMessages
  BY <1>1 DEF OfflineMessages
<1>6. NetInv'
  BY <1>1, <1>2, <1>4, <1>5 DEF NetInv, OfflineMessages
<1>7. StateInv'
  BY <1>1 DEF IInv, StateInv
<1> QED BY <1>1, <1>6, <1>7
        DEF IInv, PhaseInv, HintsUntilRefreshed, HintOfSet, RecoversExactlyWithHint, SetHoldsIndex,
            PointsOf

LEMMA UpdateLocalHintsStep ==
    ASSUME IInv, UpdateLocalHints
    PROVE  IInv'
<1>1. /\ net.type = "HINTS" /\ net' = Nothing /\ pc' = "ready"
      /\ sets' = [s \in SetNos |-> [sets[s] EXCEPT !.hint = SymDiff(@, net.hints[s])]]
      /\ UNCHANGED <<punc_x, cur_qry_setno, qry_idx, blk, refreshed, drawn>>
  BY DEF UpdateLocalHints
<1>2. /\ pc = "offline" /\ sets \in [SetNos -> SetDesc]
      /\ net = [type |-> "HINTS", hints |-> [s \in SetNos |-> Parity(sets[s])]]
  BY <1>1 DEF IInv, StateInv, NetInv, Nothing, OfflineMessages, OnlineMessages, PuncturedQuery
<1>3. ASSUME NEW s \in SetNos
      PROVE  /\ sets'[s].prf_key = sets[s].prf_key /\ sets'[s].shift = sets[s].shift
             /\ sets'[s].hint = Parity(sets[s]) /\ sets'[s] \in SetDesc
  <2>1. sets[s].hint = {}
    BY <1>2 DEF IInv, PhaseInv
  <2>2. SymDiff({}, Parity(sets[s])) = Parity(sets[s])
    BY SymDiffFacts
  <2>3. sets[s] \in [prf_key : Key, shift : Index, hint : SUBSET Index]
    BY <1>2 DEF SetDesc
  <2>4. net.hints[s] = Parity(sets[s])
    BY <1>2
  <2>5. sets'[s] = [sets[s] EXCEPT !.hint = Parity(sets[s])]
    BY <1>1, <2>1, <2>2, <2>4
  <2>6. Parity(sets[s]) \in SUBSET Index
    BY <1>2, SetFields
  <2> HIDE <1>2
  <2> QED BY <2>3, <2>5, <2>6 DEF SetDesc
<1>4. \A s \in SetNos : HintOfSet(s)'
  <2> TAKE s \in SetNos
  <2>1. Parity(sets'[s]) = Parity(sets[s])
    BY <1>3, SameSet
  <2>2. sets'[s].hint = Parity(sets'[s])
    BY <1>3, <2>1
  <2> QED BY <2>2 DEF HintOfSet
<1>5. sets' \in [SetNos -> SetDesc]
  BY <1>1, <1>3
<1>6. StateInv'
  BY <1>1, <1>2, <1>5 DEF IInv, StateInv
<1>7. NetInv'
  BY <1>1 DEF NetInv
<1> QED BY <1>1, <1>2, <1>4, <1>6, <1>7
        DEF IInv, PhaseInv, HintsUntilRefreshed, RecoversExactlyWithHint, SetHoldsIndex

LEMMA GenerateOnlineQueryStep ==
    ASSUME IInv, NEW idx \in Index, GenerateOnlineQuery(idx)
    PROVE  IInv'
<1> DEFINE holding == {s \in SetNos : PointsOf(s, idx) # {}}
<1>1. /\ pc \in {"ready", "recovered"} /\ pc' = "query" /\ qry_idx' = idx
      /\ holding # {} /\ cur_qry_setno' = Min(holding)
      /\ punc_x' = Min(PointsOf(cur_qry_setno', idx))
      /\ net' = PuncturedQuery(sets[cur_qry_setno'], punc_x')
      /\ UNCHANGED <<sets, blk, refreshed>> /\ drawn' = 0
  BY DEF GenerateOnlineQuery
<1>2. cur_qry_setno' \in SetNos /\ PointsOf(cur_qry_setno', idx) # {}
  <2>1. holding \subseteq Nat
    BY DEF SetNos
  <2>2. Min(holding) \in holding
    BY <1>1, <2>1, MinNat
  <2> QED BY <1>1, <2>2
<1>3. punc_x' \in PointsOf(cur_qry_setno', idx)
  <2>1. PointsOf(cur_qry_setno', idx) \subseteq Nat
    BY Sizes DEF PointsOf
  <2> QED BY <1>1, <1>2, <2>1, MinNat
<1>4. punc_x' \in 0 .. Elements - 1 /\ Positions(sets[cur_qry_setno'])[punc_x'] = idx
  BY <1>3 DEF PointsOf
<1>5. StateInv'
  BY <1>1, <1>2, <1>4, Sizes DEF IInv, StateInv
<1>6. NetInv'
  BY <1>1 DEF NetInv, OnlineMessages
<1>7. HintsUntilRefreshed'
  BY <1>1 DEF IInv, HintsUntilRefreshed, HintOfSet
<1>8. SetHoldsIndex'
  BY <1>1, <1>4 DEF SetHoldsIndex
<1> QED BY <1>1, <1>5, <1>6, <1>7, <1>8 DEF IInv, PhaseInv, RecoversExactlyWithHint

LEMMA GenerateOnlineReplyStep ==
    ASSUME IInv, GenerateOnlineReply
    PROVE  IInv'
<1>1. /\ net.type = "ONLINE"
      /\ net' = [type |-> "PARITY",
                 parity |-> XorOf([x \in (0 .. Elements - 1) \ {net.bitvec} |->
                                     Position(net.prf_key, net.shift, x)])]
      /\ UNCHANGED <<sets, punc_x, cur_qry_setno, pc, qry_idx, blk, refreshed, drawn>>
  BY DEF GenerateOnlineReply, client
<1>2. pc \in {"query", "refresh"} /\ net = PuncturedQuery(sets[cur_qry_setno], punc_x)
  BY <1>1 DEF IInv, StateInv, NetInv, Nothing, OfflineMessages, OnlineMessages
<1>3. /\ net.prf_key = sets[cur_qry_setno].prf_key /\ net.bitvec = punc_x
      /\ net.shift = sets[cur_qry_setno].shift
  BY <1>2 DEF PuncturedQuery
<1>4. net' = [type |-> "PARITY", parity |-> Without(sets[cur_qry_setno], punc_x)]
  BY <1>1, <1>3 DEF Without
<1>5. OnlineMessages' = OnlineMessages
  BY <1>1 DEF OnlineMessages
<1>6. NetInv'
  BY <1>1, <1>2, <1>4, <1>5 DEF NetInv, OnlineMessages
<1>7. StateInv'
  BY <1>1 DEF IInv, StateInv
<1> QED BY <1>1, <1>6, <1>7
        DEF IInv, PhaseInv, HintsUntilRefreshed, HintOfSet, RecoversExactlyWithHint, SetHoldsIndex,
            PointsOf

\* The reply that a query or a refresh waits for.
LEMMA ReplyIs ==
    ASSUME IInv, net.type = "PARITY"
    PROVE  /\ pc \in {"query", "refresh"} /\ sets \in [SetNos -> SetDesc] /\ cur_qry_setno \in SetNos
           /\ punc_x \in 0 .. Elements - 1
           /\ net.parity = SymDiff(Parity(sets[cur_qry_setno]),
                                   {Positions(sets[cur_qry_setno])[punc_x]})
           /\ net.parity \in SUBSET Index
<1>1. /\ pc \in {"query", "refresh"}
      /\ net = [type |-> "PARITY", parity |-> Without(sets[cur_qry_setno], punc_x)]
  BY DEF IInv, StateInv, NetInv, Nothing, OfflineMessages, OnlineMessages, PuncturedQuery
<1>2. sets \in [SetNos -> SetDesc] /\ cur_qry_setno \in SetNos /\ punc_x \in 0 .. Elements - 1
  BY <1>1 DEF IInv, StateInv
<1> QED BY <1>1, <1>2, WithoutIs, SetFields

LEMMA RecoverBlockStep ==
    ASSUME IInv, RecoverBlock
    PROVE  IInv'
<1> DEFINE set == sets[cur_qry_setno]
<1>1. /\ net.type = "PARITY" /\ pc = "query" /\ pc' = "recovered" /\ net' = Nothing
      /\ blk' = SymDiff(net.parity, set.hint)
      /\ UNCHANGED <<sets, punc_x, cur_qry_setno, qry_idx, refreshed, drawn>>
  BY DEF RecoverBlock, client
<1>2. Positions(set)[punc_x] = qry_idx
  BY <1>1 DEF IInv, SetHoldsIndex
<1>3. net.parity = SymDiff(Parity(set), {qry_idx}) /\ net.parity \in SUBSET Index
      /\ set.hint \in SUBSET Index
  BY <1>1, <1>2, ReplyIs, SetFields
<1>4. blk' = {qry_idx} <=> set.hint = Parity(set)
  <2> DEFINE P == Parity(set)
             h == set.hint
  <2>1. blk' = SymDiff(SymDiff(P, {qry_idx}), h)
    BY <1>1, <1>3
  <2> HIDE DEF P, h
  <2>2. SymDiff(SymDiff(P, {qry_idx}), h) = {qry_idx} <=> h = P
    BY SymDiffCancels, Zenon
  <2> QED BY <2>1, <2>2 DEF P, h
<1>5. RecoversExactlyWithHint'
  BY <1>1, <1>4 DEF RecoversExactlyWithHint, HintOfSet
<1>6. StateInv'
  BY <1>1, <1>3, SymDiffFacts DEF IInv, StateInv
<1>7. NetInv'
  BY <1>1 DEF NetInv
<1> QED BY <1>1, <1>5, <1>6, <1>7
        DEF IInv, PhaseInv, HintsUntilRefreshed, HintOfSet, SetHoldsIndex

\* The shift of a refreshed set puts the index at the element that was drawn.
LEMMA ShiftPutsIndex ==
    ASSUME NEW y \in Index, NEW idx \in Index
    PROVE  /\ (idx + DbSize - y) % DbSize \in Index
           /\ (y + ((idx + DbSize - y) % DbSize)) % DbSize = idx
<1>1. DbSize \in Nat /\ y \in Nat /\ idx \in Nat /\ y < DbSize /\ idx < DbSize /\ DbSize > 0
  BY Sizes DEF Index
<1>2. ASSUME NEW n \in Nat, n > 0, NEW m \in Nat, m < n
      PROVE  m % n = m /\ (m + n) % n = m
  <2>1. m % n = m
    BY <1>2
  <2>2. (m + n) % n = m
    BY <1>2
  <2> QED BY <2>1, <2>2
<1>3. CASE y <= idx
  <2>1. idx - y \in Nat /\ idx - y < DbSize /\ idx + DbSize - y = (idx - y) + DbSize
    BY <1>1, <1>3
  <2>2. (idx + DbSize - y) % DbSize = idx - y
    BY <1>1, <1>2, <2>1
  <2>3. y + (idx - y) = idx
    BY <1>1
  <2> QED BY <1>1, <1>2, <2>1, <2>2, <2>3 DEF Index
<1>4. CASE idx < y
  <2>1. idx + DbSize - y \in Nat /\ idx + DbSize - y < DbSize
    BY <1>1, <1>4
  <2>2. (idx + DbSize - y) % DbSize = idx + DbSize - y
    BY <1>1, <1>2, <2>1
  <2>3. y + (idx + DbSize - y) = idx + DbSize
    BY <1>1
  <2> QED BY <1>1, <1>2, <2>1, <2>2, <2>3 DEF Index
<1> QED BY <1>1, <1>3, <1>4

\* And at no point with another value.
LEMMA ShiftPutsOnly ==
    ASSUME NEW y \in Index, NEW z \in Index, NEW idx \in Index
    PROVE  (z + ((idx + DbSize - y) % DbSize)) % DbSize = idx <=> z = y
<1>1. DbSize \in Nat /\ y \in Nat /\ z \in Nat /\ idx \in Nat
      /\ y < DbSize /\ z < DbSize /\ idx < DbSize
  BY Sizes DEF Index
<1>2. PICK shift : shift = (idx + DbSize - y) % DbSize /\ shift \in Index
                   /\ (y + shift) % DbSize = idx
  BY ShiftPutsIndex
<1>3. shift \in Nat /\ shift < DbSize
  BY <1>1, <1>2 DEF Index
<1>4. ASSUME NEW n \in Nat, NEW m \in Nat, m < n + n, n > 0
      PROVE  m % n = IF m < n THEN m ELSE m - n
  <2>1. CASE m < n
    BY <1>4, <2>1
  <2>2. CASE n <= m
    <3>1. m - n \in Nat /\ m - n < n
      BY <1>4, <2>2
    <3>2. (m - n) % n = m - n
      BY <3>1
    <3>3. ((m - n) + n) % n = m - n
      BY <3>1, <3>2
    <3> QED BY <2>2, <3>3
  <2> QED BY <2>1, <2>2
<1>5. /\ (y + shift) % DbSize = IF y + shift < DbSize THEN y + shift ELSE y + shift - DbSize
      /\ (z + shift) % DbSize = IF z + shift < DbSize THEN z + shift ELSE z + shift - DbSize
  BY <1>1, <1>3, <1>4
<1>6. (z + shift) % DbSize = idx <=> z = y
  BY <1>1, <1>2, <1>3, <1>5
<1> QED BY <1>2, <1>6

LEMMA GenerateRefreshQueryStep ==
    ASSUME IInv, GenerateRefreshQuery
    PROVE  IInv'
<1>1. /\ pc = "recovered" /\ pc' = "refresh" /\ refreshed' = refreshed \cup {cur_qry_setno}
      /\ net' = PuncturedQuery(sets'[cur_qry_setno], punc_x)
      /\ UNCHANGED <<punc_x, cur_qry_setno, qry_idx, blk>>
  BY DEF GenerateRefreshQuery
<1>2. /\ sets \in [SetNos -> SetDesc] /\ cur_qry_setno \in SetNos /\ qry_idx \in Index
  BY <1>1 DEF IInv, StateInv
<1>3. PICK key \in Key, r \in Drawable \cap Point :
        /\ sets' = [sets EXCEPT ![cur_qry_setno].prf_key = key,
                                ![cur_qry_setno].shift = (qry_idx + DbSize - Prf[key][r]) % DbSize]
        /\ drawn' = r
  BY DEF GenerateRefreshQuery
<1>4. r \in Point /\ \A x \in 0 .. Elements - 1 : x \in Point
  BY Sizes DEF Point
<1>5. \A x \in Point : Prf[key][x] \in Index
  BY CkAssumption
<1>6. PICK shift : /\ shift = (qry_idx + DbSize - Prf[key][r]) % DbSize
                   /\ shift \in Index
                   /\ \A z \in Index : (z + shift) % DbSize = qry_idx <=> z = Prf[key][r]
  BY <1>2, <1>4, <1>5, ShiftPutsIndex, ShiftPutsOnly
<1> DEFINE new == [prf_key |-> key, shift |-> shift, hint |-> sets[cur_qry_setno].hint]
<1>8. sets' = [sets EXCEPT ![cur_qry_setno] = new]
  <2> DEFINE mid == [sets EXCEPT ![cur_qry_setno].prf_key = key]
  <2>1. sets' = [mid EXCEPT ![cur_qry_setno].shift = shift]
    BY <1>3, <1>6
  <2>2. mid[cur_qry_setno] = [sets[cur_qry_setno] EXCEPT !.prf_key = key]
    BY <1>2
  <2>3. [mid[cur_qry_setno] EXCEPT !.shift = shift] = new
    <3>1. sets[cur_qry_setno] \in SetDesc
      BY <1>2
    <3>2. \A set \in SetDesc : [[set EXCEPT !.prf_key = key] EXCEPT !.shift = shift]
                                = [prf_key |-> key, shift |-> shift, hint |-> set.hint]
      BY RenewedSet, Zenon
    <3> HIDE DEF mid
    <3> QED BY <2>2, <3>1, <3>2, Zenon
  <2> HIDE DEF new
  <2> QED BY <1>2, <2>1, <2>3
<1>9. new \in SetDesc
  BY <1>2, <1>6, SetFields DEF SetDesc
<1>10. sets' \in [SetNos -> SetDesc] /\ sets'[cur_qry_setno] = new
       /\ \A s \in SetNos \ {cur_qry_setno} : sets'[s] = sets[s]
  <2> HIDE DEF new
  <2> QED BY <1>2, <1>8, <1>9
<1>11. StateInv'
  BY <1>1, <1>2, <1>3, <1>4, <1>10 DEF IInv, StateInv
<1>12. NetInv'
  BY <1>1 DEF NetInv, OnlineMessages
<1>13. PhaseInv'
  BY <1>1, <1>2 DEF PhaseInv
<1>14. HintsUntilRefreshed'
  BY <1>1, <1>10 DEF IInv, HintsUntilRefreshed, HintOfSet
<1>15. \A x \in 0 .. Elements - 1 : Positions(new)[x] = qry_idx <=> Prf[key][x] = Prf[key][r]
  BY <1>4, <1>5, <1>6 DEF Positions, Position
<1>16. SetHoldsIndex'
  <2>1. PointsOf(cur_qry_setno, qry_idx)' = {x \in 0 .. Elements - 1 : Positions(new)[x] = qry_idx}
    BY <1>1, <1>10 DEF PointsOf
  <2>2. PointsOf(cur_qry_setno, qry_idx)' # {}
          <=> \E x \in 0 .. Elements - 1 : Prf[key][x] = Prf[key][r]
    BY <1>15, <2>1
  <2>3. sets'[cur_qry_setno'].prf_key = key /\ drawn' = r
    BY <1>1, <1>3, <1>10
  <2> QED BY <1>1, <2>2, <2>3 DEF SetHoldsIndex
<1> QED BY <1>1, <1>11, <1>12, <1>13, <1>14, <1>16 DEF IInv, RecoversExactlyWithHint

\* Nothing follows a draw outside of the tree.
LEMMA RefreshThrowsStep ==
    ASSUME IInv, GenerateRefreshQueryThrows
    PROVE  IInv'
<1>1. /\ pc = "recovered" /\ pc' = "terminated"
      /\ UNCHANGED <<punc_x, cur_qry_setno, qry_idx, blk, net, refreshed, drawn>>
      /\ \E key \in Key : sets' = [sets EXCEPT ![cur_qry_setno].prf_key = key]
  BY DEF GenerateRefreshQueryThrows
<1>2. sets \in [SetNos -> SetDesc] /\ cur_qry_setno \in SetNos
  BY <1>1 DEF IInv, StateInv
<1>3. PICK key \in Key : sets' = [sets EXCEPT ![cur_qry_setno].prf_key = key]
  BY <1>1
<1>4. [sets[cur_qry_setno] EXCEPT !.prf_key = key] \in SetDesc
  BY <1>2 DEF SetDesc
<1>5. sets' \in [SetNos -> SetDesc]
  BY <1>2, <1>3, <1>4
<1>6. StateInv'
  BY <1>1, <1>5 DEF IInv, StateInv
<1> QED BY <1>1, <1>6
        DEF IInv, NetInv, PhaseInv, HintsUntilRefreshed, RecoversExactlyWithHint, SetHoldsIndex

\* The hint that a refresh leaves is right if and only if the block that it started
\* from is the one at the position that it punctured.
LEMMA RefreshHintIs ==
    ASSUME IInv, RefreshHint
    PROVE  /\ sets' = [sets EXCEPT ![cur_qry_setno].hint = SymDiff(blk, net.parity)]
           /\ sets' \in [SetNos -> SetDesc]
           /\ \A s \in SetNos \ {cur_qry_setno} : sets'[s] = sets[s]
           /\ HintOfSet(cur_qry_setno)' <=> blk = {Positions(sets[cur_qry_setno])[punc_x]}
<1> DEFINE old == sets[cur_qry_setno]
           new == sets'[cur_qry_setno]
<1>1. /\ net.type = "PARITY" /\ sets' = [sets EXCEPT ![cur_qry_setno].hint = SymDiff(blk, net.parity)]
      /\ UNCHANGED <<punc_x, cur_qry_setno, qry_idx, blk, refreshed, drawn>>
  BY DEF RefreshHint
<1>2. /\ sets \in [SetNos -> SetDesc] /\ cur_qry_setno \in SetNos /\ blk \in SUBSET Index
      /\ net.parity = SymDiff(Parity(old), {Positions(old)[punc_x]}) /\ net.parity \in SUBSET Index
  BY <1>1, ReplyIs DEF IInv, StateInv
<1>3. SymDiff(blk, net.parity) \in SUBSET Index
  BY <1>2, SymDiffFacts
<1>4. new = [old EXCEPT !.hint = SymDiff(blk, net.parity)]
      /\ \A s \in SetNos \ {cur_qry_setno} : sets'[s] = sets[s]
  BY <1>1, <1>2
<1>5. old \in [prf_key : Key, shift : Index, hint : SUBSET Index]
  BY <1>2 DEF SetDesc
<1>6. /\ new.prf_key = old.prf_key /\ new.shift = old.shift /\ new.hint = SymDiff(blk, net.parity)
      /\ new \in SetDesc
  <2> HIDE DEF old, new
  <2> QED BY <1>3, <1>4, <1>5 DEF SetDesc
<1>7. sets' \in [SetNos -> SetDesc]
  BY <1>1, <1>2, <1>4, <1>6
<1>8. Parity(new) = Parity(old)
  BY <1>6, SameSet
<1>9. new.hint = Parity(new) <=> blk = {Positions(old)[punc_x]}
  <2>1. new.hint = SymDiff(blk, SymDiff(Parity(old), {Positions(old)[punc_x]}))
    BY <1>2, <1>6
  <2> DEFINE P == Parity(old)
             B == {Positions(old)[punc_x]}
  <2>2. new.hint = SymDiff(blk, SymDiff(P, B)) /\ Parity(new) = P
    BY <1>8, <2>1
  <2> HIDE DEF P, B, new
  <2>3. SymDiff(blk, SymDiff(P, B)) = P <=> blk = B
    BY SymDiffCancels
  <2> QED BY <2>2, <2>3 DEF B
<1>10. HintOfSet(cur_qry_setno)' <=> new.hint = Parity(new)
  BY <1>1 DEF HintOfSet
<1> QED BY <1>1, <1>4, <1>7, <1>9, <1>10

LEMMA RefreshHintStep ==
    ASSUME IInv, RefreshHint
    PROVE  IInv'
<1>1. /\ pc = "refresh" /\ pc' = "ready" /\ net' = Nothing
      /\ UNCHANGED <<punc_x, cur_qry_setno, qry_idx, blk, refreshed, drawn>>
  BY DEF RefreshHint
<1>2. StateInv'
  BY <1>1, RefreshHintIs DEF IInv, StateInv
<1>3. NetInv'
  BY <1>1 DEF NetInv
<1>4. HintsUntilRefreshed'
  BY <1>1, RefreshHintIs DEF IInv, PhaseInv, HintsUntilRefreshed, HintOfSet
<1>5. SetHoldsIndex'
  <2>1. /\ sets \in [SetNos -> SetDesc] /\ cur_qry_setno \in SetNos
        /\ sets' = [sets EXCEPT ![cur_qry_setno].hint = SymDiff(blk, net.parity)]
    BY <1>1, RefreshHintIs DEF IInv, StateInv
  <2>2. /\ sets'[cur_qry_setno].prf_key = sets[cur_qry_setno].prf_key
        /\ sets'[cur_qry_setno].shift = sets[cur_qry_setno].shift
    BY <2>1 DEF SetDesc
  <2>3. Positions(sets'[cur_qry_setno]) = Positions(sets[cur_qry_setno])
    BY <2>2 DEF Positions, Position
  <2>4. PointsOf(cur_qry_setno, qry_idx)' = PointsOf(cur_qry_setno, qry_idx)
    BY <1>1, <2>3 DEF PointsOf
  <2>5. refreshed # {}
    BY <1>1 DEF IInv, PhaseInv
  <2> QED BY <1>1, <2>2, <2>4, <2>5 DEF IInv, SetHoldsIndex
<1> QED BY <1>1, <1>2, <1>3, <1>4, <1>5 DEF IInv, PhaseInv, RecoversExactlyWithHint

LEMMA StutterStep ==
    ASSUME IInv, UNCHANGED vars
    PROVE  IInv'
<1>1. UNCHANGED <<sets, punc_x, cur_qry_setno, pc, qry_idx, blk, net, refreshed, drawn>>
  BY DEF vars, client
<1>2. OfflineMessages' = OfflineMessages /\ OnlineMessages' = OnlineMessages
  BY <1>1 DEF OfflineMessages, OnlineMessages
<1> QED BY <1>1, <1>2
        DEF IInv, StateInv, NetInv, PhaseInv, HintsUntilRefreshed, HintOfSet,
            RecoversExactlyWithHint, SetHoldsIndex, PointsOf

\* IInv holds of every behaviour of the client and the server of CK-PIR.
THEOREM InductiveInvariant == Spec => []IInv
<1>1. IInv /\ [Next]_vars => IInv'
  BY GenerateSetkeysStep, ThrowsStep, GenerateOfflineQueryStep, GenerateOfflineReplyStep,
     UpdateLocalHintsStep, GenerateOnlineQueryStep, GenerateOnlineReplyStep, RecoverBlockStep,
     GenerateRefreshQueryStep, RefreshThrowsStep, RefreshHintStep, StutterStep
     DEF Next
<1> QED BY InitIInv, <1>1, PTL DEF Spec

-----------------------------------------------------------------------------
(* What follows                                                             *)

\* The server reads inside of its database and every hint is the parity of blocks in it
\* (client.cpp:58-168, server.cpp:24-64).
THEOREM TypeCorrect == Spec => []TypeOK
<1>1. IInv => TypeOK
  <2> SUFFICES ASSUME IInv PROVE net \in Message
    BY DEF IInv, StateInv, TypeOK
  <2>1. CASE pc \in {"new", "keys", "ready", "recovered", "terminated"}
    BY <2>1 DEF IInv, NetInv, Nothing, Message
  <2>2. CASE pc = "offline"
    <3>1. sets \in [SetNos -> SetDesc]
      BY <2>2 DEF IInv, StateInv
    <3>2. /\ [s \in SetNos |-> sets[s].prf_key] \in [SetNos -> Key]
          /\ [s \in SetNos |-> sets[s].shift] \in [SetNos -> Index]
          /\ [s \in SetNos |-> Parity(sets[s])] \in [SetNos -> SUBSET Index]
      BY <3>1, SetFields
    <3> QED BY <2>2, <3>2 DEF IInv, NetInv, OfflineMessages, Message
  <2>3. CASE pc \in {"query", "refresh"}
    <3>1. sets \in [SetNos -> SetDesc] /\ cur_qry_setno \in SetNos /\ punc_x \in Point
      BY <2>3, Sizes DEF IInv, StateInv, Point
    <3>2. /\ sets[cur_qry_setno].prf_key \in Key /\ sets[cur_qry_setno].shift \in Index
          /\ Without(sets[cur_qry_setno], punc_x) \in SUBSET Index
      BY <3>1, SetFields
    <3> QED BY <2>3, <3>1, <3>2 DEF IInv, NetInv, OnlineMessages, PuncturedQuery, Message
  <2> QED BY <2>1, <2>2, <2>3 DEF IInv, StateInv
<1> QED BY InductiveInvariant, <1>1, PTL

\* The hint of a set stays the parity of the set until the set is refreshed, whatever
\* the queries and refreshes of the others do (server.cpp:24-46, client.cpp:89-93).
THEOREM HintsStayUntilRefreshed == Spec => []HintsUntilRefreshed
<1>1. IInv => HintsUntilRefreshed
  BY DEF IInv
<1> QED BY InductiveInvariant, <1>1, PTL

\* A query recovers its block exactly when the hint of the set it used is right
\* (client.cpp:130-168, server.cpp:49-64).
THEOREM QueriesRecoverWithHint == Spec => []RecoversExactlyWithHint
<1>1. IInv => RecoversExactlyWithHint
  BY DEF IInv
<1> QED BY InductiveInvariant, <1>1, PTL

\* The point that is punctured gives the index asked for, and a refreshed set holds the
\* index exactly when the point drawn for it, inside of the set or not, has the value of
\* one of its elements, whatever -g says of the size (client.cpp:110-115, 137-147).
THEOREM SetsHoldTheIndex == Spec => []SetHoldsIndex
<1>1. IInv => SetHoldsIndex
  BY DEF IInv
<1> QED BY InductiveInvariant, <1>1, PTL

\* A refresh leaves the right hint exactly when the position that it punctured, that of
\* the query before it, gives the recovered block under the new key as well
\* (client.cpp:96-127, main.cpp: the refresh).
THEOREM RefreshRightAtPoint == Spec => RefreshExactlyAtPoint
<1>1. IInv /\ [Next]_vars =>
        [pc = "refresh" /\ pc' = "ready" =>
            (HintOfSet(cur_qry_setno)' <=> blk = {Positions(sets[cur_qry_setno])[punc_x]})]_vars
  <2> SUFFICES ASSUME IInv, Next, pc = "refresh", pc' = "ready"
               PROVE  HintOfSet(cur_qry_setno)' <=> blk = {Positions(sets[cur_qry_setno])[punc_x]}
    OBVIOUS
  <2>1. RefreshHint
    BY DEF Next, GenerateSetkeys, GenerateSetkeysThrows, GenerateOfflineQuery, GenerateOfflineReply,
           UpdateLocalHints, GenerateOnlineQuery, GenerateOnlineQueryThrows, GenerateOnlineReply,
           RecoverBlock, GenerateRefreshQuery, GenerateRefreshQueryThrows, IInv, NetInv, OnlineMessages, PuncturedQuery
  <2> QED BY <2>1, RefreshHintIs
<1> QED BY InductiveInvariant, <1>1, PTL DEF Spec, RefreshExactlyAtPoint
=============================================================================
