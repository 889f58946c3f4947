-------------------------------- MODULE CkPir --------------------------------
(***************************************************************************)
(* The client and the server of CK-PIR (baselines/ck-pir): a set is a key  *)
(* of the punctured pseudorandom function and a shift, a query sends the   *)
(* key punctured at the point that gives the index asked for.  The driver  *)
(* is main.cpp, or NetClient with a server: an offline phase, then queries *)
(* with or without a refresh of the set they used.                         *)
(*                                                                         *)
(* Blocks are symbolic: the block at index y is {y}, an exclusive or of    *)
(* blocks is the symmetric difference.  PuncPrf shows that evaluating all  *)
(* points at once and evaluating a punctured key agree with Eval; here     *)
(* the function itself is a parameter.                                     *)
(***************************************************************************)
EXTENDS Integers, FiniteSets, FiniteSetsExt, Functions

CONSTANTS Key,        \* prf keys
          Prf,        \* Prf[k][x] is Eval(k, x, lgn, dbrange)
          Points,     \* 1 << lgn
          Elements,   \* 1 << (lgn/2): how many points make a set
          DbSize,     \* dbrange, db_size
          SetSize,    \* setsize: 1 << (g/2), g the argument -g of the program
          NbrSets     \* nbrsets

Point  == 0 .. Points - 1
Index  == 0 .. DbSize - 1
SetNos == 0 .. NbrSets - 1

ASSUME CkAssumption ==
    /\ {Points, Elements, DbSize, SetSize, NbrSets} \subseteq Nat \ {0}
    /\ Elements <= Points /\ Points <= DbSize
    /\ Prf \in [Key -> [Point -> Index]]

VARIABLES
    (* PIRClient *)
    sets,            \* sets[s]: prf_key, shift and hint
    punc_x,          \* the point that the last query found
    cur_qry_setno,   \* the set it found it in
    (* the driver *)
    pc,              \* what has been called last
    qry_idx,         \* the index it asked for
    blk,             \* the block it recovered
    net,             \* the argument on its way to the other side
    (* history *)
    refreshed,       \* the sets that have been refreshed
    drawn            \* the point that the refresh drew, until the next query

client == <<sets, punc_x, cur_qry_setno>>
vars   == <<client, pc, qry_idx, blk, net, refreshed, drawn>>

Nothing == [type |-> "NOTHING"]

Init ==
    /\ sets = [s \in {} |-> {}]
    /\ punc_x = 0 /\ cur_qry_setno = 0
    /\ pc = "new" /\ qry_idx = 0 /\ blk = {} /\ net = Nothing
    /\ refreshed = {} /\ drawn = 0

\* The exclusive or of the blocks at the positions f[x]: a block read twice cancels.
XorOf(f) == {y \in Range(f) : Cardinality({x \in DOMAIN f : f[x] = y}) % 2 = 1}

\* (mutant) The shifted value is not reduced.
PositionNotReduced(key, shift, x) == Prf[key][x] + shift

Position(key, shift, x) == (Prf[key][x] + shift) % DbSize

\* The positions of the points of a set, and the parity that its hint should be.
Positions(set) == [x \in 0 .. Elements - 1 |-> Position(set.prf_key, set.shift, x)]
Parity(set) == XorOf(Positions(set))
-----------------------------------------------------------------------------
(* The client is set up. *)

ValidKeys == {k \in Key : \A x, y \in 0 .. Elements - 1 : Prf[k][x] = Prf[k][y] => x = y}

(***************************************************************************)
(* generate_setkeys.  find_valid_key draws keys until one has no collision *)
(* but changes only its copy of the argument: the key of the set is        *)
(* whatever malloc has returned.                                           *)
(***************************************************************************)
GenerateSetkeys ==
    /\ pc = "new" /\ ValidKeys # {}
    /\ sets' \in [SetNos -> [prf_key : Key, shift : Index, hint : {{}}]]
    /\ pc' = "keys"
    /\ UNCHANGED <<punc_x, cur_qry_setno, qry_idx, blk, net, refreshed, drawn>>

\* All of the 128 keys that were drawn for one of the sets had a collision.
GenerateSetkeysThrows ==
    /\ pc = "new" /\ ValidKeys # Key
    /\ pc' = "terminated"
    /\ UNCHANGED <<client, qry_idx, blk, net, refreshed, drawn>>
-----------------------------------------------------------------------------
(* The offline phase *)

GenerateOfflineQuery ==
    /\ pc = "keys"
    /\ net' = [type |-> "OFFLINE",
               offline_keys |-> [s \in SetNos |-> sets[s].prf_key],
               shifts       |-> [s \in SetNos |-> sets[s].shift]]
    /\ pc' = "offline"
    /\ UNCHANGED <<client, qry_idx, blk, refreshed, drawn>>

\* (mutant) The hints are computed without the shifts.
GenerateOfflineReplyNoShift ==
    /\ net.type = "OFFLINE"
    /\ net' = [type |-> "HINTS",
               hints |-> [s \in SetNos |->
                            XorOf([x \in 0 .. Elements - 1 |-> Position(net.offline_keys[s], 0, x)])]]
    /\ UNCHANGED <<client, pc, qry_idx, blk, refreshed, drawn>>

GenerateOfflineReply ==
    /\ net.type = "OFFLINE"
    /\ net' = [type |-> "HINTS",
               hints |-> [s \in SetNos |->
                            XorOf([x \in 0 .. Elements - 1 |->
                                     Position(net.offline_keys[s], net.shifts[s], x)])]]
    /\ UNCHANGED <<client, pc, qry_idx, blk, refreshed, drawn>>

UpdateLocalHints ==
    /\ net.type = "HINTS"
    /\ sets' = [s \in SetNos |-> [sets[s] EXCEPT !.hint = SymDiff(@, net.hints[s])]]
    /\ net' = Nothing
    /\ pc' = "ready"
    /\ UNCHANGED <<punc_x, cur_qry_setno, qry_idx, blk, refreshed, drawn>>
-----------------------------------------------------------------------------
(* The online phase *)

\* The points at which set s gives idx.
PointsOf(s, idx) == {x \in 0 .. Elements - 1 : Positions(sets[s])[x] = idx}

\* What is sent: the key without its value at punc_x.
PuncturedQuery(set, x) ==
    [type |-> "ONLINE", prf_key |-> set.prf_key, bitvec |-> x, shift |-> set.shift]

\* The first set, and in it the first point, that gives the index.
GenerateOnlineQuery(idx) ==
    LET holding == {s \in SetNos : PointsOf(s, idx) # {}} IN
    /\ pc \in {"ready", "recovered"}
    /\ holding # {}
    /\ cur_qry_setno' = Min(holding)
    /\ punc_x' = Min(PointsOf(cur_qry_setno', idx))
    /\ net' = PuncturedQuery(sets[cur_qry_setno'], punc_x')
    /\ qry_idx' = idx
    /\ pc' = "query"
    /\ drawn' = 0
    /\ UNCHANGED <<sets, blk, refreshed>>

\* "cannot find desired index!"
GenerateOnlineQueryThrows(idx) ==
    /\ pc \in {"ready", "recovered"}
    /\ \A s \in SetNos : PointsOf(s, idx) = {}
    /\ pc' = "terminated"
    /\ UNCHANGED <<client, qry_idx, blk, net, refreshed, drawn>>

\* EvalPunc gives -1 at the punctured point, which the server leaves out.
GenerateOnlineReply ==
    /\ net.type = "ONLINE"
    /\ net' = [type |-> "PARITY",
               parity |-> XorOf([x \in 0 .. Elements - 1 \ {net.bitvec} |->
                                   Position(net.prf_key, net.shift, x)])]
    /\ UNCHANGED <<client, pc, qry_idx, blk, refreshed, drawn>>

\* (mutant) The hint of the first set is used.
RecoverBlockFirstSet ==
    /\ net.type = "PARITY" /\ pc = "query"
    /\ blk' = SymDiff(net.parity, sets[0].hint)
    /\ net' = Nothing
    /\ pc' = "recovered"
    /\ UNCHANGED <<client, qry_idx, refreshed, drawn>>

RecoverBlock ==
    /\ net.type = "PARITY" /\ pc = "query"
    /\ blk' = SymDiff(net.parity, sets[cur_qry_setno].hint)
    /\ net' = Nothing
    /\ pc' = "recovered"
    /\ UNCHANGED <<client, qry_idx, refreshed, drawn>>

\* What rand() % setsize can be.  The client computes lgn from dbrange and setsize
\* comes from -g, so that there may be more of these than elements, or than points.
Drawable == 0 .. SetSize - 1

\* (mutant) The shift moves the index away from point r.
GenerateRefreshQueryWrongShift ==
    /\ pc = "recovered"
    /\ \E key \in Key, r \in Drawable \cap Point :
        /\ sets' = [sets EXCEPT ![cur_qry_setno].prf_key = key,
                                ![cur_qry_setno].shift = (qry_idx + Prf[key][r]) % DbSize]
        /\ drawn' = r
    /\ net' = PuncturedQuery(sets'[cur_qry_setno], punc_x)
    /\ refreshed' = refreshed \cup {cur_qry_setno}
    /\ pc' = "refresh"
    /\ UNCHANGED <<punc_x, cur_qry_setno, qry_idx, blk>>

\* The shift puts the index at point r of the new key, which need not be an element of
\* the set; what is punctured is the point at which the old key gave it.
GenerateRefreshQuery ==
    /\ pc = "recovered"
    /\ \E key \in Key, r \in Drawable \cap Point :
        /\ sets' = [sets EXCEPT ![cur_qry_setno].prf_key = key,
                                ![cur_qry_setno].shift = (qry_idx + DbSize - Prf[key][r]) % DbSize]
        /\ drawn' = r
    /\ net' = PuncturedQuery(sets'[cur_qry_setno], punc_x)
    /\ refreshed' = refreshed \cup {cur_qry_setno}
    /\ pc' = "refresh"
    /\ UNCHANGED <<punc_x, cur_qry_setno, qry_idx, blk>>

\* "Eval input invalid": r is no point of the tree, and the key is replaced already.
GenerateRefreshQueryThrows ==
    /\ pc = "recovered" /\ Drawable \ Point # {}
    /\ \E key \in Key : sets' = [sets EXCEPT ![cur_qry_setno].prf_key = key]
    /\ pc' = "terminated"
    /\ UNCHANGED <<punc_x, cur_qry_setno, qry_idx, blk, net, refreshed, drawn>>

\* (mutant) The recovered block is not added.
RefreshHintForgetsBlock ==
    /\ net.type = "PARITY" /\ pc = "refresh"
    /\ sets' = [sets EXCEPT ![cur_qry_setno].hint = net.parity]
    /\ net' = Nothing
    /\ pc' = "ready"
    /\ UNCHANGED <<punc_x, cur_qry_setno, qry_idx, blk, refreshed, drawn>>

\* NetClient::refresh_query, and the last statement of main.
RefreshHint ==
    /\ net.type = "PARITY" /\ pc = "refresh"
    /\ sets' = [sets EXCEPT ![cur_qry_setno].hint = SymDiff(blk, net.parity)]
    /\ net' = Nothing
    /\ pc' = "ready"
    /\ UNCHANGED <<punc_x, cur_qry_setno, qry_idx, blk, refreshed, drawn>>
-----------------------------------------------------------------------------
Next ==
    \/ GenerateSetkeys
    \/ GenerateSetkeysThrows
    \/ GenerateOfflineQuery
    \/ GenerateOfflineReply
    \/ UpdateLocalHints
    \/ \E idx \in Index : GenerateOnlineQuery(idx)
    \/ \E idx \in Index : GenerateOnlineQueryThrows(idx)
    \/ GenerateOnlineReply
    \/ RecoverBlock
    \/ GenerateRefreshQuery
    \/ GenerateRefreshQueryThrows
    \/ RefreshHint

Spec == Init /\ [][Next]_vars
-----------------------------------------------------------------------------
(* Properties *)

SetDesc == [prf_key : Key, shift : Index, hint : SUBSET Index]

Message ==
    [type : {"NOTHING"}]
    \cup [type : {"OFFLINE"}, offline_keys : [SetNos -> Key], shifts : [SetNos -> Index]]
    \cup [type : {"HINTS"}, hints : [SetNos -> SUBSET Index]]
    \cup [type : {"ONLINE"}, prf_key : Key, bitvec : Point, shift : Index]
    \cup [type : {"PARITY"}, parity : SUBSET Index]

\* Every variable has its type; in particular the server reads blocks of its database.
TypeOK ==
    /\ pc \in {"new", "keys", "offline", "ready", "query", "recovered", "refresh", "terminated"}
    /\ sets \in [SetNos -> SetDesc] \/ (pc \in {"new", "terminated"} /\ DOMAIN sets = {})
    /\ punc_x \in 0 .. Elements - 1 /\ cur_qry_setno \in SetNos
    /\ qry_idx \in Index /\ blk \in SUBSET Index
    /\ net \in Message
    /\ refreshed \subseteq SetNos /\ drawn \in Point

HintOfSet(s) == sets[s].hint = Parity(sets[s])

(***************************************************************************)
(* The hint that the server computes in the offline phase is that of the   *)
(* set as the client evaluates it, key collisions or not, and queries and  *)
(* refreshes of other sets leave it alone.                                 *)
(***************************************************************************)
HintsUntilRefreshed ==
    pc \in {"ready", "query", "recovered", "refresh"} =>
        \A s \in SetNos \ refreshed : HintOfSet(s)

(***************************************************************************)
(* recover_block returns the block that was asked for exactly when the     *)
(* hint of the set is right.  Collisions in a key do no harm: a block that *)
(* the set holds twice cancels in the hint and in the reply, and puncturing*)
(* one of two points that give the index still leaves the other.           *)
(***************************************************************************)
RecoversExactlyWithHint ==
    pc = "recovered" => (blk = {qry_idx} <=> HintOfSet(cur_qry_setno))

(***************************************************************************)
(* A refresh leaves a set with the right hint exactly when the point that  *)
(* was punctured gives the block that was recovered.                       *)
(***************************************************************************)
RefreshExactlyAtPoint ==
    [][pc = "refresh" /\ pc' = "ready" =>
         (HintOfSet(cur_qry_setno)' <=> blk = {Positions(sets[cur_qry_setno])[punc_x]})]_vars

(***************************************************************************)
(* The point that a query punctures is the one that gives its index.  A    *)
(* refreshed set holds the index, so that it can be asked for again,       *)
(* exactly when the point that the refresh drew has the value of an        *)
(* element of the set: always when it is an element, and otherwise, where  *)
(* setsize is more than 1 << (lgn/2), only by a collision of the new key.  *)
(***************************************************************************)
SetHoldsIndex ==
    LET value == Prf[sets[cur_qry_setno].prf_key] IN
    /\ pc \in {"query", "recovered"} => Positions(sets[cur_qry_setno])[punc_x] = qry_idx
    /\ pc \in {"refresh", "ready"} /\ refreshed # {} =>
          (PointsOf(cur_qry_setno, qry_idx) # {}
             <=> \E x \in 0 .. Elements - 1 : value[x] = value[drawn])

=============================================================================
