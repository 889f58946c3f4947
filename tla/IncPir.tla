------------------------------- MODULE IncPir -------------------------------
(***************************************************************************)
(* A PIRClient (client.cpp) and a PIRServer (server.cpp) as the drivers of *)
(* the repository run them: an offline phase that computes the hints,      *)
(* then, in any order, queries, each with or without a refresh of the set  *)
(* it used, and batches of additions to the database.  One action is one   *)
(* method call; the object that a call returns is in `net` until the call  *)
(* of the other side that takes it.                                        *)
(*                                                                         *)
(* The server adds elements at any time after the offline phase, also      *)
(* while a query of this client is on its way (they belong to the batches  *)
(* of other clients, or of this one).                                      *)
(***************************************************************************)
EXTENDS PirSets

CONSTANTS InitRange,   \* size of the database at the offline phase
          SetSize,     \* setsize
          NbrSets,     \* nbrsets
          BatchSizes   \* bound: the numbers of elements a batch may add

SetNos == 0 .. NbrSets - 1

ASSUME ParamAssumption ==
    /\ SetSize \in Nat /\ SetSize >= 2
    /\ InitRange \in Nat /\ SetSize < InitRange /\ InitRange <= MaxDb
    /\ NbrSets \in Nat \ {0}
    /\ BatchSizes \subseteq Nat \ {0}

VARIABLES
    (* PIRClient *)
    dbrange,         \* the size of the database, as the client knows it
    sets,            \* localhints.sets
    parities,        \* localhints.parities
    cur_qry_setno,   \* the set that the current query used
    cur_qry_blk,     \* the block that the current query recovered
    (* PIRServer *)
    dblen,           \* the size of the database: its dbrange and (*db).size()
    (* the driver *)
    pc,              \* what the client has called last
    cur_qry_idx,     \* the index it asked for
    net,             \* the argument on its way to the other side
    (* history *)
    sound,           \* sound[s]: no step so far has spoilt the hint of set s
    curOk            \* the current query used a sound set and removed its index

client == <<dbrange, sets, parities, cur_qry_setno, cur_qry_blk>>
vars   == <<client, dblen, pc, cur_qry_idx, net, sound, curOk>>

Nothing == [type |-> "NOTHING"]

Init ==
    /\ dbrange = InitRange
    /\ sets \in [SetNos -> [sk : Key, shift : 0 .. InitRange - 1,
                            aux : {<<[range |-> InitRange, cnt |-> SetSize]>>}]]
    /\ parities = [s \in SetNos |-> {}]
    /\ cur_qry_setno = 0
    /\ cur_qry_blk = {}
    /\ dblen = InitRange
    /\ pc = "new"
    /\ cur_qry_idx = 0
    /\ net = Nothing
    /\ sound = [s \in SetNos |-> TRUE]
    /\ curOk = FALSE

Members(s) == Expand(sets[s], dbrange)

\* A client that is neither new nor waiting for a reply.
Free == pc \in {"ready", "recovered"}
-----------------------------------------------------------------------------
(* The offline phase *)

GenerateOfflineQuery ==
    /\ pc = "new"
    /\ net' = [type |-> "OFFLINE", sets |-> sets]
    /\ pc' = "prep"
    /\ UNCHANGED <<client, dblen, cur_qry_idx, sound, curOk>>

GenerateOfflineReply ==
    /\ net.type = "OFFLINE"
    /\ net' = [type |-> "PARITIES",
               parities |-> [s \in SetNos |-> OfflineParity(net.sets[s], dblen, SetSize)]]
    /\ UNCHANGED <<client, dblen, pc, cur_qry_idx, sound, curOk>>

\* update_parity: both for the offline phase and for a batch of additions.
UpdateParity ==
    /\ net.type = "PARITIES"
    /\ parities' = [s \in SetNos |-> SymDiff(parities[s], net.parities[s])]
    /\ net' = Nothing
    /\ pc' = "ready"
    /\ UNCHANGED <<dbrange, sets, cur_qry_setno, cur_qry_blk, dblen, cur_qry_idx, sound, curOk>>
-----------------------------------------------------------------------------
(* The online phase *)

HoldingSets(idx) == {s \in SetNos : Holds(sets[s], idx)}

GenerateOnlineQuery(idx) ==
    LET setno == IF HoldingSets(idx) = {} THEN 0 ELSE Min(HoldingSets(idx)) IN
    /\ Free
    /\ idx < dbrange
    /\ \E indices \in {RemoveIndex(Members(setno), idx)} \cup RemoveOther(Members(setno), idx) :
        /\ net' = [type |-> "ONLINE", indices |-> indices]
        /\ curOk' = (sound[setno] /\ idx \in Members(setno) /\ idx \notin indices)
    /\ cur_qry_setno' = setno
    /\ cur_qry_idx' = idx
    /\ pc' = "query"
    /\ UNCHANGED <<dbrange, sets, parities, cur_qry_blk, dblen, sound>>

GenerateOnlineReply ==
    /\ net.type = "ONLINE"
    /\ net' = [type |-> "PARITY", parity |-> XorOf([i \in net.indices |-> i])]
    /\ UNCHANGED <<client, dblen, pc, cur_qry_idx, sound, curOk>>

\* (mutant) The reply is combined with the parity of the first set, whichever was used.
QueryRecovFirstSet ==
    /\ net.type = "PARITY" /\ pc = "query"
    /\ cur_qry_blk' = SymDiff(net.parity, parities[0])
    /\ net' = Nothing
    /\ pc' = "recovered"
    /\ UNCHANGED <<dbrange, sets, parities, cur_qry_setno, dblen, cur_qry_idx, sound, curOk>>

QueryRecov ==
    /\ net.type = "PARITY" /\ pc = "query"
    /\ cur_qry_blk' = SymDiff(net.parity, parities[cur_qry_setno])
    /\ net' = Nothing
    /\ pc' = "recovered"
    /\ UNCHANGED <<dbrange, sets, parities, cur_qry_setno, dblen, cur_qry_idx, sound, curOk>>

\* The new first slot spans the whole database; its shift puts idx at element r.
GenerateRefreshQuery ==
    LET idx == cur_qry_idx  setno == cur_qry_setno IN
    /\ pc = "recovered"
    /\ \E nsk \in Key, r \in 0 .. SetSize - 1 :
        LET y   == CycleWalk(r, dbrange, nsk)
            set == [sk    |-> nsk,
                    shift |-> (idx + dbrange - y) % dbrange,
                    aux   |-> <<[range |-> dbrange, cnt |-> SetSize]>>]
            m   == {(CycleWalk(i, dbrange, nsk) + set.shift) % dbrange : i \in 0 .. SetSize - 1}
        IN  /\ sets' = [sets EXCEPT ![setno] = set]
            /\ \E indices \in {RemoveIndex(m, idx)} \cup RemoveOther(m, idx) :
                /\ net' = [type |-> "ONLINE", indices |-> indices]
                /\ sound' = [sound EXCEPT ![setno] = curOk /\ idx \notin indices]
    /\ pc' = "refresh"
    /\ UNCHANGED <<dbrange, parities, cur_qry_setno, cur_qry_blk, dblen, cur_qry_idx, curOk>>

\* (mutant) The refreshed parity lacks the block that the query recovered.
RefreshRecovForgetsBlock ==
    /\ net.type = "PARITY" /\ pc = "refresh"
    /\ parities' = [parities EXCEPT ![cur_qry_setno] = net.parity]
    /\ net' = Nothing
    /\ pc' = "ready"
    /\ UNCHANGED <<dbrange, sets, cur_qry_setno, cur_qry_blk, dblen, cur_qry_idx, sound, curOk>>

RefreshRecov ==
    /\ net.type = "PARITY" /\ pc = "refresh"
    /\ parities' = [parities EXCEPT ![cur_qry_setno] = SymDiff(net.parity, cur_qry_blk)]
    /\ net' = Nothing
    /\ pc' = "ready"
    /\ UNCHANGED <<dbrange, sets, cur_qry_setno, cur_qry_blk, dblen, cur_qry_idx, sound, curOk>>
-----------------------------------------------------------------------------
(* Batched additions *)

AddElements(nbr_add) ==
    /\ pc \notin {"new", "prep"}
    /\ dblen + nbr_add <= MaxDb
    /\ dblen' = dblen + nbr_add
    /\ UNCHANGED <<client, pc, cur_qry_idx, net, sound, curOk>>

\* A set takes in as many of the new rows as it drew distinct places for, at most
\* setsize, and for each of them loses an element drawn with replacement.
Draws(nbr_add) ==
    {hits \in [SetNos -> UNION {[1 .. ell -> UNION {FallSlots(sets[s].aux) : s \in SetNos}] :
                                  ell \in 0 .. Min({nbr_add, SetSize})}] :
        \A s \in SetNos : Range(hits[s]) \subseteq FallSlots(sets[s].aux)}

BatchedAdditionQuery(nbr_add) ==
    /\ Free
    /\ dbrange + nbr_add <= MaxDb
    /\ dbrange' = dbrange + nbr_add
    /\ \E hits \in Draws(nbr_add) :
        LET diffsets == [s \in SetNos |-> BatchDiff(sets[s], hits[s], nbr_add)] IN
        /\ sets' = [s \in SetNos |-> CurrSet(diffsets[s])]
        /\ net' = [type |-> "ADD", diffsets |-> diffsets]
        /\ sound' = [s \in SetNos |-> sound[s] /\ NoUnderflow(sets[s].aux, hits[s])]
    /\ pc' = "update"
    /\ UNCHANGED <<parities, cur_qry_setno, cur_qry_blk, dblen, cur_qry_idx, curOk>>

(***************************************************************************)
(* The drivers add the elements before the batch of a client is answered.  *)
(* An element outside of the range of its slot makes cycle_walk throw.     *)
(***************************************************************************)
BatchedAdditionReply ==
    /\ net.type = "ADD"
    /\ dbrange <= dblen
    /\ \A s \in SetNos : ~DiffThrows(net.diffsets[s])
    /\ net' = [type |-> "PARITIES",
               parities |-> [s \in SetNos |-> DiffParity(net.diffsets[s])]]
    /\ UNCHANGED <<client, dblen, pc, cur_qry_idx, sound, curOk>>

BatchedAdditionThrows ==
    /\ net.type = "ADD"
    /\ dbrange <= dblen
    /\ \E s \in SetNos : DiffThrows(net.diffsets[s])
    /\ net' = Nothing
    /\ pc' = "aborted"
    /\ UNCHANGED <<client, dblen, cur_qry_idx, sound, curOk>>
-----------------------------------------------------------------------------
Next ==
    \/ GenerateOfflineQuery
    \/ GenerateOfflineReply
    \/ UpdateParity
    \/ \E idx \in Index : GenerateOnlineQuery(idx)
    \/ GenerateOnlineReply
    \/ QueryRecov
    \/ GenerateRefreshQuery
    \/ RefreshRecov
    \/ \E n \in BatchSizes : AddElements(n)
    \/ \E n \in BatchSizes : BatchedAdditionQuery(n)
    \/ BatchedAdditionReply
    \/ BatchedAdditionThrows

Spec == Init /\ [][Next]_vars
-----------------------------------------------------------------------------
(* Properties *)

Message ==
    [type : {"NOTHING"}]
    \cup [type : {"OFFLINE"}, sets : [SetNos -> SetDesc]]
    \cup [type : {"PARITIES"}, parities : [SetNos -> SUBSET Index]]
    \cup [type : {"ONLINE"}, indices : SUBSET Index]
    \cup [type : {"PARITY"}, parity : SUBSET Index]
    \cup [type : {"ADD"}, diffsets : [SetNos -> DiffSetDesc]]

\* Every variable has its type; in particular every index is one of the database
\* and every count a uint32_t.
TypeOK ==
    /\ dbrange \in InitRange .. MaxDb
    /\ sets \in [SetNos -> SetDesc]
    /\ parities \in [SetNos -> SUBSET Index]
    /\ cur_qry_setno \in SetNos
    /\ cur_qry_blk \in SUBSET Index
    /\ dblen \in InitRange .. MaxDb
    /\ pc \in {"new", "prep", "ready", "query", "recovered", "refresh", "update", "aborted"}
    /\ cur_qry_idx \in Index
    /\ net \in Message
    /\ sound \in [SetNos -> BOOLEAN]
    /\ curOk \in BOOLEAN

(***************************************************************************)
(* Outside of a refresh and of an update, the parity the client keeps for  *)
(* a set (localhints.parities) is that of exactly the indices that the     *)
(* set's description expands to, however many batches and refreshes the    *)
(* description and the parity went through separately.                     *)
(***************************************************************************)
HintExact ==
    pc \in {"ready", "query", "recovered"} =>
        \A s \in SetNos : sound[s] => parities[s] = Members(s)

(***************************************************************************)
(* query_recov returns the block at the queried index whenever the set it  *)
(* used was sound and held the index, and the index itself was removed.    *)
(***************************************************************************)
RecoverExact == pc = "recovered" /\ curOk => cur_qry_blk = {cur_qry_idx}

(***************************************************************************)
(* The search by inverse evaluation and the forward expansion, which are   *)
(* two pieces of code in generate_online_query, agree on what a sound set  *)
(* holds, except in a first slot whose shift is 0.                         *)
(***************************************************************************)
FindAgrees ==
    \A s \in SetNos, idx \in 0 .. dbrange - 1 :
        sound[s] /\ (sets[s].shift # 0 \/ idx >= sets[s].aux[1].range) =>
            (Holds(sets[s], idx) <=> idx \in Members(s))

(***************************************************************************)
(* Kicking elements out of the old slots and sampling new ones keeps every *)
(* sound set at exactly setsize distinct indices: two slots never yield    *)
(* the same index, and the two halves of batched_addition_query balance.   *)
(***************************************************************************)
SizeConserved == \A s \in SetNos : sound[s] => Cardinality(Members(s)) = SetSize

(***************************************************************************)
(* The server, which does not check the indices it is sent, never reads    *)
(* outside of the database: not for a query that was overtaken by          *)
(* additions, and not for the difference of a batch.                       *)
(***************************************************************************)
ServerInBounds ==
    /\ net.type = "ONLINE" => net.indices \subseteq 0 .. dblen - 1
    /\ net.type = "ADD" /\ dbrange <= dblen =>
         \A s \in SetNos : ~DiffThrows(net.diffsets[s]) =>
                                DiffParity(net.diffsets[s]) \subseteq 0 .. dblen - 1

\* The server throws while it answers a batch only for a set with a spoilt hint.
SoundNeverThrows == pc = "aborted" => \E s \in SetNos : ~sound[s]

(***************************************************************************)
(* A batch of additions never makes a sound set pick up an index that was  *)
(* already in the database when the batch began, and takes as many old     *)
(* indices out as it puts new ones in.                                     *)
(***************************************************************************)
BatchExchanges ==
    [][\A s \in SetNos :
        dbrange' # dbrange /\ sound'[s] =>
            LET old == Members(s)  new == Members(s)' IN
            /\ new \cap (0 .. dbrange - 1) \subseteq old
            /\ Cardinality(old \ new) = Cardinality(new \ old)]_vars

(***************************************************************************)
(* Neither rand() % s.size() in probabilistic_remove nor the remainder by  *)
(* lsum in batched_addition_query divides by zero: no set, spoilt or not,  *)
(* is ever left without an index besides the one asked for.                *)
(***************************************************************************)
NoZeroDivisor ==
    \A s \in SetNos : /\ Cntr(sets[s].aux, Len(sets[s].aux)) # 0
                      /\ \A idx \in Index : Members(s) \ {idx} # {}

(***************************************************************************)
(* The inductive invariant: what HintExact and RecoverExact need to know   *)
(* of the states between a request and its reply.                          *)
(***************************************************************************)

\* A reply is the reply to the request the client is waiting for.
TurnsInv ==
    /\ pc \in {"new", "ready", "recovered", "aborted"} => net.type = "NOTHING"
    /\ pc = "prep" => net.type \in {"OFFLINE", "PARITIES"}
    /\ pc \in {"query", "refresh"} => net.type \in {"ONLINE", "PARITY"}
    /\ pc = "update" => net.type \in {"ADD", "PARITIES"}

\* Every set covers the database as the client knows it; a sound one has counts
\* that fit. The client lags behind the server except while it awaits a batch.
ShapeInv ==
    /\ cur_qry_idx < dbrange
    /\ net.type # "ADD" => dbrange <= dblen
    /\ \A s \in SetNos : /\ WellFormed(sets[s], dbrange) /\ CountsOk(sets[s], dbrange)
                         /\ sound[s] => Fits(sets[s])
    /\ net.type = "ONLINE" => net.indices \subseteq 0 .. dbrange - 1

\* Before the hints exist the sets are as the constructor made them.
OfflineInv ==
    pc \in {"new", "prep"} =>
        /\ dbrange = InitRange /\ dblen = InitRange
        /\ \A s \in SetNos : /\ parities[s] = {}
                             /\ sets[s].aux = <<[range |-> InitRange, cnt |-> SetSize]>>
        /\ net.type = "OFFLINE" => net.sets = sets

\* Whose parity the hint of a sound set is: of what the set expands to, or, while
\* an update is pending, of what it expanded to before.
HintInv ==
    \A s \in SetNos : sound[s] =>
        /\ pc \in {"ready", "query", "recovered"} \/ (pc = "refresh" /\ s # cur_qry_setno)
             => parities[s] = Members(s)
        /\ net.type = "ADD" =>
             LET d == net.diffsets[s] IN
             /\ Fits(PrevSet(d)) /\ Shrinks(d)
             /\ parities[s] = Expand(PrevSet(d), Coverage(d.aux_prev))
        /\ net.type = "PARITIES" => SymDiff(parities[s], net.parities[s]) = Members(s)

DiffInv ==
    net.type = "ADD" =>
        \A s \in SetNos : LET d == net.diffsets[s] IN
            /\ WellFormed(PrevSet(d), Coverage(d.aux_prev)) /\ Appends(d)
            /\ sets[s] = CurrSet(d)

\* What an unspoilt query carries, and its reply.
QueryInv ==
    curOk =>
        /\ pc = "query" => sound[cur_qry_setno] /\ cur_qry_idx \in Members(cur_qry_setno)
        /\ pc = "query" /\ net.type = "ONLINE" =>
             net.indices = Members(cur_qry_setno) \ {cur_qry_idx}
        /\ pc = "query" /\ net.type = "PARITY" =>
             SymDiff(net.parity, parities[cur_qry_setno]) = {cur_qry_idx}
        /\ pc = "recovered" => cur_qry_blk = {cur_qry_idx}

\* What an unspoilt refresh carries, and its reply.
RefreshInv ==
    pc = "refresh" /\ sound[cur_qry_setno] =>
        /\ cur_qry_blk = {cur_qry_idx} /\ cur_qry_idx \in Members(cur_qry_setno)
        /\ net.type = "ONLINE" => net.indices = Members(cur_qry_setno) \ {cur_qry_idx}
        /\ net.type = "PARITY" => SymDiff(net.parity, cur_qry_blk) = Members(cur_qry_setno)

IInv ==
    /\ TypeOK
    /\ TurnsInv
    /\ ShapeInv
    /\ OfflineInv
    /\ DiffInv
    /\ HintInv
    /\ QueryInv
    /\ RefreshInv
    /\ SoundNeverThrows

\* While a batch is on its way the hints are those of the database before it, and
\* no set has gained a row that was there already.
GrowInv ==
    pc = "update" => \E old \in 1 .. dbrange - 1 : \A s \in SetNos : sound[s] =>
        /\ parities[s] \subseteq 0 .. old - 1
        /\ Members(s) \cap (0 .. old - 1) \subseteq parities[s]

\* A set has setsize elements, up to the 2^32 that each wrapped count adds; of a sound
\* one none has wrapped, and of a spoilt one the slots that are not skipped make up for
\* those that are.
SizeInv ==
    \A s \in SetNos :
        LET elements == Cardinality(Cells(sets[s].aux, DOMAIN sets[s].aux)) IN
        /\ elements % UModulus = SetSize
        /\ sound[s] => elements = SetSize
        /\ SetSize <= Cardinality(Cells(sets[s].aux, Expanded(sets[s], dbrange)))

(***************************************************************************)
(* The client and the server implement a store of hints: whatever the      *)
(* descriptions go through, a query of a good set recovers its block, a    *)
(* refreshed set is good again only with the block it was refreshed for,   *)
(* and a batch only trades old blocks for new ones.  A set is out of use   *)
(* while it is refreshed.                                                  *)
(***************************************************************************)
GoodSets ==
    IF pc \in {"new", "prep"} THEN {}
    ELSE {s \in SetNos : sound[s] /\ ~ (pc = "refresh" /\ s = cur_qry_setno)}

Hints == [s \in SetNos |-> IF s \in GoodSets THEN parities[s] ELSE {}]

Phase == CASE pc \in {"new", "prep"}         -> "setup"
           [] pc \in {"ready", "recovered"}  -> "idle"
           [] pc = "query"                   -> "asked"
           [] pc = "refresh"                 -> "replacing"
           [] pc \in {"update", "aborted"}   -> "growing"

Store == INSTANCE HintStore WITH
            len <- dbrange, phase <- Phase, good <- GoodSets, hint <- Hints,
            asked <- cur_qry_idx, used <- cur_qry_setno, exact <- curOk, answer <- cur_qry_blk

ImplementsHintStore == Store!Spec

(***************************************************************************)
(* "kick out ell random indices" (client.cpp:239): a batch leaves a set    *)
(* with as many indices as it had.                                         *)
(***************************************************************************)
KicksEllIndices == pc = "update" => \A s \in SetNos : Cardinality(Members(s)) = SetSize
=============================================================================
