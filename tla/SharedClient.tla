---------------------------- MODULE SharedClient ----------------------------
(***************************************************************************)
(* One client object that several threads share, as the load generators of *)
(* the repository use it: the main thread generates the queries of all     *)
(* threads first, on one client, and each thread then sends its query and  *)
(* recovers its block through that client, passed by reference.            *)
(*   "online"   inc-pir/src/online_client_eval.cpp                         *)
(*   "refresh"  inc-pir/src/refresh_client_eval.cpp                        *)
(*   "ck"       baselines/ck-pir/src/online_client_eval.cpp                *)
(*                                                                         *)
(* A set is the set of indices it expands to (IncPir has the descriptions) *)
(* and a block has two words, which an assignment of a block copies one    *)
(* after the other: nothing orders the accesses of two threads.            *)
(***************************************************************************)
EXTENDS Naturals, FiniteSets, FiniteSetsExt

CONSTANTS Modes,     \* the load generators to look at
          Load,      \* offer_load
          DbSize,    \* db_size
          SetSize,   \* set_size
          NbrSets    \* nbr_sets

ASSUME SharedAssumption ==
    /\ Modes \subseteq {"online", "refresh", "ck"}
    /\ {Load, DbSize, SetSize, NbrSets} \subseteq Nat \ {0}
    /\ SetSize >= 2 /\ SetSize < DbSize

Threads == 1 .. Load
Index   == 0 .. DbSize - 1
SetNos  == 0 .. NbrSets - 1
Words   == {"low", "high"}
Last    == Load

VARIABLES
    mode,
    (* the client *)
    sets,            \* the indices of every set
    parities,        \* localhints.parities
    cur_qry_setno,
    cur_qry_blk,
    (* the main thread *)
    generated,       \* how many queries it has generated
    qry_idx,         \* refresh: the index that was queried before
    querys,          \* querys[t]: the query of thread t
    (* thread t *)
    pc,              \* what it does next
    blk,             \* the block it recovers, in registers and on its stack
    query_res,       \* what it returned
    (* history *)
    used,            \* used[t]: what the set of query t expanded to
    overlap,         \* two threads have been in the recovery at the same time
    applied          \* the thread whose recovery ended last

client == <<sets, parities, cur_qry_setno, cur_qry_blk>>
main   == <<generated, qry_idx, querys>>
vars   == <<mode, client, main, pc, blk, query_res, used, overlap, applied>>

\* A block, or the parity of several, has the same content in both words.
Whole(s)  == [w \in Words |-> s]
Zero      == Whole({})
Xor(a, b) == [w \in Words |-> SymDiff(a[w], b[w])]

Init ==
    /\ mode \in Modes
    /\ sets \in [SetNos -> kSubset(SetSize, Index)]
    /\ parities = [s \in SetNos |-> Whole(sets[s])]
    /\ cur_qry_setno = 0 /\ cur_qry_blk = Zero
    /\ generated = 0
    /\ qry_idx = DbSize
    /\ querys = [t \in Threads |-> [idx |-> 0, indices |-> {}]]
    /\ pc = [t \in Threads |-> "new"]
    /\ blk = [t \in Threads |-> Zero] /\ query_res = [t \in Threads |-> Zero]
    /\ used = [t \in Threads |-> {}]
    /\ overlap = FALSE /\ applied = 0
-----------------------------------------------------------------------------
(* The main thread.                                                        *)

\* The main thread generates offer_load queries.
MoreQueries == generated < Last

HoldingSets(idx) == {s \in SetNos : idx \in sets[s]}

\* What is sent for a set: without the index, or without another one (client.cpp, "probabilistic_remove").
Sent(s, idx) == {s \ {idx}} \cup {(s \ {r}) \cup {idx} : r \in s \ {idx}}

GenerateOnlineQuery ==
    /\ mode = "online" /\ MoreQueries
    /\ \E idx \in Index :
        LET setno == IF HoldingSets(idx) = {} THEN 0 ELSE Min(HoldingSets(idx)) IN
        \E indices \in Sent(sets[setno], idx) :
            /\ cur_qry_setno' = setno
            /\ querys' = [querys EXCEPT ![generated + 1] = [idx |-> idx, indices |-> indices]]
            /\ used' = [used EXCEPT ![generated + 1] = sets[setno]]
    /\ generated' = generated + 1
    /\ UNCHANGED <<mode, sets, parities, cur_qry_blk, qry_idx, pc, blk, query_res, overlap, applied>>

\* The client of CK-PIR throws when no set holds the index, and always removes the index.
CkGenerateOnlineQuery ==
    /\ mode = "ck" /\ MoreQueries
    /\ \E idx \in Index :
        /\ HoldingSets(idx) # {}
        /\ LET setno == Min(HoldingSets(idx)) IN
            /\ cur_qry_setno' = setno
            /\ querys' = [querys EXCEPT ![generated + 1] =
                             [idx |-> idx, indices |-> sets[setno] \ {idx}]]
            /\ used' = [used EXCEPT ![generated + 1] = sets[setno]]
    /\ generated' = generated + 1
    /\ UNCHANGED <<mode, sets, parities, cur_qry_blk, qry_idx, pc, blk, query_res, overlap, applied>>

\* The query that the main thread of refresh_client_eval makes before it starts threads.
QueryOnce ==
    /\ mode = "refresh" /\ qry_idx = DbSize
    /\ \E idx \in Index :
        LET setno == IF HoldingSets(idx) = {} THEN 0 ELSE Min(HoldingSets(idx)) IN
        \E indices \in Sent(sets[setno], idx) :
            /\ qry_idx' = idx
            /\ cur_qry_setno' = setno
            /\ cur_qry_blk' = Xor(Whole(indices), parities[setno])
    /\ UNCHANGED <<mode, sets, parities, generated, querys, pc, blk, query_res, used, overlap, applied>>

\* Each refresh draws a new set around the index and replaces the one before.
GenerateRefreshQuery ==
    /\ mode = "refresh" /\ qry_idx # DbSize /\ MoreQueries
    /\ \E s \in kSubset(SetSize, Index) :
        /\ qry_idx \in s
        /\ sets' = [sets EXCEPT ![cur_qry_setno] = s]
        /\ used' = [used EXCEPT ![generated + 1] = s]
        /\ \E indices \in Sent(s, qry_idx) :
            querys' = [querys EXCEPT ![generated + 1] = [idx |-> qry_idx, indices |-> indices]]
    /\ generated' = generated + 1
    /\ UNCHANGED <<mode, parities, cur_qry_setno, cur_qry_blk, qry_idx, pc, blk, query_res, overlap, applied>>

\* usleep between two starts orders nothing.
Spawn(t) ==
    /\ generated = Last /\ pc[t] = "new"
    /\ \A u \in Threads : u < t => pc[u] # "new"
    /\ pc' = [pc EXCEPT ![t] = "query"]
    /\ UNCHANGED <<mode, client, main, blk, query_res, used, overlap, applied>>
-----------------------------------------------------------------------------
(* The threads.                                                            *)

Recovering == {"write low", "write high", "read low", "read high"}
Goto(t, next) ==
    /\ pc' = [pc EXCEPT ![t] = next]
    /\ overlap' = (overlap \/ (next \in Recovering /\ \E u \in Threads \ {t} : pc[u] \in Recovering))

\* sendMsg, the server's reply, recvMsg.
Exchange(t) ==
    /\ pc[t] = "query"
    /\ blk' = [blk EXCEPT ![t] = Whole(querys[t].indices)]
    /\ Goto(t, "write low")
    /\ UNCHANGED <<mode, client, main, query_res, used, applied>>

NextWrite(t) == IF pc[t] = "write low" THEN "write high" ELSE "read low"
NextRead(t)  == IF pc[t] = "read low" THEN "read high" ELSE "done"
WordOf(t)    == IF pc[t] \in {"write low", "read low"} THEN "low" ELSE "high"

\* (mutant) The reply is combined with the parity of the set that the thread's own query used.
QueryRecovOwnSet(t) ==
    /\ mode = "online" /\ pc[t] \in {"write low", "write high"}
    /\ cur_qry_blk' = [cur_qry_blk EXCEPT ![WordOf(t)] = SymDiff(blk[t][WordOf(t)], used[t])]
    /\ Goto(t, NextWrite(t))
    /\ UNCHANGED <<mode, sets, parities, cur_qry_setno, main, blk, query_res, used, applied>>

\* query_recov, the assignment: cur_qry_blk = reply ^ parities[cur_qry_setno].
QueryRecov(t) ==
    /\ mode = "online" /\ pc[t] \in {"write low", "write high"}
    /\ cur_qry_blk' = [cur_qry_blk EXCEPT ![WordOf(t)] =
                          SymDiff(blk[t][WordOf(t)], parities[cur_qry_setno][WordOf(t)])]
    /\ Goto(t, NextWrite(t))
    /\ UNCHANGED <<mode, sets, parities, cur_qry_setno, main, blk, query_res, used, applied>>

\* query_recov, `return cur_qry_blk`: it is read again, after the assignment.
QueryRecovReturn(t) ==
    /\ mode = "online" /\ pc[t] \in {"read low", "read high"}
    /\ query_res' = [query_res EXCEPT ![t][WordOf(t)] = cur_qry_blk[WordOf(t)]]
    /\ applied' = t
    /\ Goto(t, NextRead(t))
    /\ UNCHANGED <<mode, client, main, blk, used>>

\* (mutant) The hint of the first set is used.
CkRecoverBlockFirstSet(t) ==
    /\ mode = "ck" /\ pc[t] = "write low"
    /\ query_res' = [query_res EXCEPT ![t] = Xor(blk[t], parities[0])]
    /\ applied' = t
    /\ Goto(t, "done")
    /\ UNCHANGED <<mode, client, main, blk, used>>

\* recover_block of CK-PIR: the block is a local variable.
CkRecoverBlock(t) ==
    /\ mode = "ck" /\ pc[t] = "write low"
    /\ query_res' = [query_res EXCEPT ![t] = Xor(blk[t], parities[cur_qry_setno])]
    /\ applied' = t
    /\ Goto(t, "done")
    /\ UNCHANGED <<mode, client, main, blk, used>>

\* (mutant) The parity is added to the old one.
RefreshRecovAccumulates(t) ==
    /\ mode = "refresh" /\ pc[t] \in {"write low", "write high"}
    /\ parities' = [parities EXCEPT ![cur_qry_setno][WordOf(t)] =
                       SymDiff(@, SymDiff(blk[t][WordOf(t)], cur_qry_blk[WordOf(t)]))]
    /\ applied' = t
    /\ Goto(t, IF pc[t] = "write low" THEN "write high" ELSE "done")
    /\ UNCHANGED <<mode, sets, cur_qry_setno, cur_qry_blk, main, blk, query_res, used>>

\* refresh_recov: parities[cur_qry_setno] = reply ^ cur_qry_blk.
RefreshRecov(t) ==
    /\ mode = "refresh" /\ pc[t] \in {"write low", "write high"}
    /\ parities' = [parities EXCEPT ![cur_qry_setno][WordOf(t)] =
                       SymDiff(blk[t][WordOf(t)], cur_qry_blk[WordOf(t)])]
    /\ applied' = t
    /\ Goto(t, IF pc[t] = "write low" THEN "write high" ELSE "done")
    /\ UNCHANGED <<mode, sets, cur_qry_setno, cur_qry_blk, main, blk, query_res, used>>

Joined == \A t \in Threads : pc[t] = "done"

Join == Joined /\ UNCHANGED vars
-----------------------------------------------------------------------------
Next ==
    \/ GenerateOnlineQuery
    \/ CkGenerateOnlineQuery
    \/ QueryOnce
    \/ GenerateRefreshQuery
    \/ Join
    \/ \E t \in Threads : \/ Spawn(t) \/ Exchange(t)
                          \/ QueryRecov(t) \/ QueryRecovReturn(t) \/ CkRecoverBlock(t)
                          \/ RefreshRecov(t)

Spec == Init /\ [][Next]_vars
-----------------------------------------------------------------------------
(* Properties *)

\* The query of t used a set that holds its index and removed the index.
Plain(t) == querys[t].idx \in used[t] /\ querys[t].indices = used[t] \ {querys[t].idx}

(***************************************************************************)
(* Which threads of a load generator recover the block they asked for when *)
(* their recoveries do not overlap (those of CK-PIR may): exactly those    *)
(* whose query used the same indices as the last query generated, because  *)
(* query_recov and recover_block look the set up in cur_qry_setno, which   *)
(* the last query has set.                                                 *)
(***************************************************************************)
RightExactlyForTheLastSet ==
    mode = "ck" \/ (mode = "online" /\ ~ overlap) =>
        \A t \in Threads : pc[t] = "done" /\ Plain(t) =>
            (query_res[t] = Whole({querys[t].idx}) <=> used[t] = used[Last])

(***************************************************************************)
(* However the recoveries overlap, every word that a thread returns is the *)
(* combination of some thread's reply, its own or not, with the hint of    *)
(* the last query: a race can exchange answers but not invent one.         *)
(***************************************************************************)
RacesOnlyExchangeAnswers ==
    mode = "online" =>
        \A t \in Threads, w \in Words : pc[t] = "done" =>
            \E u \in Threads : /\ pc[u] \in Recovering \cup {"done"}
                               /\ query_res[t][w] = SymDiff(querys[u].indices, used[Last])

(***************************************************************************)
(* After the threads of refresh_client_eval have been joined, the hint of  *)
(* the refreshed set fits its description exactly when the reply applied   *)
(* last belongs to a refresh with the indices of the last one generated.   *)
(***************************************************************************)
RefreshFitsIfAppliedInOrder ==
    mode = "refresh" /\ Joined /\ ~ overlap /\ cur_qry_blk = Whole({qry_idx})
    /\ Plain(applied) =>
        (parities[cur_qry_setno] = Whole(sets[cur_qry_setno]) <=> used[applied] = used[Last])
=============================================================================
