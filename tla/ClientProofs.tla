---------------------------- MODULE ClientProofs -----------------------------
(***************************************************************************)
(* Proofs about what the programs of the repository exchange and what the  *)
(* threads that share a client make of it.                                 *)
(*                                                                         *)
(* SharedClient: for every load, database, size and number of sets and     *)
(* every interleaving of the threads.  While no two threads are in the     *)
(* recovery, what is in the shared block is the own block of the thread    *)
(* that is; whatever they do, it comes from a reply that has arrived.      *)
(*                                                                         *)
(* Serial: every message is read back as it was sent, whatever its blocks, *)
(* keys and numbers and however long its lists.                            *)
(***************************************************************************)
EXTENDS SharedClient, Serial, WellFoundedInduction, TLAPS

(***************************************************************************)
(* SharedClient                                                            *)
(***************************************************************************)

Steps == {"new", "query", "done"} \cup Recovering

\* The block that thread t recovers when nothing interferes.
Own(t) == SymDiff(querys[t].indices, used[Last])

\* What the replies that have arrived make of the hint of the last query.
Answered == {Own(u) : u \in {v \in Threads : pc[v] \in Recovering \cup {"done"}}}

(***************************************************************************)
(* The inductive invariant.                                                *)
(***************************************************************************)
Types ==
    /\ mode \in Modes
    /\ sets \in [SetNos -> SUBSET Index] /\ parities \in [SetNos -> [Words -> SUBSET Index]]
    /\ cur_qry_setno \in SetNos /\ cur_qry_blk \in [Words -> SUBSET Index]
    /\ generated \in 0 .. Load /\ qry_idx \in 0 .. DbSize
    /\ querys \in [Threads -> [idx : Index, indices : SUBSET Index]]
    /\ pc \in [Threads -> Steps]
    /\ blk \in [Threads -> [Words -> SUBSET Index]]
    /\ query_res \in [Threads -> [Words -> SUBSET Index]]
    /\ used \in [Threads -> SUBSET Index]
    /\ overlap \in BOOLEAN /\ applied \in Threads \cup {0}

\* What the main thread has done.
MainInv ==
    /\ generated < Load => \A t \in Threads : pc[t] = "new"
    /\ generated > 0 => used[generated] = sets[cur_qry_setno]
    /\ mode = "refresh" => \A t \in 1 .. generated : qry_idx \in Index /\ querys[t].idx = qry_idx
    /\ mode # "refresh" => parities = [s \in SetNos |-> Whole(sets[s])]

\* What a thread knows of its own.
ThreadInv ==
    \A t \in Threads :
        /\ pc[t] \notin {"new", "query"} => blk[t] = Whole(querys[t].indices)
        /\ mode = "ck" => pc[t] \in {"new", "query", "write low", "done"}
        /\ mode = "refresh" => pc[t] \notin {"read low", "read high"}
        /\ mode = "ck" /\ pc[t] = "done" => query_res[t] = Whole(Own(t))

\* At most one thread is in the recovery.
AloneInv ==
    ~ overlap => \A t, u \in Threads : pc[t] \in Recovering /\ pc[u] \in Recovering => t = u

\* online: what is in cur_qry_blk and in the results, when threads run one at a time
\* and when they do not.
OwnInv ==
    mode = "online" /\ ~ overlap => \A t \in Threads :
        /\ pc[t] \in {"write high", "read low", "read high"} => cur_qry_blk["low"] = Own(t)
        /\ pc[t] \in {"read low", "read high"} => cur_qry_blk["high"] = Own(t)
        /\ pc[t] \in {"read high", "done"} => query_res[t]["low"] = Own(t)
        /\ pc[t] = "done" => query_res[t]["high"] = Own(t)

ExchangedInv ==
    mode = "online" => \A t \in Threads :
        /\ pc[t] \in {"write high", "read low", "read high"} => cur_qry_blk["low"] \in Answered
        /\ pc[t] \in {"read low", "read high"} => cur_qry_blk["high"] \in Answered
        /\ pc[t] \in {"read high", "done"} => query_res[t]["low"] \in Answered
        /\ pc[t] = "done" => query_res[t]["high"] \in Answered

OnlineInv == OwnInv /\ ExchangedInv

\* refresh: whose reply the hint of the refreshed set holds.
RefreshInv ==
    mode = "refresh" =>
        /\ applied # 0 => pc[applied] \in {"write high", "done"}
        /\ applied = 0 => \A t \in Threads : pc[t] \notin {"write high", "done"}
        /\ ~ overlap =>
             /\ \A t \in Threads : pc[t] = "write high" => applied = t
             /\ applied # 0 =>
                  /\ parities[cur_qry_setno]["low"]
                       = SymDiff(querys[applied].indices, cur_qry_blk["low"])
                  /\ pc[applied] = "done" =>
                       parities[cur_qry_setno]["high"]
                         = SymDiff(querys[applied].indices, cur_qry_blk["high"])

IInv == Types /\ MainInv /\ ThreadInv /\ AloneInv /\ OnlineInv /\ RefreshInv

-----------------------------------------------------------------------------
(* Lemmas                                                                   *)

LEMMA Constants ==
    /\ Load \in Nat /\ Load >= 1 /\ DbSize \in Nat /\ DbSize >= 1
    /\ NbrSets \in Nat /\ NbrSets >= 1
    /\ Last \in Threads /\ 0 \in Index /\ 0 \in SetNos
    /\ Modes \subseteq {"online", "refresh", "ck"}
BY SharedAssumption DEF SharedAssumption, Threads, Last, Index, SetNos

\* Exclusive or with the same set twice gives back what was there.
LEMMA XorTwice ==
    ASSUME NEW A, NEW B
    PROVE  /\ SymDiff(A, SymDiff(A, B)) = B
           /\ SymDiff(SymDiff(A, B), B) = A
BY DEF SymDiff

LEMMA XorType ==
    ASSUME NEW A \in SUBSET Index, NEW B \in SUBSET Index
    PROVE  SymDiff(A, B) \in SUBSET Index
BY DEF SymDiff

LEMMA WholeType ==
    ASSUME NEW A \in SUBSET Index
    PROVE  Whole(A) \in [Words -> SUBSET Index]
BY DEF Whole

LEMMA XorBlocks ==
    ASSUME NEW a \in [Words -> SUBSET Index], NEW b \in [Words -> SUBSET Index]
    PROVE  Xor(a, b) \in [Words -> SUBSET Index]
BY XorType DEF Xor

\* Blocks with the same words are the same.
LEMMA SameBlock ==
    ASSUME NEW b \in [Words -> SUBSET Index], NEW A, b["low"] = A, b["high"] = A
    PROVE  b = Whole(A)
BY DEF Whole, Words

LEMMA WholeInjective ==
    ASSUME NEW A, NEW B
    PROVE  Whole(A) = Whole(B) <=> A = B
<1>1. Whole(A)["low"] = A /\ Whole(B)["low"] = B
  BY DEF Whole, Words
<1> QED  BY <1>1

LEMMA XorWhole ==
    ASSUME NEW A, NEW B
    PROVE  Xor(Whole(A), Whole(B)) = Whole(SymDiff(A, B))
BY DEF Xor, Whole

\* A nonempty set of set numbers has a least element, the first that find_if returns.
LEMMA MinNat ==
    ASSUME NEW S, S \subseteq Nat, S # {}
    PROVE  Min(S) \in S
<1> DEFINE R == {p \in Nat \X Nat : p[1] < p[2]}
<1>1. IsWellFoundedOn(R, Nat)
  <2>1. IsWellFoundedOn(OpToRel(<, Nat), Nat)
    BY NatLessThanWellFounded
  <2>2. OpToRel(<, Nat) = R
    BY DEF OpToRel
  <2> QED BY <2>1, <2>2
<1>2. \E x \in S : \A y \in S : x <= y
  <2>1. \E x \in S : \A y \in S : ~ (<<y, x>> \in R)
    <3> HIDE DEF R
    <3> QED BY <1>1, WFMin
  <2>2. PICK x \in S : \A y \in S : ~ (<<y, x>> \in R)
    BY <2>1
  <2>3. ASSUME NEW y \in S
        PROVE  x <= y
    <3>1. ~ (<<y, x>> \in R) /\ y \in Nat /\ x \in Nat
      BY <2>2
    <3> QED BY <3>1
  <2> QED BY <2>3
<1> QED BY <1>2 DEF Min

LEMMA FirstHolding ==
    ASSUME Types, NEW idx \in Index
    PROVE  /\ (IF HoldingSets(idx) = {} THEN 0 ELSE Min(HoldingSets(idx))) \in SetNos
           /\ HoldingSets(idx) # {} => Min(HoldingSets(idx)) \in SetNos
<1>1. HoldingSets(idx) \in SUBSET SetNos
  BY DEF HoldingSets
<1>2. HoldingSets(idx) # {} => Min(HoldingSets(idx)) \in SetNos
  <2>1. HoldingSets(idx) \subseteq Nat
    BY <1>1, Constants DEF SetNos
  <2> QED  BY <1>1, <2>1, MinNat
<1> QED  BY <1>2, Constants

LEMMA SentType ==
    ASSUME NEW s \in SUBSET Index, NEW idx \in Index, NEW indices \in Sent(s, idx)
    PROVE  indices \in SUBSET Index
BY DEF Sent

-----------------------------------------------------------------------------
(* The main thread                                                          *)

LEMMA InitIInv == Init => IInv
<1> SUFFICES ASSUME Init PROVE IInv
  OBVIOUS
<1>1. sets \in [SetNos -> SUBSET Index]
  BY DEF Init, kSubset
<1>2. parities \in [SetNos -> [Words -> SUBSET Index]]
  <2>1. \A s \in SetNos : Whole(sets[s]) \in [Words -> SUBSET Index]
    BY <1>1, WholeType
  <2> QED  BY <2>1 DEF Init
<1>3. Zero \in [Words -> SUBSET Index]
  BY WholeType DEF Zero
<1>4. Types
  <2>1. /\ mode \in Modes /\ cur_qry_setno \in SetNos /\ cur_qry_blk \in [Words -> SUBSET Index]
        /\ generated \in 0 .. Load /\ qry_idx \in 0 .. DbSize
        /\ overlap \in BOOLEAN /\ applied \in Threads \cup {0}
    <3>1. 0 \in 0 .. Load /\ DbSize \in 0 .. DbSize /\ 0 \in SetNos
      BY Constants
    <3> QED  BY <1>3, <3>1 DEF Init
  <2>2. querys \in [Threads -> [idx : Index, indices : SUBSET Index]]
    BY Constants DEF Init
  <2>3. pc \in [Threads -> Steps] /\ used \in [Threads -> SUBSET Index]
    BY DEF Init, Steps
  <2>4. /\ blk \in [Threads -> [Words -> SUBSET Index]]
        /\ query_res \in [Threads -> [Words -> SUBSET Index]]
    BY <1>3 DEF Init
  <2> QED  BY <1>1, <1>2, <2>1, <2>2, <2>3, <2>4 DEF Types
<1>5. \A t \in Threads : pc[t] = "new"
  BY DEF Init
<1>6. MainInv
  BY <1>5, Constants DEF Init, MainInv
<1>7. ThreadInv /\ AloneInv /\ OnlineInv
  BY <1>5 DEF ThreadInv, AloneInv, OnlineInv, OwnInv, ExchangedInv, Recovering
<1>8. RefreshInv
  BY <1>5 DEF Init, RefreshInv
<1> QED  BY <1>4, <1>6, <1>7, <1>8 DEF IInv

\* While no thread has started there is nothing to say about threads.
LEMMA AllNew ==
    ASSUME IInv, generated < Load, mode' = mode, pc' = pc, applied' = applied
    PROVE  /\ \A t \in Threads : pc[t] = "new" /\ pc'[t] = "new"
           /\ ThreadInv' /\ AloneInv' /\ OnlineInv' /\ RefreshInv'
<1>1. \A t \in Threads : pc[t] = "new" /\ pc'[t] = "new"
  BY DEF IInv, MainInv
<1>2. ThreadInv' /\ AloneInv' /\ OnlineInv'
  BY <1>1 DEF ThreadInv, AloneInv, OnlineInv, OwnInv, ExchangedInv, Recovering
<1>3. mode = "refresh" => applied = 0
  BY <1>1 DEF IInv, Types, RefreshInv
<1>4. RefreshInv'
  BY <1>1, <1>3 DEF RefreshInv
<1> QED  BY <1>1, <1>2, <1>4

LEMMA MoreType ==
    ASSUME Types, MoreQueries
    PROVE  /\ generated < Load /\ generated \in Nat
           /\ generated + 1 \in Threads /\ generated + 1 \in 0 .. Load /\ generated + 1 > 0
           /\ 1 .. generated + 1 = (1 .. generated) \cup {generated + 1}
           /\ generated + 1 \notin 1 .. generated
           /\ 1 .. generated \subseteq Threads
<1>1. generated \in Nat /\ generated < Load /\ Load \in Nat
  BY Constants DEF Types, MoreQueries, Last
<1>2. Threads = 1 .. Load
  BY DEF Threads
<1> QED  BY <1>1, <1>2

LEMMA GenerateOnlineStep ==
    ASSUME IInv, GenerateOnlineQuery
    PROVE  IInv'
<1>1. PICK idx, setno, indices :
         /\ idx \in Index
         /\ setno = IF HoldingSets(idx) = {} THEN 0 ELSE Min(HoldingSets(idx))
         /\ indices \in Sent(sets[setno], idx)
         /\ cur_qry_setno' = setno
         /\ querys' = [querys EXCEPT ![generated + 1] = [idx |-> idx, indices |-> indices]]
         /\ used' = [used EXCEPT ![generated + 1] = sets[setno]]
  BY DEF GenerateOnlineQuery
<1>2. Types
  BY DEF IInv
<1>3. /\ generated < Load /\ generated + 1 \in Threads /\ generated + 1 \in 0 .. Load
      /\ generated + 1 > 0
  BY <1>2, MoreType DEF GenerateOnlineQuery
<1>4. setno \in SetNos /\ sets[setno] \in SUBSET Index
  BY <1>1, <1>2, FirstHolding DEF Types
<1>5. indices \in SUBSET Index
  BY <1>1, <1>4, SentType
<1>6. /\ mode' = mode /\ mode = "online" /\ sets' = sets /\ parities' = parities
      /\ cur_qry_blk' = cur_qry_blk /\ qry_idx' = qry_idx /\ pc' = pc /\ blk' = blk
      /\ query_res' = query_res /\ overlap' = overlap /\ applied' = applied
      /\ generated' = generated + 1
  BY DEF GenerateOnlineQuery
<1>7. querys' \in [Threads -> [idx : Index, indices : SUBSET Index]]
  <2>1. [idx |-> idx, indices |-> indices] \in [idx : Index, indices : SUBSET Index]
    BY <1>1, <1>5
  <2> QED  BY <1>1, <1>2, <1>3, <2>1 DEF Types
<1>8. used' \in [Threads -> SUBSET Index] /\ used'[generated + 1] = sets[setno]
  BY <1>1, <1>2, <1>3, <1>4 DEF Types
<1>9. Types'
  BY <1>1, <1>2, <1>3, <1>4, <1>6, <1>7, <1>8 DEF Types
<1>10. /\ \A t \in Threads : pc[t] = "new" /\ pc'[t] = "new"
       /\ ThreadInv' /\ AloneInv' /\ OnlineInv' /\ RefreshInv'
  BY <1>3, <1>6, AllNew
<1>11. MainInv'
  <2>1. used'[generated'] = sets'[cur_qry_setno']
    BY <1>1, <1>6, <1>8
  <2> QED  BY <1>6, <1>10, <2>1 DEF IInv, MainInv
<1> QED  BY <1>9, <1>10, <1>11 DEF IInv

LEMMA CkGenerateOnlineStep ==
    ASSUME IInv, CkGenerateOnlineQuery
    PROVE  IInv'
<1>1. PICK idx, setno :
         /\ idx \in Index
         /\ HoldingSets(idx) # {} /\ setno = Min(HoldingSets(idx))
         /\ cur_qry_setno' = setno
         /\ querys' = [querys EXCEPT ![generated + 1] =
                          [idx |-> idx, indices |-> sets[setno] \ {idx}]]
         /\ used' = [used EXCEPT ![generated + 1] = sets[setno]]
  BY DEF CkGenerateOnlineQuery
<1>2. Types
  BY DEF IInv
<1>3. /\ generated < Load /\ generated + 1 \in Threads /\ generated + 1 \in 0 .. Load
      /\ generated + 1 > 0
  BY <1>2, MoreType DEF CkGenerateOnlineQuery
<1>4. setno \in SetNos /\ sets[setno] \in SUBSET Index
  BY <1>1, <1>2, FirstHolding DEF Types
<1>6. /\ mode' = mode /\ mode = "ck" /\ sets' = sets /\ parities' = parities
      /\ cur_qry_blk' = cur_qry_blk /\ qry_idx' = qry_idx /\ pc' = pc /\ blk' = blk
      /\ query_res' = query_res /\ overlap' = overlap /\ applied' = applied
      /\ generated' = generated + 1
  BY DEF CkGenerateOnlineQuery
<1>7. querys' \in [Threads -> [idx : Index, indices : SUBSET Index]]
  <2>1. [idx |-> idx, indices |-> sets[setno] \ {idx}] \in [idx : Index, indices : SUBSET Index]
    BY <1>1, <1>4
  <2> QED  BY <1>1, <1>2, <1>3, <2>1 DEF Types
<1>8. used' \in [Threads -> SUBSET Index] /\ used'[generated + 1] = sets[setno]
  BY <1>1, <1>2, <1>3, <1>4 DEF Types
<1>9. Types'
  BY <1>1, <1>2, <1>3, <1>4, <1>6, <1>7, <1>8 DEF Types
<1>10. /\ \A t \in Threads : pc[t] = "new" /\ pc'[t] = "new"
       /\ ThreadInv' /\ AloneInv' /\ OnlineInv' /\ RefreshInv'
  BY <1>3, <1>6, AllNew
<1>11. MainInv'
  <2>1. used'[generated'] = sets'[cur_qry_setno']
    BY <1>1, <1>6, <1>8
  <2> QED  BY <1>6, <1>10, <2>1 DEF IInv, MainInv
<1> QED  BY <1>9, <1>10, <1>11 DEF IInv

LEMMA QueryOnceStep ==
    ASSUME IInv, QueryOnce
    PROVE  IInv'
<1>1. PICK idx, setno, indices :
         /\ idx \in Index
         /\ setno = IF HoldingSets(idx) = {} THEN 0 ELSE Min(HoldingSets(idx))
         /\ indices \in Sent(sets[setno], idx)
         /\ qry_idx' = idx
         /\ cur_qry_setno' = setno
         /\ cur_qry_blk' = Xor(Whole(indices), parities[setno])
  BY DEF QueryOnce
<1>2. Types
  BY DEF IInv
<1>3. generated = 0
  <2>1. qry_idx \notin Index
    BY Constants DEF QueryOnce, Index
  <2>2. generated \in 0 .. Load
    BY <1>2 DEF Types
  <2>3. generated # 0 => 1 \in 1 .. generated
    BY <2>2, Constants
  <2> QED  BY <2>1, <2>3 DEF IInv, MainInv, QueryOnce
<1>4. setno \in SetNos /\ sets[setno] \in SUBSET Index
      /\ parities[setno] \in [Words -> SUBSET Index]
  BY <1>1, <1>2, FirstHolding DEF Types
<1>5. cur_qry_blk' \in [Words -> SUBSET Index]
  BY <1>1, <1>4, SentType, WholeType, XorBlocks
<1>6. /\ mode' = mode /\ mode = "refresh" /\ sets' = sets /\ parities' = parities
      /\ generated' = generated /\ querys' = querys /\ pc' = pc /\ blk' = blk
      /\ query_res' = query_res /\ used' = used /\ overlap' = overlap /\ applied' = applied
  BY DEF QueryOnce
<1>7. qry_idx' \in 0 .. DbSize
  BY <1>1, Constants DEF Index
<1>8. Types'
  BY <1>1, <1>2, <1>4, <1>5, <1>6, <1>7 DEF Types
<1>9. generated < Load
  BY <1>3, Constants
<1>10. /\ \A t \in Threads : pc[t] = "new" /\ pc'[t] = "new"
       /\ ThreadInv' /\ AloneInv' /\ OnlineInv' /\ RefreshInv'
  BY <1>6, <1>9, AllNew
<1>11. MainInv'
  <2>1. 1 .. generated' = {} /\ ~(generated' > 0)
    BY <1>3, <1>6
  <2> QED  BY <1>6, <1>10, <2>1 DEF MainInv
<1> QED  BY <1>8, <1>10, <1>11 DEF IInv

LEMMA GenerateRefreshStep ==
    ASSUME IInv, GenerateRefreshQuery
    PROVE  IInv'
<1>1. PICK s, indices :
         /\ s \in SUBSET Index
         /\ qry_idx \in s /\ indices \in Sent(s, qry_idx)
         /\ sets' = [sets EXCEPT ![cur_qry_setno] = s]
         /\ used' = [used EXCEPT ![generated + 1] = s]
         /\ querys' = [querys EXCEPT ![generated + 1] = [idx |-> qry_idx, indices |-> indices]]
  BY DEF GenerateRefreshQuery, kSubset
<1>2. Types
  BY DEF IInv
<1>3. /\ generated < Load /\ generated + 1 \in Threads /\ generated + 1 \in 0 .. Load
      /\ generated + 1 > 0 /\ 1 .. generated + 1 = (1 .. generated) \cup {generated + 1}
      /\ generated + 1 \notin 1 .. generated /\ 1 .. generated \subseteq Threads
  BY <1>2, MoreType DEF GenerateRefreshQuery
<1>4. qry_idx \in Index
  BY <1>1
<1>5. indices \in SUBSET Index
  BY <1>1, <1>4, SentType
<1>6. /\ mode' = mode /\ mode = "refresh" /\ cur_qry_setno' = cur_qry_setno /\ parities' = parities
      /\ cur_qry_blk' = cur_qry_blk /\ qry_idx' = qry_idx /\ pc' = pc /\ blk' = blk
      /\ query_res' = query_res /\ overlap' = overlap /\ applied' = applied
      /\ generated' = generated + 1
  BY DEF GenerateRefreshQuery
<1>7. querys' \in [Threads -> [idx : Index, indices : SUBSET Index]]
  <2>1. [idx |-> qry_idx, indices |-> indices] \in [idx : Index, indices : SUBSET Index]
    BY <1>4, <1>5
  <2> QED  BY <1>1, <1>2, <1>3, <2>1 DEF Types
<1>8. used' \in [Threads -> SUBSET Index] /\ used'[generated + 1] = s
  BY <1>1, <1>2, <1>3 DEF Types
<1>9. sets' \in [SetNos -> SUBSET Index] /\ sets'[cur_qry_setno] = s
  BY <1>1, <1>2 DEF Types
<1>10. Types'
  BY <1>1, <1>2, <1>3, <1>6, <1>7, <1>8, <1>9 DEF Types
<1>11. /\ \A t \in Threads : pc[t] = "new" /\ pc'[t] = "new"
       /\ ThreadInv' /\ AloneInv' /\ OnlineInv' /\ RefreshInv'
  BY <1>3, <1>6, AllNew
<1>12. MainInv'
  <2>1. used'[generated'] = sets'[cur_qry_setno']
    BY <1>6, <1>8, <1>9
  <2>2. ASSUME NEW t \in 1 .. generated'
        PROVE  qry_idx' \in Index /\ querys'[t].idx = qry_idx'
    <3>1. querys \in [Threads -> [idx : Index, indices : SUBSET Index]]
      BY <1>2 DEF Types
    <3>2. CASE t = generated + 1
      BY <1>1, <1>3, <1>4, <1>6, <3>1, <3>2
    <3>3. CASE t \in 1 .. generated
      <4>1. querys[t].idx = qry_idx
        BY <1>6, <3>3 DEF IInv, MainInv
      <4>2. querys'[t] = querys[t]
        BY <1>1, <1>3, <3>1, <3>3
      <4> QED  BY <1>4, <1>6, <4>1, <4>2
    <3> QED  BY <1>3, <1>6, <3>2, <3>3
  <2> QED  BY <1>6, <1>11, <2>1, <2>2 DEF MainInv
<1> QED  BY <1>10, <1>11, <1>12 DEF IInv

-----------------------------------------------------------------------------
(* The threads                                                              *)

LEMMA GotoStep ==
    ASSUME IInv, NEW t \in Threads, NEW next \in Steps, Goto(t, next)
    PROVE  /\ pc' \in [Threads -> Steps] /\ overlap' \in BOOLEAN
           /\ pc'[t] = next /\ \A u \in Threads : u # t => pc'[u] = pc[u]
           /\ ~ overlap' => ~ overlap
           /\ ~ overlap' /\ next \in Recovering => \A u \in Threads : u # t => pc[u] \notin Recovering
           /\ AloneInv'
<1>1. pc \in [Threads -> Steps] /\ overlap \in BOOLEAN
  BY DEF IInv, Types
<1>2. pc' = [pc EXCEPT ![t] = next]
  BY DEF Goto
<1>3. pc' \in [Threads -> Steps] /\ pc'[t] = next /\ \A u \in Threads : u # t => pc'[u] = pc[u]
  BY <1>1, <1>2
<1>4. overlap' = (overlap \/ (next \in Recovering /\ \E u \in Threads \ {t} : pc[u] \in Recovering))
  BY DEF Goto
<1>5. ~ overlap' => ~ overlap
  BY <1>4
<1>6. ~ overlap' /\ next \in Recovering => \A u \in Threads : u # t => pc[u] \notin Recovering
  BY <1>4
<1>7. ASSUME ~ overlap', NEW u \in Threads, NEW v \in Threads,
             pc'[u] \in Recovering, pc'[v] \in Recovering
      PROVE  u = v
  <2>1. CASE next \in Recovering
    BY <1>3, <1>6, <1>7, <2>1
  <2>2. CASE next \notin Recovering
    BY <1>3, <1>5, <1>7, <2>2 DEF IInv, AloneInv
  <2> QED  BY <2>1, <2>2
<1>8. AloneInv'
  BY <1>7 DEF AloneInv
<1>9. overlap' \in BOOLEAN
  BY <1>4
<1> QED  BY <1>3, <1>5, <1>6, <1>8, <1>9

\* Threads run when the main thread has generated all queries; it is the last that the
\* client remembers.
LEMMA AllGenerated ==
    ASSUME IInv, NEW t \in Threads, pc[t] # "new"
    PROVE  /\ generated = Load /\ used[Last] = sets[cur_qry_setno]
           /\ mode # "refresh" => parities[cur_qry_setno] = Whole(used[Last])
<1>1. generated \in 0 .. Load /\ cur_qry_setno \in SetNos
  BY DEF IInv, Types
<1>2. generated = Load
  BY <1>1, Constants DEF IInv, MainInv
<1>3. used[Last] = sets[cur_qry_setno]
  BY <1>2, Constants DEF IInv, MainInv, Last
<1> QED  BY <1>1, <1>2, <1>3 DEF IInv, MainInv

\* No thread changes what the main thread has prepared.
LEMMA MainStands ==
    ASSUME IInv, generated = Load,
           UNCHANGED <<mode, sets, cur_qry_setno, generated, qry_idx, querys, used>>,
           mode # "refresh" => parities' = parities
    PROVE  MainInv' /\ \A u : Own(u)' = Own(u)
<1>1. /\ mode' = mode /\ sets' = sets /\ cur_qry_setno' = cur_qry_setno /\ generated' = generated
      /\ qry_idx' = qry_idx /\ querys' = querys /\ used' = used
  OBVIOUS
<1>2. \A u : Own(u)' = Own(u)
  BY <1>1 DEF Own
<1>3. ~ (generated < Load)
  BY Constants
<1> QED  BY <1>1, <1>2, <1>3 DEF IInv, MainInv

\* A thread that has its reply keeps it.
LEMMA AnsweredGrows ==
    ASSUME \A u : Own(u)' = Own(u), NEW t \in Threads,
           \A u \in Threads : u # t => pc'[u] = pc[u],
           pc[t] \in Recovering \cup {"done"} => pc'[t] \in Recovering \cup {"done"}
    PROVE  /\ Answered \subseteq Answered'
           /\ pc'[t] \in Recovering \cup {"done"} => Own(t) \in Answered'
BY DEF Answered

LEMMA StutterStep ==
    ASSUME IInv, UNCHANGED vars
    PROVE  IInv'
<1>1. /\ mode' = mode /\ sets' = sets /\ parities' = parities /\ cur_qry_setno' = cur_qry_setno
      /\ cur_qry_blk' = cur_qry_blk /\ generated' = generated /\ qry_idx' = qry_idx
      /\ querys' = querys /\ pc' = pc /\ blk' = blk /\ query_res' = query_res /\ used' = used
      /\ overlap' = overlap /\ applied' = applied
  BY DEF vars, client, main
<1>2. Types' /\ MainInv'
  BY <1>1 DEF IInv, Types, MainInv
<1>3. \A u : Own(u)' = Own(u)
  BY <1>1 DEF Own
<1>4. Answered' = Answered
  BY <1>1, <1>3 DEF Answered
<1>5. ThreadInv' /\ AloneInv' /\ OnlineInv' /\ RefreshInv'
  BY <1>1, <1>3, <1>4 DEF IInv, ThreadInv, AloneInv, OnlineInv, OwnInv, ExchangedInv, RefreshInv
<1> QED  BY <1>2, <1>5 DEF IInv

LEMMA SpawnStep ==
    ASSUME IInv, NEW t \in Threads, Spawn(t)
    PROVE  IInv'
<1>1. /\ mode' = mode /\ sets' = sets /\ parities' = parities /\ cur_qry_setno' = cur_qry_setno
      /\ cur_qry_blk' = cur_qry_blk /\ generated' = generated /\ qry_idx' = qry_idx
      /\ querys' = querys /\ blk' = blk /\ query_res' = query_res /\ used' = used
      /\ overlap' = overlap /\ applied' = applied
      /\ generated = Last /\ pc[t] = "new" /\ pc' = [pc EXCEPT ![t] = "query"]
  BY DEF Spawn, client, main
<1>2. /\ pc' \in [Threads -> Steps] /\ pc'[t] = "query"
      /\ \A u \in Threads : u # t => pc'[u] = pc[u]
  <2>1. pc \in [Threads -> Steps] /\ "query" \in Steps
    BY DEF IInv, Types, Steps
  <2> QED  BY <1>1, <2>1
<1>3. Types'
  BY <1>1, <1>2 DEF IInv, Types
<1>4. MainInv' /\ \A u : Own(u)' = Own(u)
  BY <1>1, MainStands DEF Last
<1>5. Answered \subseteq Answered'
  BY <1>1, <1>2, <1>4, AnsweredGrows DEF Recovering
<1>6. ThreadInv' /\ AloneInv'
  BY <1>1, <1>2, <1>4 DEF IInv, ThreadInv, AloneInv, Recovering
<1>7. OnlineInv'
  BY <1>1, <1>2, <1>4, <1>5 DEF IInv, OnlineInv, OwnInv, ExchangedInv
<1>8. RefreshInv'
  BY <1>1, <1>2 DEF IInv, Types, RefreshInv
<1> QED  BY <1>3, <1>4, <1>6, <1>7, <1>8 DEF IInv

LEMMA ExchangeStep ==
    ASSUME IInv, NEW t \in Threads, Exchange(t)
    PROVE  IInv'
<1>1. /\ mode' = mode /\ sets' = sets /\ parities' = parities /\ cur_qry_setno' = cur_qry_setno
      /\ cur_qry_blk' = cur_qry_blk /\ generated' = generated /\ qry_idx' = qry_idx
      /\ querys' = querys /\ query_res' = query_res /\ used' = used
      /\ applied' = applied /\ pc[t] = "query"
      /\ blk' = [blk EXCEPT ![t] = Whole(querys[t].indices)]
  BY DEF Exchange, client, main
<1>2. /\ pc' \in [Threads -> Steps] /\ overlap' \in BOOLEAN /\ pc'[t] = "write low"
      /\ \A u \in Threads : u # t => pc'[u] = pc[u]
      /\ ~ overlap' => ~ overlap
      /\ AloneInv'
  <2>1. "write low" \in Steps /\ Goto(t, "write low")
    BY DEF Exchange, Steps, Recovering
  <2> QED  BY <2>1, GotoStep
<1>3. /\ blk' \in [Threads -> [Words -> SUBSET Index]] /\ blk'[t] = Whole(querys[t].indices)
      /\ \A u \in Threads : u # t => blk'[u] = blk[u]
  <2>1. querys[t].indices \in SUBSET Index /\ blk \in [Threads -> [Words -> SUBSET Index]]
    BY DEF IInv, Types
  <2> QED  BY <1>1, <2>1, WholeType
<1>4. Types'
  BY <1>1, <1>2, <1>3 DEF IInv, Types
<1>5. MainInv' /\ \A u : Own(u)' = Own(u)
  BY <1>1, AllGenerated, MainStands
<1>6. Answered \subseteq Answered'
  BY <1>1, <1>2, <1>5, AnsweredGrows DEF Recovering
<1>7. ThreadInv'
  BY <1>1, <1>2, <1>3, <1>5 DEF IInv, ThreadInv
<1>8. OnlineInv'
  BY <1>1, <1>2, <1>5, <1>6 DEF IInv, OnlineInv, OwnInv, ExchangedInv
<1>9. RefreshInv'
  BY <1>1, <1>2 DEF IInv, Types, RefreshInv
<1> QED  BY <1>2, <1>4, <1>5, <1>7, <1>8, <1>9 DEF IInv

\* query_recov writes the word of its own reply, and of the hint of the last query.
LEMMA QueryRecovWrites ==
    ASSUME IInv, NEW t \in Threads, QueryRecov(t)
    PROVE  /\ IInv' <=> OnlineInv'
           /\ cur_qry_blk'[WordOf(t)] = Own(t)
           /\ \A v \in Words : v # WordOf(t) => cur_qry_blk'[v] = cur_qry_blk[v]
           /\ pc'[t] = NextWrite(t) /\ \A u \in Threads : u # t => pc'[u] = pc[u]
           /\ ~ overlap' => ~ overlap /\ \A u \in Threads : u # t => pc[u] \notin Recovering
           /\ \A u : Own(u)' = Own(u)
           /\ Answered \subseteq Answered' /\ Own(t) \in Answered'
<1> DEFINE w == WordOf(t)  next == NextWrite(t)
<1>0. w = WordOf(t) /\ next = NextWrite(t) /\ w \in Words /\ next \in Steps /\ next \in Recovering
  BY DEF QueryRecov, WordOf, NextWrite, Words, Steps, Recovering
<1> HIDE DEF w, next
<1>1. /\ mode' = mode /\ mode = "online" /\ sets' = sets /\ parities' = parities
      /\ cur_qry_setno' = cur_qry_setno /\ generated' = generated /\ qry_idx' = qry_idx
      /\ querys' = querys /\ blk' = blk /\ query_res' = query_res /\ used' = used
      /\ applied' = applied /\ pc[t] \in {"write low", "write high"}
      /\ cur_qry_blk' = [cur_qry_blk EXCEPT ![w] =
                            SymDiff(blk[t][w], parities[cur_qry_setno][w])]
  BY <1>0 DEF QueryRecov, main
<1>2. /\ pc' \in [Threads -> Steps] /\ overlap' \in BOOLEAN /\ pc'[t] = next
      /\ \A u \in Threads : u # t => pc'[u] = pc[u]
      /\ ~ overlap' => ~ overlap /\ \A u \in Threads : u # t => pc[u] \notin Recovering
      /\ AloneInv'
  <2>1. Goto(t, next)
    BY <1>0 DEF QueryRecov
  <2> QED  BY <1>0, <2>1, GotoStep
<1>3. SymDiff(blk[t][w], parities[cur_qry_setno][w]) = Own(t) /\ Own(t) \in SUBSET Index
  <2>1. blk[t] = Whole(querys[t].indices)
    BY <1>1 DEF IInv, ThreadInv
  <2>2. parities[cur_qry_setno] = Whole(used[Last])
    BY <1>1, AllGenerated
  <2>3. querys[t].indices \in SUBSET Index /\ used[Last] \in SUBSET Index
    BY Constants DEF IInv, Types
  <2>4. blk[t][w] = querys[t].indices /\ parities[cur_qry_setno][w] = used[Last]
    BY <1>0, <2>1, <2>2 DEF Whole
  <2> QED  BY <2>3, <2>4, XorType DEF Own
<1>4. /\ cur_qry_blk' \in [Words -> SUBSET Index] /\ cur_qry_blk'[w] = Own(t)
      /\ \A v \in Words : v # w => cur_qry_blk'[v] = cur_qry_blk[v]
  <2>1. cur_qry_blk \in [Words -> SUBSET Index]
    BY DEF IInv, Types
  <2> QED  BY <1>0, <1>1, <1>3, <2>1
<1>5. Types'
  BY <1>1, <1>2, <1>4 DEF IInv, Types
<1>6. MainInv' /\ \A u : Own(u)' = Own(u)
  BY <1>1, AllGenerated, MainStands
<1>7. Answered \subseteq Answered' /\ Own(t) \in Answered'
  BY <1>1, <1>2, <1>6, AnsweredGrows, <1>0
<1>8. ThreadInv'
  BY <1>1, <1>2, <1>6 DEF IInv, ThreadInv, Recovering
<1>9. RefreshInv'
  BY <1>1 DEF RefreshInv
<1> QED  BY <1>0, <1>2, <1>4, <1>5, <1>6, <1>7, <1>8, <1>9 DEF IInv

LEMMA QueryRecovStep ==
    ASSUME IInv, NEW t \in Threads, QueryRecov(t)
    PROVE  IInv'
<1>1. mode = "online" /\ pc[t] \in {"write low", "write high"} /\ mode' = mode
      /\ query_res' = query_res
  BY DEF QueryRecov
<1>2. CASE pc[t] = "write low"
  <2>1. WordOf(t) = "low" /\ NextWrite(t) = "write high"
    BY <1>2 DEF WordOf, NextWrite
  <2>2. /\ IInv' <=> OnlineInv'
        /\ cur_qry_blk'["low"] = Own(t) /\ cur_qry_blk'["high"] = cur_qry_blk["high"]
        /\ pc'[t] = "write high" /\ \A u \in Threads : u # t => pc'[u] = pc[u]
        /\ ~ overlap' => ~ overlap /\ \A u \in Threads : u # t => pc[u] \notin Recovering
        /\ \A u : Own(u)' = Own(u)
        /\ Answered \subseteq Answered' /\ Own(t) \in Answered'
    <3>1. "low" \in Words /\ "high" \in Words
      BY DEF Words
    <3> QED  BY <2>1, <3>1, QueryRecovWrites
  <2>3. OnlineInv'
    <3>1. OwnInv'
      BY <1>1, <2>2 DEF IInv, OnlineInv, OwnInv, Recovering
    <3>2. ExchangedInv'
      BY <1>1, <2>2 DEF IInv, OnlineInv, ExchangedInv, Recovering
    <3> QED  BY <3>1, <3>2 DEF OnlineInv
  <2> QED  BY <2>2, <2>3
<1>3. CASE pc[t] = "write high"
  <2>1. WordOf(t) = "high" /\ NextWrite(t) = "read low"
    BY <1>3 DEF WordOf, NextWrite
  <2>2. /\ IInv' <=> OnlineInv'
        /\ cur_qry_blk'["high"] = Own(t) /\ cur_qry_blk'["low"] = cur_qry_blk["low"]
        /\ pc'[t] = "read low" /\ \A u \in Threads : u # t => pc'[u] = pc[u]
        /\ ~ overlap' => ~ overlap /\ \A u \in Threads : u # t => pc[u] \notin Recovering
        /\ \A u : Own(u)' = Own(u)
        /\ Answered \subseteq Answered' /\ Own(t) \in Answered'
    <3>1. "low" \in Words /\ "high" \in Words
      BY DEF Words
    <3> QED  BY <2>1, <3>1, QueryRecovWrites
  <2>3. OnlineInv'
    <3>1. OwnInv'
      BY <1>1, <1>3, <2>2 DEF IInv, OnlineInv, OwnInv, Recovering
    <3>2. ExchangedInv'
      BY <1>1, <1>3, <2>2 DEF IInv, OnlineInv, ExchangedInv, Recovering
    <3> QED  BY <3>1, <3>2 DEF OnlineInv
  <2> QED  BY <2>2, <2>3
<1> QED  BY <1>1, <1>2, <1>3

\* The word that query_recov returns is the one in cur_qry_blk.
LEMMA QueryRecovReads ==
    ASSUME IInv, NEW t \in Threads, QueryRecovReturn(t)
    PROVE  /\ IInv' <=> OnlineInv'
           /\ cur_qry_blk' = cur_qry_blk /\ query_res'[t][WordOf(t)] = cur_qry_blk[WordOf(t)]
           /\ \A v \in Words : v # WordOf(t) => query_res'[t][v] = query_res[t][v]
           /\ \A u \in Threads : u # t => query_res'[u] = query_res[u]
           /\ pc'[t] = NextRead(t) /\ \A u \in Threads : u # t => pc'[u] = pc[u]
           /\ ~ overlap' => ~ overlap
           /\ \A u : Own(u)' = Own(u)
           /\ Answered \subseteq Answered'
<1> DEFINE w == WordOf(t)  next == NextRead(t)
<1>0. w = WordOf(t) /\ next = NextRead(t) /\ w \in Words /\ next \in Steps /\ next \in Recovering \cup {"done"}
  BY DEF QueryRecovReturn, WordOf, NextRead, Words, Steps, Recovering
<1> HIDE DEF w, next
<1>1. /\ mode' = mode /\ mode = "online" /\ sets' = sets /\ parities' = parities
      /\ cur_qry_setno' = cur_qry_setno /\ generated' = generated /\ qry_idx' = qry_idx
      /\ querys' = querys /\ blk' = blk /\ cur_qry_blk' = cur_qry_blk /\ used' = used
      /\ applied' = t /\ pc[t] \in {"read low", "read high"}
      /\ query_res' = [query_res EXCEPT ![t][w] = cur_qry_blk[w]]
  BY <1>0 DEF QueryRecovReturn, main, client
<1>2. /\ pc' \in [Threads -> Steps] /\ overlap' \in BOOLEAN /\ pc'[t] = next
      /\ \A u \in Threads : u # t => pc'[u] = pc[u]
      /\ ~ overlap' => ~ overlap
      /\ AloneInv'
  <2>1. Goto(t, next)
    BY <1>0 DEF QueryRecovReturn
  <2> QED  BY <1>0, <2>1, GotoStep
<1>3. /\ query_res' \in [Threads -> [Words -> SUBSET Index]]
      /\ query_res'[t][w] = cur_qry_blk[w]
      /\ \A v \in Words : v # w => query_res'[t][v] = query_res[t][v]
      /\ \A u \in Threads : u # t => query_res'[u] = query_res[u]
  <2>1. /\ query_res \in [Threads -> [Words -> SUBSET Index]]
        /\ cur_qry_blk \in [Words -> SUBSET Index]
    BY DEF IInv, Types
  <2>2. query_res[t] \in [Words -> SUBSET Index] /\ cur_qry_blk[w] \in SUBSET Index
    BY <1>0, <2>1
  <2> DEFINE b == [query_res[t] EXCEPT ![w] = cur_qry_blk[w]]
  <2>3. b \in [Words -> SUBSET Index] /\ b[w] = cur_qry_blk[w]
        /\ \A v \in Words : v # w => b[v] = query_res[t][v]
    BY <1>0, <2>2
  <2>4. query_res' = [query_res EXCEPT ![t] = b]
    BY <1>1
  <2> HIDE DEF b
  <2> QED  BY <2>1, <2>3, <2>4
<1>4. Types'
  BY <1>1, <1>2, <1>3 DEF IInv, Types
<1>5. MainInv' /\ \A u : Own(u)' = Own(u)
  BY <1>1, AllGenerated, MainStands
<1>6. Answered \subseteq Answered'
  BY <1>1, <1>2, <1>5, AnsweredGrows, <1>0
<1>7. ThreadInv'
  BY <1>1, <1>2, <1>5 DEF IInv, ThreadInv, Recovering
<1>8. RefreshInv'
  BY <1>1 DEF RefreshInv
<1> QED  BY <1>0, <1>1, <1>2, <1>3, <1>4, <1>5, <1>6, <1>7, <1>8 DEF IInv

LEMMA QueryRecovReturnStep ==
    ASSUME IInv, NEW t \in Threads, QueryRecovReturn(t)
    PROVE  IInv'
<1>1. mode = "online" /\ pc[t] \in {"read low", "read high"} /\ mode' = mode
  BY DEF QueryRecovReturn
<1>2. CASE pc[t] = "read low"
  <2>1. WordOf(t) = "low" /\ NextRead(t) = "read high"
    BY <1>2 DEF WordOf, NextRead
  <2>2. /\ IInv' <=> OnlineInv'
        /\ cur_qry_blk' = cur_qry_blk
        /\ query_res'[t]["low"] = cur_qry_blk["low"]
        /\ \A u \in Threads : u # t => query_res'[u] = query_res[u]
        /\ pc'[t] = "read high" /\ \A u \in Threads : u # t => pc'[u] = pc[u]
        /\ ~ overlap' => ~ overlap
        /\ \A u : Own(u)' = Own(u)
        /\ Answered \subseteq Answered'
    <3>1. "low" \in Words
      BY DEF Words
    <3> QED  BY <2>1, <3>1, QueryRecovReads
  <2>3. OnlineInv'
    <3>1. OwnInv'
      BY <1>1, <1>2, <2>2 DEF IInv, OnlineInv, OwnInv
    <3>2. ExchangedInv'
      BY <1>1, <1>2, <2>2 DEF IInv, OnlineInv, ExchangedInv
    <3> QED  BY <3>1, <3>2 DEF OnlineInv
  <2> QED  BY <2>2, <2>3
<1>3. CASE pc[t] = "read high"
  <2>1. WordOf(t) = "high" /\ NextRead(t) = "done"
    BY <1>3 DEF WordOf, NextRead
  <2>2. /\ IInv' <=> OnlineInv'
        /\ cur_qry_blk' = cur_qry_blk
        /\ query_res'[t]["high"] = cur_qry_blk["high"]
        /\ query_res'[t]["low"] = query_res[t]["low"]
        /\ \A u \in Threads : u # t => query_res'[u] = query_res[u]
        /\ pc'[t] = "done" /\ \A u \in Threads : u # t => pc'[u] = pc[u]
        /\ ~ overlap' => ~ overlap
        /\ \A u : Own(u)' = Own(u)
        /\ Answered \subseteq Answered'
    <3>1. "low" \in Words /\ "high" \in Words
      BY DEF Words
    <3> QED  BY <2>1, <3>1, QueryRecovReads
  <2>3. OnlineInv'
    <3>1. OwnInv'
      BY <1>1, <1>3, <2>2 DEF IInv, OnlineInv, OwnInv
    <3>2. ExchangedInv'
      BY <1>1, <1>3, <2>2 DEF IInv, OnlineInv, ExchangedInv
    <3> QED  BY <3>1, <3>2 DEF OnlineInv
  <2> QED  BY <2>2, <2>3
<1> QED  BY <1>1, <1>2, <1>3

LEMMA CkRecoverStep ==
    ASSUME IInv, NEW t \in Threads, CkRecoverBlock(t)
    PROVE  IInv'
<1>1. /\ mode' = mode /\ mode = "ck" /\ sets' = sets /\ parities' = parities
      /\ cur_qry_setno' = cur_qry_setno /\ cur_qry_blk' = cur_qry_blk
      /\ generated' = generated /\ qry_idx' = qry_idx
      /\ querys' = querys /\ blk' = blk /\ used' = used
      /\ applied' = t /\ pc[t] = "write low"
      /\ query_res' = [query_res EXCEPT ![t] = Xor(blk[t], parities[cur_qry_setno])]
  BY DEF CkRecoverBlock, main, client
<1>2. /\ pc' \in [Threads -> Steps] /\ overlap' \in BOOLEAN /\ pc'[t] = "done"
      /\ \A u \in Threads : u # t => pc'[u] = pc[u]
      /\ AloneInv'
  <2>1. Goto(t, "done") /\ "done" \in Steps
    BY DEF CkRecoverBlock, Steps
  <2> QED  BY <2>1, GotoStep
<1>3. Xor(blk[t], parities[cur_qry_setno]) = Whole(Own(t))
  <2>1. blk[t] = Whole(querys[t].indices)
    BY <1>1 DEF IInv, ThreadInv
  <2>2. parities[cur_qry_setno] = Whole(used[Last])
    BY <1>1, AllGenerated
  <2> QED  BY <2>1, <2>2, XorWhole DEF Own
<1>4. /\ query_res' \in [Threads -> [Words -> SUBSET Index]]
      /\ query_res'[t] = Whole(Own(t))
      /\ \A u \in Threads : u # t => query_res'[u] = query_res[u]
  <2>1. querys[t].indices \in SUBSET Index /\ used[Last] \in SUBSET Index
        /\ query_res \in [Threads -> [Words -> SUBSET Index]]
    BY Constants DEF IInv, Types
  <2>2. Whole(Own(t)) \in [Words -> SUBSET Index]
    BY <2>1, XorType, WholeType DEF Own
  <2> QED  BY <1>1, <1>3, <2>1, <2>2
<1>5. Types'
  BY <1>1, <1>2, <1>4 DEF IInv, Types
<1>6. MainInv' /\ \A u : Own(u)' = Own(u)
  BY <1>1, AllGenerated, MainStands
<1>7. ThreadInv'
  BY <1>1, <1>2, <1>4, <1>6 DEF IInv, ThreadInv
<1>8. OnlineInv' /\ RefreshInv'
  BY <1>1 DEF OnlineInv, OwnInv, ExchangedInv, RefreshInv
<1> QED  BY <1>2, <1>5, <1>6, <1>7, <1>8 DEF IInv

\* refresh_recov writes a word of the hint of the refreshed set.
LEMMA RefreshRecovStep ==
    ASSUME IInv, NEW t \in Threads, RefreshRecov(t)
    PROVE  IInv'
<1> DEFINE w    == WordOf(t)
           next == IF pc[t] = "write low" THEN "write high" ELSE "done"
           x    == SymDiff(querys[t].indices, cur_qry_blk[w])
<1>1. /\ mode' = mode /\ mode = "refresh" /\ sets' = sets /\ query_res' = query_res
      /\ cur_qry_setno' = cur_qry_setno /\ cur_qry_blk' = cur_qry_blk
      /\ generated' = generated /\ qry_idx' = qry_idx
      /\ querys' = querys /\ blk' = blk /\ used' = used
      /\ applied' = t /\ pc[t] \in {"write low", "write high"}
      /\ parities' = [parities EXCEPT ![cur_qry_setno][w] = SymDiff(blk[t][w], cur_qry_blk[w])]
  BY DEF RefreshRecov, main
<1>2. /\ pc' \in [Threads -> Steps] /\ overlap' \in BOOLEAN /\ pc'[t] = next
      /\ \A u \in Threads : u # t => pc'[u] = pc[u]
      /\ ~ overlap' => ~ overlap
      /\ ~ overlap' /\ next \in Recovering => \A u \in Threads : u # t => pc[u] \notin Recovering
      /\ AloneInv'
  <2>1. Goto(t, next) /\ next \in Steps
    BY DEF RefreshRecov, Steps, Recovering
  <2> HIDE DEF next
  <2> QED  BY <2>1, GotoStep
<1>3. blk[t] = Whole(querys[t].indices) /\ w \in Words
      /\ (pc[t] = "write low" => w = "low") /\ (pc[t] = "write high" => w = "high")
  <2>1. blk[t] = Whole(querys[t].indices)
    BY <1>1 DEF IInv, ThreadInv
  <2> QED  BY <2>1 DEF WordOf, Words
<1>4. SymDiff(blk[t][w], cur_qry_blk[w]) = x /\ x \in SUBSET Index
  <2>1. querys[t].indices \in SUBSET Index /\ cur_qry_blk[w] \in SUBSET Index
    BY <1>3 DEF IInv, Types
  <2>2. blk[t][w] = querys[t].indices
    BY <1>3 DEF Whole
  <2> HIDE DEF w
  <2> QED  BY <2>1, <2>2, XorType
<1>5. /\ parities' \in [SetNos -> [Words -> SUBSET Index]]
      /\ parities'[cur_qry_setno][w] = x
      /\ \A v \in Words : v # w => parities'[cur_qry_setno][v] = parities[cur_qry_setno][v]
  <2>1. parities \in [SetNos -> [Words -> SUBSET Index]] /\ cur_qry_setno \in SetNos
    BY DEF IInv, Types
  <2> DEFINE p == parities[cur_qry_setno]
             b == [p EXCEPT ![w] = x]
  <2>2. p \in [Words -> SUBSET Index]
    BY <2>1
  <2>3. parities' = [parities EXCEPT ![cur_qry_setno] = b]
    BY <1>1, <1>4
  <2> HIDE DEF p, w, x
  <2>4. b \in [Words -> SUBSET Index] /\ b[w] = x /\ \A v \in Words : v # w => b[v] = p[v]
    BY <1>3, <1>4, <2>2
  <2> HIDE DEF b
  <2> QED  BY <2>1, <2>3, <2>4 DEF p
<1>6. Types'
  BY <1>1, <1>2, <1>5 DEF IInv, Types
<1>7. MainInv' /\ \A u : Own(u)' = Own(u)
  BY <1>1, AllGenerated, MainStands
<1>8. ThreadInv'
  BY <1>1, <1>2, <1>7 DEF IInv, ThreadInv
<1>9. OnlineInv'
  BY <1>1 DEF OnlineInv, OwnInv, ExchangedInv
<1>10. RefreshInv'
  <2>1. t # 0
    BY DEF Threads
  <2>2. CASE pc[t] = "write low"
    <3>1. w = "low" /\ next = "write high" /\ "write high" \in Recovering /\ "write low" \in Recovering
      BY <1>3, <2>2 DEF Recovering
    <3>2. parities'[cur_qry_setno]["low"] = SymDiff(querys[t].indices, cur_qry_blk["low"])
      BY <1>5, <3>1
    <3> HIDE DEF w, next, x
    <3>3. pc'[t] = "write high"
      BY <1>2, <3>1
    <3>4. ~ overlap' => \A u \in Threads : u # t => pc'[u] # "write high"
      BY <1>2, <3>1
    <3> QED  BY <1>1, <2>1, <3>2, <3>3, <3>4 DEF RefreshInv
  <2>3. CASE pc[t] = "write high"
    <3>1. w = "high" /\ next = "done" /\ "write high" \in Recovering
      BY <1>3, <2>3 DEF Recovering
    <3>2. parities'[cur_qry_setno]["high"] = SymDiff(querys[t].indices, cur_qry_blk["high"])
          /\ parities'[cur_qry_setno]["low"] = parities[cur_qry_setno]["low"]
      BY <1>5, <3>1 DEF Words
    <3> HIDE DEF w, next, x
    <3>3. pc'[t] = "done"
      BY <1>2, <3>1
    <3>4. ~ overlap' => \A u \in Threads : u # t => pc'[u] # "write high"
      BY <1>2, <2>3, <3>1 DEF IInv, AloneInv
    <3>5. ~ overlap' => /\ applied = t
                        /\ parities[cur_qry_setno]["low"]
                             = SymDiff(querys[t].indices, cur_qry_blk["low"])
      BY <1>1, <1>2, <2>1, <2>3 DEF IInv, RefreshInv
    <3> QED  BY <1>1, <2>1, <3>2, <3>3, <3>4, <3>5 DEF RefreshInv
  <2> QED  BY <1>1, <2>2, <2>3
<1> QED  BY <1>2, <1>6, <1>7, <1>8, <1>9, <1>10 DEF IInv

LEMMA NextIInv == IInv /\ [Next]_vars => IInv'
<1> SUFFICES ASSUME IInv, [Next]_vars PROVE IInv'
  OBVIOUS
<1>1. CASE GenerateOnlineQuery
  BY <1>1, GenerateOnlineStep
<1>2. CASE CkGenerateOnlineQuery
  BY <1>2, CkGenerateOnlineStep
<1>3. CASE QueryOnce
  BY <1>3, QueryOnceStep
<1>4. CASE GenerateRefreshQuery
  BY <1>4, GenerateRefreshStep
<1>5. CASE Join \/ UNCHANGED vars
  BY <1>5, StutterStep DEF Join
<1>6. ASSUME NEW t \in Threads,
             \/ Spawn(t) \/ Exchange(t) \/ QueryRecov(t) \/ QueryRecovReturn(t)
             \/ CkRecoverBlock(t) \/ RefreshRecov(t)
      PROVE  IInv'
  BY <1>6, SpawnStep, ExchangeStep, QueryRecovStep, QueryRecovReturnStep, CkRecoverStep,
     RefreshRecovStep
<1> QED  BY <1>1, <1>2, <1>3, <1>4, <1>5, <1>6 DEF Next

-----------------------------------------------------------------------------
(* What the invariant implies                                               *)

\* Whose set is the last one recovers what it asked for.
LEMMA OwnIsTheBlock ==
    ASSUME NEW t, Plain(t)
    PROVE  Own(t) = {querys[t].idx} <=> used[t] = used[Last]
BY DEF Plain, Own, SymDiff

LEMMA RightForLast ==
    ASSUME IInv
    PROVE  RightExactlyForTheLastSet
<1> SUFFICES ASSUME mode = "ck" \/ (mode = "online" /\ ~ overlap), NEW t \in Threads,
                    pc[t] = "done", Plain(t)
             PROVE  query_res[t] = Whole({querys[t].idx}) <=> used[t] = used[Last]
  BY DEF RightExactlyForTheLastSet
<1>1. query_res[t] = Whole(Own(t))
  <2>1. CASE mode = "ck"
    BY <2>1 DEF IInv, ThreadInv
  <2>2. CASE mode = "online" /\ ~ overlap
    <3>1. query_res[t]["low"] = Own(t) /\ query_res[t]["high"] = Own(t)
      BY <2>2 DEF IInv, OnlineInv, OwnInv, ExchangedInv
    <3>2. query_res[t] \in [Words -> SUBSET Index]
      BY DEF IInv, Types
    <3> QED  BY <3>1, <3>2, SameBlock
  <2> QED  BY <2>1, <2>2
<1> QED  BY <1>1, WholeInjective, OwnIsTheBlock

LEMMA OnlyExchanged ==
    ASSUME IInv
    PROVE  RacesOnlyExchangeAnswers
<1> SUFFICES ASSUME mode = "online", NEW t \in Threads, NEW w \in Words, pc[t] = "done"
             PROVE  \E u \in Threads : /\ pc[u] \in Recovering \cup {"done"}
                                       /\ query_res[t][w] = SymDiff(querys[u].indices, used[Last])
  BY DEF RacesOnlyExchangeAnswers
<1>1. query_res[t][w] \in Answered
  BY DEF IInv, OnlineInv, OwnInv, ExchangedInv, Words
<1> QED  BY <1>1 DEF Answered, Own

LEMMA FitsInOrder ==
    ASSUME IInv
    PROVE  RefreshFitsIfAppliedInOrder
<1> SUFFICES ASSUME mode = "refresh", Joined, ~ overlap, cur_qry_blk = Whole({qry_idx}),
                    Plain(applied)
             PROVE  parities[cur_qry_setno] = Whole(sets[cur_qry_setno])
                      <=> used[applied] = used[Last]
  BY DEF RefreshFitsIfAppliedInOrder
<1>1. pc[Last] = "done" /\ \A t \in Threads : pc[t] = "done"
  BY Constants DEF Joined
<1>2. generated = Load /\ used[Last] = sets[cur_qry_setno]
  BY <1>1, Constants, AllGenerated
<1>3. applied \in Threads
  BY <1>1, Constants DEF IInv, Types, RefreshInv
<1>4. querys[applied].idx = qry_idx
  BY <1>2, <1>3 DEF IInv, MainInv, Threads
<1>5. cur_qry_blk["low"] = {qry_idx} /\ cur_qry_blk["high"] = {qry_idx}
  BY DEF Whole, Words
<1>6. SymDiff(querys[applied].indices, {qry_idx}) = used[applied]
  BY <1>4 DEF Plain, SymDiff
<1>7. applied # 0 /\ pc[applied] = "done"
  BY <1>1, <1>3 DEF Threads
<1>8. /\ parities[cur_qry_setno]["low"] = used[applied]
      /\ parities[cur_qry_setno]["high"] = used[applied]
  BY <1>5, <1>6, <1>7 DEF IInv, RefreshInv
<1>9. parities[cur_qry_setno] \in [Words -> SUBSET Index]
  BY DEF IInv, Types
<1>10. parities[cur_qry_setno] = Whole(used[applied])
  BY <1>8, <1>9, SameBlock
<1> QED  BY <1>2, <1>10, WholeInjective

-----------------------------------------------------------------------------

\* The invariant holds whatever the threads do and in whatever order.
THEOREM SharedClientInvariant == Spec => []IInv
<1> QED BY InitIInv, NextIInv, PTL DEF Spec

\* Of threads that do not interrupt each other, exactly those recover their block whose
\* query used the set of the last query (inc-pir/src/online_client_eval.cpp and
\* baselines/ck-pir/src/online_client_eval.cpp, with query_recov and recover_block).
THEOREM OnlyTheLastSetIsRight == Spec => []RightExactlyForTheLastSet
<1>1. IInv => RightExactlyForTheLastSet
  BY RightForLast
<1> QED BY SharedClientInvariant, <1>1, PTL

\* Threads that interrupt each other in query_recov return words of answers to other
\* threads, and nothing else.
THEOREM RacesExchangeAnswers == Spec => []RacesOnlyExchangeAnswers
<1>1. IInv => RacesOnlyExchangeAnswers
  BY OnlyExchanged
<1> QED BY SharedClientInvariant, <1>1, PTL

\* The hint of the refreshed set fits it exactly when the reply to the last description
\* is applied last (inc-pir/src/refresh_client_eval.cpp with refresh_recov).
THEOREM RefreshFitsInOrder == Spec => []RefreshFitsIfAppliedInOrder
<1>1. IInv => RefreshFitsIfAppliedInOrder
  BY FitsInOrder
<1> QED BY SharedClientInvariant, <1>1, PTL

(***************************************************************************)
(* Serial                                                                  *)
(***************************************************************************)

\* A list is a sequence whose length is that of its domain.
LEMMA ListIsSeq ==
    ASSUME NEW S, NEW s \in Lists(S)
    PROVE  /\ s \in Seq(S) /\ Len(s) \in Nat /\ DOMAIN s = 1 .. Len(s)
           /\ \A i \in 1 .. Len(s) : s[i] \in S
           /\ s = [i \in 1 .. Len(s) |-> s[i]]
<1>1. PICK n \in 0 .. MaxLen : s \in [1 .. n -> S]
  BY DEF Lists
<1>2. n \in Nat /\ s \in Seq(S) /\ Len(s) = n
  BY <1>1, SerialAssumption
<1> QED BY <1>1, <1>2

LEMMA Sizes == BLOCK = 16000 /\ FIELDS = 250 /\ KeyLen = 16
BY DEF BLOCK, FIELDS, KeyLen

LEMMA BitOfField ==
    ASSUME NEW k \in 0 .. BLOCK - 1
    PROVE  /\ k \div 64 + 1 \in 1 .. FIELDS /\ k % 64 \in 0 .. 63
           /\ 64 * (k \div 64) + (k % 64) = k /\ (k \div 64 + 1) - 1 = k \div 64
<1>1. k \in Int /\ 0 <= k /\ k < 16000
  BY DEF BLOCK
<1>2. /\ k \div 64 \in Int /\ 0 <= k \div 64 /\ k \div 64 < 250
      /\ k % 64 \in 0 .. 63 /\ 64 * (k \div 64) + (k % 64) = k
  BY <1>1
<1>3. k \div 64 + 1 \in 1 .. 250 /\ (k \div 64 + 1) - 1 = k \div 64
  BY <1>2
<1> QED BY <1>2, <1>3, Sizes

\* Bit k of a block is bit k % 64 of its field k \div 64.
LEMMA BlockRound ==
    ASSUME NEW b \in SUBSET (0 .. BLOCK - 1)
    PROVE  BlockOf(BlockFields(b)) = b
<1>1. ASSUME NEW k \in 0 .. BLOCK - 1
      PROVE  k % 64 \in BlockFields(b)[k \div 64 + 1] <=> k \in b
  <2>1. /\ k \div 64 + 1 \in 1 .. FIELDS /\ k % 64 \in 0 .. 63
        /\ 64 * (k \div 64) + (k % 64) = k /\ (k \div 64 + 1) - 1 = k \div 64
    BY BitOfField
  <2>2. BlockFields(b)[k \div 64 + 1] =
          {q \in 0 .. 63 : 64 * ((k \div 64 + 1) - 1) + q \in b}
    BY <2>1 DEF BlockFields
  <2> QED BY <2>1, <2>2
<1> QED BY <1>1 DEF BlockOf

\* The fields of block i start behind those of the blocks before it.
LEMMA BlocksRound ==
    ASSUME NEW bs \in Lists(Blocks)
    PROVE  BlocksOf(BlocksFields(bs)) = bs
<1> DEFINE f == BlocksFields(bs)
<1>1. Len(bs) \in Nat /\ DOMAIN bs = 1 .. Len(bs) /\ \A i \in 1 .. Len(bs) : bs[i] \in Blocks
  BY ListIsSeq
<1>2. bs = [i \in 1 .. Len(bs) |-> bs[i]]
  BY ListIsSeq
<1>3. f = [i \in 1 .. 250 * Len(bs) |->
             BlockFields(bs[(i - 1) \div 250 + 1])[((i - 1) % 250) + 1]]
  BY Sizes DEF BlocksFields
<1>4. Len(f) = 250 * Len(bs) /\ Len(f) \div 250 = Len(bs)
  <2>1. 250 * Len(bs) \in Nat
    BY <1>1
  <2>2. Len(f) = 250 * Len(bs)
    BY <1>3, <2>1
  <2>3. \A n \in Nat : (250 * n) \div 250 = n
    OBVIOUS
  <2>4. (250 * Len(bs)) \div 250 = Len(bs)
    BY <1>1, <2>3
  <2> QED BY <2>2, <2>4
<1>5. ASSUME NEW i \in 1 .. Len(bs)
      PROVE  BlockOf([j \in 1 .. 250 |-> f[250 * (i - 1) + j]]) = bs[i]
  <2>1. ASSUME NEW j \in 1 .. 250
        PROVE  f[250 * (i - 1) + j] = BlockFields(bs[i])[j]
    <3>1. /\ 250 * (i - 1) + j \in 1 .. 250 * Len(bs)
          /\ ((250 * (i - 1) + j) - 1) \div 250 + 1 = i
          /\ (((250 * (i - 1) + j) - 1) % 250) + 1 = j
      BY <1>1
    <3> QED BY <1>3, <3>1
  <2>2. [j \in 1 .. 250 |-> f[250 * (i - 1) + j]] = [j \in 1 .. 250 |-> BlockFields(bs[i])[j]]
    BY <2>1
  <2>3. [j \in 1 .. 250 |-> BlockFields(bs[i])[j]] = BlockFields(bs[i])
    BY Sizes DEF BlockFields
  <2>4. bs[i] \in SUBSET (0 .. BLOCK - 1)
    BY <1>1, SerialAssumption
  <2> QED BY <2>2, <2>3, <2>4, BlockRound
<1>6. BlocksOf(f) = [i \in 1 .. Len(bs) |-> BlockOf([j \in 1 .. 250 |-> f[250 * (i - 1) + j]])]
  BY <1>4, Sizes DEF BlocksOf
<1>7. BlocksOf(f) = [i \in 1 .. Len(bs) |-> bs[i]]
  BY ZenonT(60), <1>5, <1>6
<1> QED BY <1>2, <1>7

LEMMA PairsRound ==
    ASSUME NEW ps \in Lists(Pairs)
    PROVE  PairsOf(PairsFields(ps)) = ps
<1> DEFINE f == PairsFields(ps)
<1>1. Len(ps) \in Nat /\ \A i \in 1 .. Len(ps) : ps[i] \in Pairs
  BY ListIsSeq
<1>2. ps = [i \in 1 .. Len(ps) |-> ps[i]]
  BY ListIsSeq
<1>3. f = [i \in 1 .. 2 * Len(ps) |-> ps[(i - 1) \div 2 + 1][((i - 1) % 2) + 1]]
  BY DEF PairsFields
<1>4. Len(f) = 2 * Len(ps) /\ Len(f) \div 2 = Len(ps)
  <2>1. 2 * Len(ps) \in Nat
    BY <1>1
  <2>2. Len(f) = 2 * Len(ps)
    BY <1>3, <2>1
  <2> QED BY <1>1, <2>2
<1>5. ASSUME NEW j \in 1 .. Len(ps)
      PROVE  <<f[2 * j - 1], f[2 * j]>> = ps[j]
  <2>1. /\ 2 * j - 1 \in 1 .. 2 * Len(ps) /\ 2 * j \in 1 .. 2 * Len(ps)
        /\ ((2 * j - 1) - 1) \div 2 + 1 = j /\ (((2 * j - 1) - 1) % 2) + 1 = 1
        /\ (2 * j - 1) \div 2 + 1 = j /\ ((2 * j - 1) % 2) + 1 = 2
    BY <1>1
  <2>2. f[2 * j - 1] = ps[j][1] /\ f[2 * j] = ps[j][2]
    BY <1>3, <2>1
  <2>3. ps[j] = <<ps[j][1], ps[j][2]>>
    BY <1>1 DEF Pairs
  <2> QED BY <2>2, <2>3
<1>6. PairsOf(f) = [j \in 1 .. Len(ps) |-> <<f[2 * j - 1], f[2 * j]>>]
  BY <1>4 DEF PairsOf
<1>7. PairsOf(f) = [j \in 1 .. Len(ps) |-> ps[j]]
  BY <1>5, <1>6
<1> QED BY <1>2, <1>7

\* A key has 16 bytes, and reducing a byte modulo 256 leaves it alone.
LEMMA KeyRound ==
    ASSUME NEW k \in Keys
    PROVE  /\ \A j \in 1 .. KeyLen : k[j] \in Byte
           /\ [j \in 1 .. KeyLen |-> k[j] % 256] = k
<1>1. k \in [1 .. KeyLen -> Byte]
  BY SerialAssumption
<1>2. \A j \in 1 .. KeyLen : k[j] \in Byte /\ k[j] % 256 = k[j]
  <2>1. \A n \in Nat : n < 256 => n % 256 = n
    OBVIOUS
  <2>2. \A n \in Byte : n \in Nat /\ n < 256
    BY DEF Byte
  <2> QED BY <1>1, <2>1, <2>2
<1> QED BY <1>1, <1>2

LEMMA KeysRound ==
    ASSUME NEW ks \in Lists(Keys)
    PROVE  KeysOf(KeysFields(ks)) = ks
<1> DEFINE f == KeysFields(ks)
<1>1. Len(ks) \in Nat /\ \A i \in 1 .. Len(ks) : ks[i] \in Keys
  BY ListIsSeq
<1>2. ks = [i \in 1 .. Len(ks) |-> ks[i]]
  BY ListIsSeq
<1>3. f = [i \in 1 .. 16 * Len(ks) |-> ks[(i - 1) \div 16 + 1][((i - 1) % 16) + 1]]
  BY Sizes DEF KeysFields
<1>4. Len(f) = 16 * Len(ks) /\ Len(f) \div 16 = Len(ks)
  <2>1. 16 * Len(ks) \in Nat
    BY <1>1
  <2>2. Len(f) = 16 * Len(ks)
    BY <1>3, <2>1
  <2> QED BY <1>1, <2>2
<1>5. ASSUME NEW i \in 1 .. Len(ks)
      PROVE  [j \in 1 .. 16 |-> f[16 * (i - 1) + j] % 256] = ks[i]
  <2>1. ASSUME NEW j \in 1 .. 16
        PROVE  f[16 * (i - 1) + j] = ks[i][j]
    <3>1. /\ 16 * (i - 1) + j \in 1 .. 16 * Len(ks)
          /\ ((16 * (i - 1) + j) - 1) \div 16 + 1 = i
          /\ (((16 * (i - 1) + j) - 1) % 16) + 1 = j
      BY <1>1
    <3> QED BY <1>3, <3>1
  <2>2. [j \in 1 .. 16 |-> f[16 * (i - 1) + j] % 256] = [j \in 1 .. 16 |-> ks[i][j] % 256]
    BY <2>1
  <2>3. [j \in 1 .. 16 |-> ks[i][j] % 256] = ks[i]
    <3>1. ks[i] \in Keys
      BY <1>1
    <3>2. [j \in 1 .. KeyLen |-> ks[i][j] % 256] = ks[i]
      BY <3>1, KeyRound
    <3> QED BY <3>2, Sizes
  <2> QED BY <2>2, <2>3
<1>6. KeysOf(f) = [i \in 1 .. Len(ks) |-> [j \in 1 .. 16 |-> f[16 * (i - 1) + j] % 256]]
  BY <1>4, Sizes DEF KeysOf
<1>7. KeysOf(f) = [i \in 1 .. Len(ks) |-> ks[i]]
  BY <1>5, <1>6
<1> QED BY <1>2, <1>7

LEMMA BytesBack ==
    ASSUME NEW a \in Byte, NEW b \in Byte, NEW c \in Byte, NEW d \in Byte
    PROVE  /\ ByteOf(FourBytes(a, b, c, d), 0) = a
           /\ ByteOf(FourBytes(a, b, c, d), 1) = b
           /\ ByteOf(FourBytes(a, b, c, d), 2) = c
           /\ ByteOf(FourBytes(a, b, c, d), 3) = d
<1> DEFINE w == FourBytes(a, b, c, d)
<1>1. a \in 0 .. 255 /\ b \in 0 .. 255 /\ c \in 0 .. 255 /\ d \in 0 .. 255
  BY DEF Byte
<1>2. w = 256 * (256 * (256 * a + b) + c) + d
  BY DEF FourBytes
<1> HIDE DEF w
<1>3. w \div 256 = 256 * (256 * a + b) + c
  BY <1>1, <1>2
<1>4. w \div 65536 = 256 * a + b
  BY <1>1, <1>2
<1>5. w \div 16777216 = a
  BY <1>1, <1>2
<1>6. w % 256 = d
  BY <1>1, <1>2
<1>7. (256 * (256 * a + b) + c) % 256 = c
  BY <1>1
<1>8. (256 * a + b) % 256 = b
  BY <1>1
<1>9. a % 256 = a
  BY <1>1
<1>10. ByteOf(w, 0) = (w \div 16777216) % 256 /\ ByteOf(w, 1) = (w \div 65536) % 256
  BY DEF ByteOf
<1>11. ByteOf(w, 2) = (w \div 256) % 256 /\ ByteOf(w, 3) = w % 256
  BY DEF ByteOf
<1>12. ByteOf(w, 0) = a /\ ByteOf(w, 1) = b
  BY <1>4, <1>5, <1>8, <1>9, <1>10
<1>13. ByteOf(w, 2) = c /\ ByteOf(w, 3) = d
  BY <1>3, <1>6, <1>7, <1>11
<1> QED BY <1>12, <1>13 DEF w

LEMMA PackedRound ==
    ASSUME NEW ks \in Lists(Keys)
    PROVE  PackedKeysOf(PackedKeysFields(ks)) = ks
<1> DEFINE f == PackedKeysFields(ks)
           W(k, q) == FourBytes(k[4 * q + 1], k[4 * q + 2], k[4 * q + 3], k[4 * q + 4])
<1>1. Len(ks) \in Nat /\ \A i \in 1 .. Len(ks) : ks[i] \in Keys
  BY ListIsSeq
<1>2. ks = [i \in 1 .. Len(ks) |-> ks[i]]
  BY ListIsSeq
<1>3. f = [i \in 1 .. 4 * Len(ks) |-> W(ks[(i - 1) \div 4 + 1], (i - 1) % 4)]
  BY DEF PackedKeysFields
<1>4. Len(f) = 4 * Len(ks) /\ (4 * Len(f)) \div 16 = Len(ks)
  <2>1. 4 * Len(ks) \in Nat
    BY <1>1
  <2> HIDE DEF W
  <2>2. Len(f) = 4 * Len(ks)
    BY <1>3, <2>1
  <2>3. \A n \in Nat : (4 * (4 * n)) \div 16 = n
    OBVIOUS
  <2> QED BY <1>1, <2>2, <2>3
<1>5. ASSUME NEW i \in 1 .. Len(ks), NEW j \in 1 .. 16
      PROVE  ByteOf(f[4 * (i - 1) + (j - 1) \div 4 + 1], (j - 1) % 4) = ks[i][j]
  <2> DEFINE q == (j - 1) \div 4
  <2>1. q \in 0 .. 3 /\ (j - 1) % 4 \in 0 .. 3 /\ j = 4 * q + ((j - 1) % 4) + 1
    OBVIOUS
  <2> HIDE DEF q
  <2>2. /\ 4 * (i - 1) + q + 1 \in 1 .. 4 * Len(ks)
        /\ ((4 * (i - 1) + q + 1) - 1) \div 4 + 1 = i
        /\ ((4 * (i - 1) + q + 1) - 1) % 4 = q
    BY <1>1, <2>1
  <2>3. f[4 * (i - 1) + q + 1] = W(ks[i], q)
    <3> HIDE DEF W
    <3> QED BY <1>3, <2>2
  <2>4. /\ ks[i][4 * q + 1] \in Byte /\ ks[i][4 * q + 2] \in Byte
        /\ ks[i][4 * q + 3] \in Byte /\ ks[i][4 * q + 4] \in Byte
    <3>1. \A n \in 1 .. 16 : ks[i][n] \in Byte
      BY <1>1, KeyRound, Sizes
    <3>2. /\ 4 * q + 1 \in 1 .. 16 /\ 4 * q + 2 \in 1 .. 16
          /\ 4 * q + 3 \in 1 .. 16 /\ 4 * q + 4 \in 1 .. 16
      BY <2>1
    <3> QED BY <3>1, <3>2
  <2>5. /\ ByteOf(W(ks[i], q), 0) = ks[i][4 * q + 1]
        /\ ByteOf(W(ks[i], q), 1) = ks[i][4 * q + 2]
        /\ ByteOf(W(ks[i], q), 2) = ks[i][4 * q + 3]
        /\ ByteOf(W(ks[i], q), 3) = ks[i][4 * q + 4]
    BY <2>4, BytesBack
  <2> HIDE DEF W, f
  <2>6. ByteOf(f[4 * (i - 1) + q + 1], (j - 1) % 4) = ks[i][j]
    <3>1. CASE (j - 1) % 4 = 0
      <4>1. j = 4 * q + 1
        BY <2>1, <3>1
      <4> QED BY <2>3, <2>5, <3>1, <4>1
    <3>2. CASE (j - 1) % 4 = 1
      <4>1. j = 4 * q + 2
        BY <2>1, <3>2
      <4> QED BY <2>3, <2>5, <3>2, <4>1
    <3>3. CASE (j - 1) % 4 = 2
      <4>1. j = 4 * q + 3
        BY <2>1, <3>3
      <4> QED BY <2>3, <2>5, <3>3, <4>1
    <3>4. CASE (j - 1) % 4 = 3
      <4>1. j = 4 * q + 4
        BY <2>1, <3>4
      <4> QED BY <2>3, <2>5, <3>4, <4>1
    <3>5. (j - 1) % 4 \in {0, 1, 2, 3}
      OBVIOUS
    <3> QED BY <3>1, <3>2, <3>3, <3>4, <3>5
  <2> QED BY <2>6 DEF q
<1> HIDE DEF W
<1>6. PackedKeysOf(f) =
        [i \in 1 .. Len(ks) |-> [j \in 1 .. 16 |->
            ByteOf(f[4 * (i - 1) + (j - 1) \div 4 + 1], (j - 1) % 4)]]
  BY <1>4, Sizes DEF PackedKeysOf
<1> HIDE DEF f
<1>7. ASSUME NEW i \in 1 .. Len(ks)
      PROVE  [j \in 1 .. 16 |-> ByteOf(f[4 * (i - 1) + (j - 1) \div 4 + 1], (j - 1) % 4)] = ks[i]
  <2>1. [j \in 1 .. 16 |-> ByteOf(f[4 * (i - 1) + (j - 1) \div 4 + 1], (j - 1) % 4)]
          = [j \in 1 .. 16 |-> ks[i][j]]
    BY <1>5
  <2>2. ks[i] \in [1 .. 16 -> Byte]
    BY <1>1, SerialAssumption, Sizes
  <2> QED BY <2>1, <2>2
<1>8. PackedKeysOf(f) = [i \in 1 .. Len(ks) |-> ks[i]]
  BY <1>6, <1>7
<1> QED BY <1>2, <1>8 DEF f

-----------------------------------------------------------------------------
(* One lemma for each message of nested parts                               *)

LEMMA SetsRound ==
    ASSUME NEW ds \in Lists(SetDesc), NEW f,
           f = [i \in DOMAIN ds |-> [sk |-> ds[i].sk, shift |-> ds[i].shift,
                                     aux |-> PairsFields(ds[i].aux)]]
    PROVE  [i \in DOMAIN f |-> [sk    |-> [j \in 1 .. KeyLen |-> f[i].sk[j] % 256],
                                shift |-> f[i].shift,
                                aux   |-> PairsOf(f[i].aux)]] = ds
<1>1. DOMAIN ds = 1 .. Len(ds) /\ (\A i \in DOMAIN ds : ds[i] \in SetDesc)
      /\ ds = [i \in DOMAIN ds |-> ds[i]]
  BY ListIsSeq
<1>2. ASSUME NEW i \in DOMAIN ds
      PROVE  [sk    |-> [j \in 1 .. KeyLen |-> f[i].sk[j] % 256],
              shift |-> f[i].shift,
              aux   |-> PairsOf(f[i].aux)] = ds[i]
  <2>1. ds[i] \in [sk : Keys, shift : Numbers, aux : Lists(Pairs)]
    BY <1>1 DEF SetDesc
  <2>2. f[i].sk = ds[i].sk /\ f[i].shift = ds[i].shift /\ f[i].aux = PairsFields(ds[i].aux)
    OBVIOUS
  <2>3. [j \in 1 .. KeyLen |-> f[i].sk[j] % 256] = ds[i].sk
    BY <2>1, <2>2, KeyRound
  <2>4. PairsOf(f[i].aux) = ds[i].aux
    BY <2>1, <2>2, PairsRound
  <2>5. ds[i] = [sk |-> ds[i].sk, shift |-> ds[i].shift, aux |-> ds[i].aux]
    BY <2>1
  <2> QED BY <2>2, <2>3, <2>4, <2>5
<1>3. DOMAIN f = DOMAIN ds
  OBVIOUS
<1> QED BY <1>1, <1>2, <1>3

Diffs == {<<d>> : d \in DiffSetDesc} \cup {<<>>}

LEMMA DiffsRound ==
    ASSUME NEW ds \in Diffs, NEW f,
           f = [i \in DOMAIN ds |-> [sk |-> ds[i].sk, shift |-> ds[i].shift,
                                     aux_curr |-> PairsFields(ds[i].aux_curr),
                                     aux_prev |-> PairsFields(ds[i].aux_prev)]]
    PROVE  [i \in DOMAIN f |-> [sk       |-> [j \in 1 .. KeyLen |-> f[i].sk[j] % 256],
                                shift    |-> f[i].shift,
                                aux_prev |-> PairsOf(f[i].aux_prev),
                                aux_curr |-> PairsOf(f[i].aux_curr)]] = ds
<1>1. (\A i \in DOMAIN ds : ds[i] \in DiffSetDesc) /\ ds = [i \in DOMAIN ds |-> ds[i]]
  BY DEF Diffs
<1>2. ASSUME NEW i \in DOMAIN ds
      PROVE  [sk       |-> [j \in 1 .. KeyLen |-> f[i].sk[j] % 256],
              shift    |-> f[i].shift,
              aux_prev |-> PairsOf(f[i].aux_prev),
              aux_curr |-> PairsOf(f[i].aux_curr)] = ds[i]
  <2>1. ds[i] \in [sk : Keys, shift : Numbers, aux_prev : Lists(Pairs), aux_curr : Lists(Pairs)]
    BY <1>1 DEF DiffSetDesc
  <2>2. /\ f[i].sk = ds[i].sk /\ f[i].shift = ds[i].shift
        /\ f[i].aux_prev = PairsFields(ds[i].aux_prev)
        /\ f[i].aux_curr = PairsFields(ds[i].aux_curr)
    OBVIOUS
  <2>3. [j \in 1 .. KeyLen |-> f[i].sk[j] % 256] = ds[i].sk
    BY <2>1, <2>2, KeyRound
  <2>4. PairsOf(f[i].aux_prev) = ds[i].aux_prev /\ PairsOf(f[i].aux_curr) = ds[i].aux_curr
    BY <2>1, <2>2, PairsRound
  <2>5. ds[i] = [sk |-> ds[i].sk, shift |-> ds[i].shift,
                 aux_prev |-> ds[i].aux_prev, aux_curr |-> ds[i].aux_curr]
    BY <2>1
  <2> QED BY <2>2, <2>3, <2>4, <2>5
<1>3. DOMAIN f = DOMAIN ds
  OBVIOUS
<1> QED BY <1>1, <1>2, <1>3

-----------------------------------------------------------------------------
(* What is on its way is what its function makes of the message             *)

OnWire(k, m, f) == kind = k /\ message = m /\ wire = f

OnItsWay ==
    \/ \E b \in Blocks : OnWire("online_reply", [parity |-> b], [reply |-> BlockFields(b)])
    \/ \E bs \in Lists(Blocks) :
          OnWire("offline_reply", [parities |-> bs], [parities |-> BlocksFields(bs)])
    \/ \E is \in Lists(Numbers) : OnWire("online_query", [indices |-> is], [indices |-> is])
    \/ \E ds \in Lists(SetDesc) :
          OnWire("offline_query", [sets |-> ds],
               [sets |-> [i \in DOMAIN ds |-> [sk |-> ds[i].sk, shift |-> ds[i].shift,
                                               aux |-> PairsFields(ds[i].aux)]]])
    \/ \E ds \in Diffs, n \in Numbers, z \in Numbers, mk \in Keys :
          OnWire("offline_add_query",
            [nbrsets |-> n, setsize |-> z, mk |-> mk, diffsets |-> ds],
            [nbrsets |-> n, setsize |-> z, mk |-> mk,
             diffsets |-> [i \in DOMAIN ds |->
                 [sk |-> ds[i].sk, shift |-> ds[i].shift,
                  aux_curr |-> PairsFields(ds[i].aux_curr),
                  aux_prev |-> PairsFields(ds[i].aux_prev)]]])
    \/ \E bs \in Lists(Blocks), n \in Numbers :
          OnWire("ck_offline_reply", [nbrsets |-> n, hints |-> bs],
               [nbrsets |-> n, hints |-> BlocksFields(bs)])
    \/ \E ks \in Lists(Keys), h \in Numbers, bv \in Numbers, s \in Numbers :
          OnWire("ck_online_query", [height |-> h, bitvec |-> bv, keys |-> ks, shift |-> s],
               [height |-> h, bitvec |-> bv, keys |-> KeysFields(ks), shifts |-> s])
    \/ \E ks \in Lists(Keys), ss \in Lists(Numbers), n \in Numbers, z \in Numbers :
          OnWire("ck_offline_query",
            [nbrsets |-> n, setsize |-> z, offline_keys |-> ks, shifts |-> ss],
            [nbrsets |-> n, setsize |-> z, offline_keys |-> PackedKeysFields(ks),
             shifts |-> ss])

WireInv ==
    /\ stage \in {"idle", "sent", "received"}
    /\ stage = "sent" => OnItsWay
    /\ RoundTrips

LEMMA SerializeStep ==
    ASSUME NEW k, NEW m, NEW f, Serialize(k, m, f)
    PROVE  stage' = "sent" /\ OnWire(k, m, f)'
BY DEF Serialize, OnWire

LEMMA InitWireInv == SerialInit => WireInv
BY DEF SerialInit, WireInv, RoundTrips

\* A message is put into its fields.
LEMMA SendSteps ==
    ASSUME \/ OnlineReply \/ OfflineReply \/ OnlineQuery \/ OfflineQuery \/ OfflineAddQuery
           \/ CkOfflineReply \/ CkOnlineQuery \/ CkOfflineQuery
    PROVE  WireInv'
<1>1. stage' = "sent" /\ OnItsWay'
  <2>1. CASE OnlineReply
    BY <2>1, SerializeStep DEF OnlineReply, OnItsWay
  <2>2. CASE OfflineReply
    BY <2>2, SerializeStep DEF OfflineReply, OnItsWay
  <2>3. CASE OnlineQuery
    BY <2>3, SerializeStep DEF OnlineQuery, OnItsWay
  <2>4. CASE OfflineQuery
    BY <2>4, SerializeStep DEF OfflineQuery, OnItsWay
  <2>5. CASE OfflineAddQuery
    <3> DEFINE m(ds, n, z, mk) ==
                 [nbrsets |-> n, setsize |-> z, mk |-> mk, diffsets |-> ds]
               f(ds, n, z, mk) ==
                 [nbrsets |-> n, setsize |-> z, mk |-> mk,
                  diffsets |-> [i \in DOMAIN ds |->
                      [sk |-> ds[i].sk, shift |-> ds[i].shift,
                       aux_curr |-> PairsFields(ds[i].aux_curr),
                       aux_prev |-> PairsFields(ds[i].aux_prev)]]]
    <3>1. PICK ds \in Diffs, n \in Numbers, z \in Numbers, mk \in Keys :
            Serialize("offline_add_query", m(ds, n, z, mk), f(ds, n, z, mk))
      BY <2>5, Zenon DEF OfflineAddQuery, Diffs
    <3>2. stage' = "sent" /\ OnWire("offline_add_query", m(ds, n, z, mk), f(ds, n, z, mk))'
      BY <3>1, SerializeStep
    <3> QED BY <3>2, Zenon DEF OnItsWay
  <2>6. CASE CkOfflineReply
    BY <2>6, SerializeStep DEF CkOfflineReply, OnItsWay
  <2>7. CASE CkOnlineQuery
    <3> DEFINE m(ks, h, bv, s) == [height |-> h, bitvec |-> bv, keys |-> ks, shift |-> s]
               f(ks, h, bv, s) ==
                 [height |-> h, bitvec |-> bv, keys |-> KeysFields(ks), shifts |-> s]
    <3>1. PICK ks \in Lists(Keys), h \in Numbers, bv \in Numbers, s \in Numbers :
            Serialize("ck_online_query", m(ks, h, bv, s), f(ks, h, bv, s))
      BY <2>7 DEF CkOnlineQuery
    <3>2. stage' = "sent" /\ OnWire("ck_online_query", m(ks, h, bv, s), f(ks, h, bv, s))'
      BY <3>1, SerializeStep
    <3> QED BY <3>2, Zenon DEF OnItsWay
  <2>8. CASE CkOfflineQuery
    <3> DEFINE m(ks, ss, n, z) ==
                 [nbrsets |-> n, setsize |-> z, offline_keys |-> ks, shifts |-> ss]
               f(ks, ss, n, z) ==
                 [nbrsets |-> n, setsize |-> z, offline_keys |-> PackedKeysFields(ks),
                  shifts |-> ss]
    <3>1. PICK ks \in Lists(Keys), ss \in Lists(Numbers), n \in Numbers, z \in Numbers :
            Serialize("ck_offline_query", m(ks, ss, n, z), f(ks, ss, n, z))
      BY <2>8 DEF CkOfflineQuery
    <3>2. stage' = "sent" /\ OnWire("ck_offline_query", m(ks, ss, n, z), f(ks, ss, n, z))'
      BY <3>1, SerializeStep
    <3> QED BY <3>2, Zenon DEF OnItsWay
  <2> QED BY <2>1, <2>2, <2>3, <2>4, <2>5, <2>6, <2>7, <2>8
<1> QED BY <1>1 DEF WireInv, RoundTrips

\* What is read is the message, by the lemma on its parts.
LEMMA ReadStep ==
    ASSUME NEW k, NEW m, Deserialize(k, m), m = message
    PROVE  WireInv'
BY DEF Deserialize, WireInv, RoundTrips

LEMMA ReadSteps ==
    ASSUME WireInv,
           \/ ReadOnlineReply \/ ReadOfflineReply \/ ReadOnlineQuery \/ ReadOfflineQuery
           \/ ReadOfflineAddQuery \/ ReadCkOfflineReply \/ ReadCkOnlineQuery
           \/ ReadCkOfflineQuery
    PROVE  WireInv'
<1>1. OnItsWay
  <2>1. stage = "sent"
    BY DEF ReadOnlineReply, ReadOfflineReply, ReadOnlineQuery, ReadOfflineQuery,
           ReadOfflineAddQuery, ReadCkOfflineReply, ReadCkOnlineQuery, ReadCkOfflineQuery,
           Deserialize
  <2> QED BY <2>1 DEF WireInv
<1>2. CASE ReadOnlineReply
  <2>1. kind = "online_reply"
    BY <1>2 DEF ReadOnlineReply, Deserialize
  <2>2. PICK b \in Blocks : OnWire("online_reply", [parity |-> b], [reply |-> BlockFields(b)])
    BY <1>1, <2>1 DEF OnItsWay, OnWire
  <2>3. b \in SUBSET (0 .. BLOCK - 1) /\ wire.reply = BlockFields(b)
    BY <2>2, SerialAssumption DEF OnWire
  <2>4. [parity |-> BlockOf(wire.reply)] = message
    BY <2>2, <2>3, BlockRound DEF OnWire
  <2> QED BY <1>2, <2>4, ReadStep DEF ReadOnlineReply
<1>3. CASE ReadOfflineReply
  <2>1. kind = "offline_reply"
    BY <1>3 DEF ReadOfflineReply, Deserialize
  <2>2. PICK bs \in Lists(Blocks) :
          OnWire("offline_reply", [parities |-> bs], [parities |-> BlocksFields(bs)])
    BY <1>1, <2>1 DEF OnItsWay, OnWire
  <2>3. [parities |-> BlocksOf(wire.parities)] = message
    BY <2>2, BlocksRound DEF OnWire
  <2> QED BY <1>3, <2>3, ReadStep DEF ReadOfflineReply
<1>4. CASE ReadOnlineQuery
  <2>1. kind = "online_query"
    BY <1>4 DEF ReadOnlineQuery, Deserialize
  <2>2. PICK is \in Lists(Numbers) : OnWire("online_query", [indices |-> is], [indices |-> is])
    BY <1>1, <2>1 DEF OnItsWay, OnWire
  <2>3. [indices |-> wire.indices] = message
    BY <2>2 DEF OnWire
  <2> QED BY <1>4, <2>3, ReadStep DEF ReadOnlineQuery
<1>5. CASE ReadOfflineQuery
  <2>1. kind = "offline_query"
    BY <1>5 DEF ReadOfflineQuery, Deserialize
  <2>2. PICK ds \in Lists(SetDesc) :
          OnWire("offline_query", [sets |-> ds],
               [sets |-> [i \in DOMAIN ds |-> [sk |-> ds[i].sk, shift |-> ds[i].shift,
                                               aux |-> PairsFields(ds[i].aux)]]])
    BY <1>1, <2>1 DEF OnItsWay, OnWire
  <2>3. /\ message = [sets |-> ds]
        /\ wire.sets = [i \in DOMAIN ds |-> [sk |-> ds[i].sk, shift |-> ds[i].shift,
                                             aux |-> PairsFields(ds[i].aux)]]
    BY <2>2 DEF OnWire
  <2>4. [sets |-> [i \in DOMAIN wire.sets |->
            [sk    |-> [j \in 1 .. KeyLen |-> wire.sets[i].sk[j] % 256],
             shift |-> wire.sets[i].shift,
             aux   |-> PairsOf(wire.sets[i].aux)]]] = message
    BY <2>3, SetsRound
  <2> QED BY <1>5, <2>4, ReadStep DEF ReadOfflineQuery
<1>6. CASE ReadOfflineAddQuery
  <2>1. kind = "offline_add_query"
    BY <1>6 DEF ReadOfflineAddQuery, Deserialize
  <2>2. PICK ds \in Diffs, n \in Numbers, z \in Numbers, mk \in Keys :
          OnWire("offline_add_query",
            [nbrsets |-> n, setsize |-> z, mk |-> mk, diffsets |-> ds],
            [nbrsets |-> n, setsize |-> z, mk |-> mk,
             diffsets |-> [i \in DOMAIN ds |->
                 [sk |-> ds[i].sk, shift |-> ds[i].shift,
                  aux_curr |-> PairsFields(ds[i].aux_curr),
                  aux_prev |-> PairsFields(ds[i].aux_prev)]]])
    BY <1>1, <2>1 DEF OnItsWay, OnWire
  <2>3. /\ message = [nbrsets |-> n, setsize |-> z, mk |-> mk, diffsets |-> ds]
        /\ wire.nbrsets = n /\ wire.setsize = z /\ wire.mk = mk
        /\ wire.diffsets = [i \in DOMAIN ds |->
                 [sk |-> ds[i].sk, shift |-> ds[i].shift,
                  aux_curr |-> PairsFields(ds[i].aux_curr),
                  aux_prev |-> PairsFields(ds[i].aux_prev)]]
    BY <2>2 DEF OnWire
  <2>4. [j \in 1 .. KeyLen |-> wire.mk[j] % 256] = mk
    BY <2>3, KeyRound
  <2>5. [i \in DOMAIN wire.diffsets |->
            [sk       |-> [j \in 1 .. KeyLen |-> wire.diffsets[i].sk[j] % 256],
             shift    |-> wire.diffsets[i].shift,
             aux_prev |-> PairsOf(wire.diffsets[i].aux_prev),
             aux_curr |-> PairsOf(wire.diffsets[i].aux_curr)]] = ds
    BY <2>3, DiffsRound
  <2>6. [nbrsets |-> wire.nbrsets, setsize |-> wire.setsize,
         mk |-> [j \in 1 .. KeyLen |-> wire.mk[j] % 256],
         diffsets |-> [i \in DOMAIN wire.diffsets |->
            [sk       |-> [j \in 1 .. KeyLen |-> wire.diffsets[i].sk[j] % 256],
             shift    |-> wire.diffsets[i].shift,
             aux_prev |-> PairsOf(wire.diffsets[i].aux_prev),
             aux_curr |-> PairsOf(wire.diffsets[i].aux_curr)]]] = message
    BY <2>3, <2>4, <2>5
  <2> QED BY <1>6, <2>6, ReadStep DEF ReadOfflineAddQuery
<1>7. CASE ReadCkOfflineReply
  <2>1. kind = "ck_offline_reply"
    BY <1>7 DEF ReadCkOfflineReply, Deserialize
  <2>2. PICK bs \in Lists(Blocks), n \in Numbers :
          OnWire("ck_offline_reply", [nbrsets |-> n, hints |-> bs],
               [nbrsets |-> n, hints |-> BlocksFields(bs)])
    BY <1>1, <2>1 DEF OnItsWay, OnWire
  <2>3. [nbrsets |-> wire.nbrsets, hints |-> BlocksOf(wire.hints)] = message
    BY <2>2, BlocksRound DEF OnWire
  <2> QED BY <1>7, <2>3, ReadStep DEF ReadCkOfflineReply
<1>8. CASE ReadCkOnlineQuery
  <2>1. kind = "ck_online_query"
    BY <1>8 DEF ReadCkOnlineQuery, Deserialize
  <2>2. PICK ks \in Lists(Keys), h \in Numbers, bv \in Numbers, s \in Numbers :
          OnWire("ck_online_query", [height |-> h, bitvec |-> bv, keys |-> ks, shift |-> s],
               [height |-> h, bitvec |-> bv, keys |-> KeysFields(ks), shifts |-> s])
    BY <1>1, <2>1 DEF OnItsWay, OnWire
  <2>3. [height |-> wire.height, bitvec |-> wire.bitvec,
         keys |-> KeysOf(wire.keys), shift |-> wire.shifts] = message
    BY <2>2, KeysRound DEF OnWire
  <2> QED BY <1>8, <2>3, ReadStep DEF ReadCkOnlineQuery
<1>9. CASE ReadCkOfflineQuery
  <2>1. kind = "ck_offline_query"
    BY <1>9 DEF ReadCkOfflineQuery, Deserialize
  <2>2. PICK ks \in Lists(Keys), ss \in Lists(Numbers), n \in Numbers, z \in Numbers :
          OnWire("ck_offline_query",
            [nbrsets |-> n, setsize |-> z, offline_keys |-> ks, shifts |-> ss],
            [nbrsets |-> n, setsize |-> z, offline_keys |-> PackedKeysFields(ks),
             shifts |-> ss])
    BY <1>1, <2>1 DEF OnItsWay, OnWire
  <2>3. [nbrsets |-> wire.nbrsets, setsize |-> wire.setsize,
         offline_keys |-> PackedKeysOf(wire.offline_keys), shifts |-> wire.shifts] = message
    BY <2>2, PackedRound DEF OnWire
  <2> QED BY <1>9, <2>3, ReadStep DEF ReadCkOfflineQuery
<1> QED BY <1>2, <1>3, <1>4, <1>5, <1>6, <1>7, <1>8, <1>9

\* Every message is read back as it was sent (the two serial.hpp of inc-pir and ck-pir):
\* the counts that the receiver derives from the lengths of the lists are right for every
\* number of sets, parities, pairs, keys and shifts.
THEOREM MessagesRoundTrip == SerialSpec => []RoundTrips
<1>1. SerialInit => WireInv
  BY InitWireInv
<1>2. WireInv /\ [SerialNext]_serialvars => WireInv'
  <2> SUFFICES ASSUME WireInv, [SerialNext]_serialvars PROVE WireInv'
    OBVIOUS
  <2>1. CASE UNCHANGED serialvars
    BY <2>1 DEF serialvars, WireInv, OnItsWay, OnWire, RoundTrips
  <2>2. CASE SerialNext
    BY <2>2, SendSteps, ReadSteps DEF SerialNext
  <2> QED BY <2>1, <2>2
<1>3. WireInv => RoundTrips
  BY DEF WireInv
<1> QED BY <1>1, <1>2, <1>3, PTL DEF SerialSpec
=============================================================================
