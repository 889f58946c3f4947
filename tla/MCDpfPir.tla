------------------------------- MODULE MCDpfPir -------------------------------
(***************************************************************************)
(* The store that a server of DPF-PIR answers from (HashDataStore) and the *)
(* retrieval around its answer (DpfPir), checked in one run.  The two      *)
(* share no state: a behaviour is one of either, and the other one stays   *)
(* where it is.                                                            *)
(***************************************************************************)
EXTENDS HashDataStore, DpfPir

VARIABLE part   \* which of the two the behaviour is about

\* The store: every byte in front of a few.  Each row of the tables is used, and a
\* second iteration finds what the first left in the accumulators.
MCIndexings ==
    {[b \in {0} |-> v] : v \in Byte} \cup
    {[b \in {0, 1} |-> IF b = 0 THEN v ELSE w] : v \in Byte, w \in {0, 170}}

MCIndexingsOfABigStore ==
    {[b \in 0 .. 2^n - 1 |-> IF b % 2 = 0 THEN v ELSE w] : v \in {1, 170}, w \in {0, 131}, n \in 0 .. 2}

MCAllIndexings == MCIndexings \cup MCIndexingsOfABigStore

\* The retrieval: leaves whose exclusive or ends in 0xFF in each of the last three
\* bytes, in some of them or in none, and points in the first and in the last of them.
Ones(j) == {8 * (j - 1) + k : k \in 0 .. 7}

MCBlocks == {{}, {0, 3, 127}, Ones(16), Ones(14) \cup Ones(16), Ones(13) \cup Ones(15)}

MCNodes == {[t |-> b # {}, block |-> b] : b \in MCBlocks}

MCElsewhere == [k \in 0 .. 1 |-> [t |-> k = 1, block |-> {5, 64, 126}]]

MCPoints == {0, 127, 128, 1024, 1900}

\* One of the initial states of either.
StoreParked ==
    /\ fn = CHOOSE f \in Fns : TRUE
    /\ size = CHOOSE n \in Sizes : \A m \in Sizes : n <= m
    /\ alpha = 0 /\ \A b \in DOMAIN indexing[0] : indexing[0][b] = 0

RetrievalParked ==
    /\ lgn = 10 /\ qry_idx = 0 /\ head = 90
    /\ \A p \in Party : tree[p][0].block = {}

MCInit ==
    \/ part = "store"     /\ RetrievalInit /\ RetrievalParked /\ Init
    \/ part = "retrieval" /\ Init /\ StoreParked /\ RetrievalInit

MCNext ==
    /\ UNCHANGED part
    /\ \/ part = "store"     /\ Next          /\ UNCHANGED retrievalvars
       \/ part = "retrieval" /\ RetrievalNext /\ UNCHANGED vars

MCSpec == MCInit /\ [][MCNext]_<<vars, retrievalvars, part>>
=============================================================================
