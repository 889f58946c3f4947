-------------------------------- MODULE DpfPir --------------------------------
(***************************************************************************)
(* One retrieval with DPF-PIR (baselines/dpf-pir/serial.hpp, in the order  *)
(* of test.cpp): the client packs its two keys into words, the server      *)
(* unpacks them, evaluates each over the database, and the client          *)
(* separates the two replies and combines them.  test.cpp stops at its     *)
(* assertion when the keys have changed; net_server.cpp answers them.      *)
(*                                                                         *)
(* The tree that the keys describe is in Dpf; here it is reduced to what   *)
(* Dpf shows of it: off the path to the point both servers reach the same  *)
(* node, on it their bits differ.  A packed leaf is the set of its bits    *)
(* that are one.  A word of 32 bits is its four bytes, the highest first.  *)
(* A reply's word is the set of the records that it is the sum of.         *)
(***************************************************************************)
EXTENDS Bytes, Sequences, FiniteSets

CONSTANTS Heights,   \* the values of lgn
          Points,    \* the values of qry_idx
          Heads,     \* the bytes that fill a key up to its final word
          Nodes,     \* the nodes [t, block] that evaluations reach on the path
          Elsewhere, \* and off it, in leaves with an even and an odd number
          Repeats    \* 62: how often a server computes its answer

Party   == {0, 1}
Offsets == 0 .. 127
WORDS   == 8           \* the 32 bit words of a record

ASSUME DpfPirAssumption ==
    /\ Heights \subseteq Nat \ 0 .. 9     \* assert(stop >= 3) in EvalFull8
    /\ Points \subseteq Nat /\ Heads \subseteq Byte
    /\ Nodes \subseteq [t : BOOLEAN, block : SUBSET Offsets]
    /\ Elsewhere \in [0 .. 1 -> [t : BOOLEAN, block : SUBSET Offsets]]
    /\ Repeats \in Nat \ {0}

\* A leaf packs 128 points: what the prover is told about 2^lgn.
ASSUME LeavesArePacked ==
    \A h \in Heights : 2^(h - 7) \in Nat /\ 2^h = 128 * 2^(h - 7)

VARIABLES
    lgn, qry_idx,
    tree,      \* tree[p][leaf]: the node that party p reaches
    head,      \* the byte that fills the keys
    call,      \* the next call of test.cpp
    query,     \* the keys of the client: left (0) and right (1)
    words,     \* the query as it is sent
    query1,    \* the keys of the server
    reply,     \* what the server has computed from each
    msg,       \* the reply as it is sent
    lr,        \* the two replies, as the client reads them
    result     \* the records that the result is the sum of

retrievalvars == <<lgn, qry_idx, tree, head, call, query, words, query1, reply, msg, lr, result>>

Stop    == lgn - 7
Leaf(x) == x \div 128
Nothing == [p \in Party |-> <<>>]

\* qry_idx is reduced modulo 1 << lgn; Gen asserts it.
MayAsk(x) == x < 2^lgn

RetrievalInit ==
    /\ lgn \in Heights /\ qry_idx \in Points /\ MayAsk(qry_idx) /\ head \in Heads
    /\ \E on \in Nodes, other \in {n.block : n \in Nodes} :
           LET common == [l \in 0 .. 2^Stop - 1 |-> Elsewhere[l % 2]]
           IN  tree = [p \in Party |-> [common EXCEPT ![Leaf(qry_idx)] =
                   IF p = 0 THEN on ELSE [t |-> ~on.t, block |-> other]]]
    /\ call = "generate_query"
    /\ query = Nothing /\ words = Nothing /\ query1 = Nothing
    /\ reply = Nothing /\ msg = <<>> /\ lr = Nothing /\ result = {}

-----------------------------------------------------------------------------
(* Keys: a seed and a bit, 18 bytes for each level, the final word          *)

BytesOf(S) ==
    [j \in 1 .. 16 |->
        CHOOSE v \in Byte : \A b \in Lane : Bit(v, b) = 1 <=> (8 * (j - 1)) + b \in S]
BitsOf(word) == {o \in Offsets : Bit(word[(o \div 8) + 1], o % 8) = 1}

Final == {qry_idx % 128} ## (tree[0][Leaf(qry_idx)].block ## tree[1][Leaf(qry_idx)].block)

Key(p) == [j \in 1 .. 17 + 18 * Stop |-> IF j = 17 THEN p ELSE head] \o BytesOf(Final)

GenerateQuery ==
    /\ call = "generate_query" /\ call' = "serialize_query"
    /\ query' = [p \in Party |-> Key(p)]
    /\ UNCHANGED <<lgn, qry_idx, tree, head, words, query1, reply, msg, lr, result>>

\* The key in words; the bytes missing in the last one are 0xFF.
Packed(k) ==
    [i \in 1 .. Len(k) \div 4 + 1 |-> [b \in 1 .. 4 |->
        IF 4 * (i - 1) + b <= Len(k) THEN k[4 * (i - 1) + b] ELSE 255]]

SerializeQuery ==
    /\ call = "serialize_query" /\ call' = "deserialize_query"
    /\ words' = [p \in Party |-> Packed(query[p])]
    /\ UNCHANGED <<lgn, qry_idx, tree, head, query, query1, reply, msg, lr, result>>

\* (mutant) Every byte 0xFF of the last word is taken for padding, and only those.
KeptNotPadding(w) == Cardinality({b \in 1 .. 4 : w[b] # 255})

\* The bytes taken from the last word: those before the first 0xFF.  Without one the
\* four are pushed twice, in the checks and behind them.
Kept(w) == IF \A b \in 1 .. 4 : w[b] # 255 THEN 8
           ELSE CHOOSE n \in 0 .. 3 : w[n + 1] = 255 /\ \A b \in 1 .. n : w[b] # 255

Unpacked(ws) ==
    [j \in 1 .. 4 * (Len(ws) - 1) + Kept(ws[Len(ws)]) |->
        IF j <= 4 * Len(ws) THEN ws[(j - 1) \div 4 + 1][((j - 1) % 4) + 1]
        ELSE ws[Len(ws)][((j - 1) % 4) + 1]]

DeserializeQuery ==
    /\ call = "deserialize_query" /\ call' = "generate_left_reply"
    /\ query1' = [p \in Party |-> Unpacked(words[p])]
    /\ UNCHANGED <<lgn, qry_idx, tree, head, query, words, reply, msg, lr, result>>

-----------------------------------------------------------------------------
(* EvalFull8 and answer_pir2 on what has arrived, and the way back          *)

\* Every evaluation copies the last 16 bytes of the key that it is given.
FinalWord(k) == SubSeq(k, Len(k) - 15, Len(k))

Sum(p, k) ==
    LET word == BitsOf(FinalWord(k))
        Bits(n) == IF n.t THEN n.block ## word ELSE n.block
    IN  UNION {{128 * l + o : o \in Bits(tree[p][l])} : l \in DOMAIN tree[p]}

\* The answer again and again, eight words each time.
Answers(p, k) == [i \in 1 .. WORDS * Repeats |-> Sum(p, k)]

GenerateLeftReply ==
    /\ call = "generate_left_reply" /\ call' = "generate_right_reply"
    /\ reply' = [reply EXCEPT ![0] = Answers(0, query1[0])]
    /\ UNCHANGED <<lgn, qry_idx, tree, head, query, words, query1, msg, lr, result>>

GenerateRightReply ==
    /\ call = "generate_right_reply" /\ call' = "serialize_reply"
    /\ reply' = [reply EXCEPT ![1] = Answers(1, query1[1])]
    /\ UNCHANGED <<lgn, qry_idx, tree, head, query, words, query1, msg, lr, result>>

SerializeReply ==
    /\ call = "serialize_reply" /\ call' = "deserialize_reply"
    /\ msg' = reply[0] \o reply[1]
    /\ UNCHANGED <<lgn, qry_idx, tree, head, query, words, query1, reply, lr, result>>

\* (mutant) The right reply is read one record after the left, not behind all of them.
DeserializeReplyNext ==
    /\ call = "deserialize_reply" /\ call' = "recover"
    /\ lr' = [p \in Party |-> [i \in 1 .. Len(msg) \div 2 |-> msg[p * WORDS + i]]]
    /\ UNCHANGED <<lgn, qry_idx, tree, head, query, words, query1, reply, msg, result>>

\* assert(reply.v_size() % 2 == 0)
DeserializeReply ==
    /\ call = "deserialize_reply" /\ call' = "recover"
    /\ Len(msg) % 2 = 0
    /\ lr' = [p \in Party |-> [i \in 1 .. Len(msg) \div 2 |-> msg[p * (Len(msg) \div 2) + i]]]
    /\ UNCHANGED <<lgn, qry_idx, tree, head, query, words, query1, reply, msg, result>>

\* The first record of each; its first quadword is compared with qry_idx.
Recover ==
    /\ call = "recover" /\ call' = "done"
    /\ result' = lr[0][1] ## lr[1][1]
    /\ UNCHANGED <<lgn, qry_idx, tree, head, query, words, query1, reply, msg, lr>>

RetrievalNext ==
    \/ GenerateQuery \/ SerializeQuery \/ DeserializeQuery
    \/ GenerateLeftReply \/ GenerateRightReply
    \/ SerializeReply \/ DeserializeReply \/ Recover

RetrievalSpec == RetrievalInit /\ [][RetrievalNext]_retrievalvars

-----------------------------------------------------------------------------
(* Properties                                                               *)

Arrived == call \notin {"generate_query", "serialize_query", "deserialize_query"}

\* The bytes of the final word that the server reads: where the key was cut it takes
\* bytes from before the final word instead.
Read == BitsOf(FinalWord(query1[0]))

\* The bytes that share the last word with the padding.
BesidePadding(k) == Len(k) - (Len(k) % 4) + 1 .. Len(k)

\* What unpacking makes of keys of any length that occurs.  They arrive as they were
\* sent, as test.cpp:56 asserts, exactly when none of the bytes beside the padding is
\* 0xFF.  Otherwise a key loses at most three bytes, from the first 0xFF among those on,
\* and the two keys, which end alike, lose the same (serial.hpp:190-237 against 245-336).
KeysAreCutAlike ==
    Arrived =>
        /\ query1 = query <=>
              \A p \in Party : \A j \in BesidePadding(query[p]) : query[p][j] # 255
        /\ \E n \in 0 .. 3 : \A p \in Party :
              LET k == query[p] IN
              /\ query1[p] = SubSeq(k, 1, Len(k) - n)
              /\ n > 0 => k[Len(k) - n + 1] = 255
              /\ \A j \in Len(k) - (Len(k) % 4) + 1 .. Len(k) - n : k[j] # 255

\* "assert(equal_query(query, query1))", test.cpp:56: the server evaluates the keys that
\* the client has generated (serial.hpp:245-336).
KeysArriveUnchanged == Arrived => query1 = query

\* A query whose keys arrive whole recovers its record and nothing else; a cut spoils
\* only the leaf of the point, by the bits in which the word read differs from the word
\* sent: the records outside these 128 never enter the answer (serial.hpp:79-137).
AnswerIsExact ==
    call = "done" =>
        /\ query1 = query => result = {qry_idx}
        /\ result = {qry_idx} ## {128 * Leaf(qry_idx) + o : o \in Read ## Final}

=============================================================================
