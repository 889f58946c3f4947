-------------------------------- MODULE Serial --------------------------------
(***************************************************************************)
(* The conversions of queries and replies to and from protocol buffers, of *)
(* the incremental scheme (inc-pir/src/serial.hpp) and of CK-PIR           *)
(* (baselines/ck-pir/src/serial.hpp).  A buffer has flat lists of numbers  *)
(* only: blocks, keys and pairs are cut into fields, and the receiver      *)
(* finds out from the length of a list how many there were.                *)
(*                                                                         *)
(* A block is the set of its bits that are one, and so is a field of 64    *)
(* bits.  The names of the messages are those of the functions; both       *)
(* programs have an online and an offline query and reply.                 *)
(***************************************************************************)
EXTENDS Integers, Sequences

CONSTANTS Blocks, Keys, Numbers,   \* what the messages are made of
          MaxLen                   \* bound: the entries of a list

BLOCK  == 16000
FIELDS == BLOCK \div 64
KeyLen == 16
Byte   == 0 .. 255

ASSUME SerialAssumption ==
    /\ Blocks \subseteq SUBSET (0 .. BLOCK - 1)
    /\ Keys \subseteq [1 .. KeyLen -> Byte]
    /\ Numbers \subseteq Nat /\ MaxLen \in Nat

VARIABLES stage, kind,
          message,    \* what the sender has
          wire,       \* the fields of the buffer
          received    \* what the receiver makes of them

serialvars == <<stage, kind, message, wire, received>>

Lists(S) == UNION {[1 .. n -> S] : n \in 0 .. MaxLen}
Pairs    == {<<a, b>> : a \in Numbers, b \in Numbers}

SerialInit == stage = "idle" /\ kind = "none" /\ message = <<>> /\ wire = <<>> /\ received = <<>>

Serialize(k, m, fields) ==
    /\ stage = "idle" /\ stage' = "sent"
    /\ kind' = k /\ message' = m /\ wire' = fields
    /\ UNCHANGED received

Deserialize(k, m) ==
    /\ stage = "sent" /\ kind = k /\ stage' = "received"
    /\ received' = m
    /\ UNCHANGED <<kind, message, wire>>

-----------------------------------------------------------------------------
(* Blocks, keys and pairs in fields                                         *)

BlockFields(b) ==
    [j \in 1 .. FIELDS |-> {k \in 0 .. 63 : 64 * (j - 1) + k \in b}]

BlockOf(f) == {k \in 0 .. BLOCK - 1 : k % 64 \in f[k \div 64 + 1]}

BlocksFields(bs) ==
    [i \in 1 .. FIELDS * Len(bs) |->
        BlockFields(bs[(i - 1) \div FIELDS + 1])[((i - 1) % FIELDS) + 1]]

\* (mutant) The fields of a block are taken one block apart from where they are.
BlocksOfStride(f) ==
    [i \in 1 .. Len(f) \div FIELDS |->
        BlockOf([j \in 1 .. FIELDS |-> f[(FIELDS * (i - 1)) \div 64 + j]])]

BlocksOf(f) ==
    [i \in 1 .. Len(f) \div FIELDS |->
        BlockOf([j \in 1 .. FIELDS |-> f[FIELDS * (i - 1) + j]])]

PairsFields(ps) == [i \in 1 .. 2 * Len(ps) |-> ps[(i - 1) \div 2 + 1][((i - 1) % 2) + 1]]
PairsOf(f)      == [j \in 1 .. Len(f) \div 2 |-> <<f[2 * j - 1], f[2 * j]>>]

KeysFields(ks) ==
    [i \in 1 .. KeyLen * Len(ks) |-> ks[(i - 1) \div KeyLen + 1][((i - 1) % KeyLen) + 1]]
KeysOf(f) ==
    [i \in 1 .. Len(f) \div KeyLen |-> [j \in 1 .. KeyLen |-> f[KeyLen * (i - 1) + j] % 256]]

FourBytes(a, b, c, d) == 256 * (256 * (256 * a + b) + c) + d

\* Four bytes in a field, the first one highest.
PackedKeysFields(ks) ==
    [i \in 1 .. 4 * Len(ks) |->
        LET k == ks[(i - 1) \div 4 + 1]
            j == 4 * ((i - 1) % 4)
        IN  FourBytes(k[j + 1], k[j + 2], k[j + 3], k[j + 4])]

ByteOf(w, n) == CASE n = 0 -> (w \div 16777216) % 256
                  [] n = 1 -> (w \div 65536) % 256
                  [] n = 2 -> (w \div 256) % 256
                  [] n = 3 -> w % 256

PackedKeysOf(f) ==
    [i \in 1 .. (4 * Len(f)) \div KeyLen |->
        [j \in 1 .. KeyLen |-> ByteOf(f[4 * (i - 1) + (j - 1) \div 4 + 1], (j - 1) % 4)]]

-----------------------------------------------------------------------------
(* The incremental scheme                                                   *)

OnlineReply ==
    \E b \in Blocks : Serialize("online_reply", [parity |-> b], [reply |-> BlockFields(b)])
ReadOnlineReply ==
    Deserialize("online_reply", [parity |-> BlockOf(wire.reply)])

OfflineReply ==
    \E bs \in Lists(Blocks) :
        Serialize("offline_reply", [parities |-> bs], [parities |-> BlocksFields(bs)])
ReadOfflineReply ==
    Deserialize("offline_reply", [parities |-> BlocksOf(wire.parities)])

OnlineQuery ==
    \E is \in Lists(Numbers) :
        Serialize("online_query", [indices |-> is], [indices |-> is])
ReadOnlineQuery ==
    Deserialize("online_query", [indices |-> wire.indices])

SetDesc == [sk : Keys, shift : Numbers, aux : Lists(Pairs)]

OfflineQuery ==
    \E ds \in Lists(SetDesc) :
        Serialize("offline_query", [sets |-> ds],
            [sets |-> [i \in DOMAIN ds |-> [sk |-> ds[i].sk, shift |-> ds[i].shift,
                                            aux |-> PairsFields(ds[i].aux)]]])
ReadOfflineQuery ==
    Deserialize("offline_query",
        [sets |-> [i \in DOMAIN wire.sets |->
            [sk    |-> [j \in 1 .. KeyLen |-> wire.sets[i].sk[j] % 256],
             shift |-> wire.sets[i].shift,
             aux   |-> PairsOf(wire.sets[i].aux)]]])

DiffSetDesc ==
    [sk : Keys, shift : Numbers, aux_prev : Lists(Pairs), aux_curr : Lists(Pairs)]

\* Bound: one difference at most.
OfflineAddQuery ==
    \E ds \in {<<d>> : d \in DiffSetDesc} \cup {<<>>}, n \in Numbers,
       z \in Numbers, mk \in Keys :
        Serialize("offline_add_query",
            [nbrsets |-> n, setsize |-> z, mk |-> mk, diffsets |-> ds],
            [nbrsets |-> n, setsize |-> z, mk |-> mk,
             diffsets |-> [i \in DOMAIN ds |->
                 [sk |-> ds[i].sk, shift |-> ds[i].shift,
                  aux_curr |-> PairsFields(ds[i].aux_curr),
                  aux_prev |-> PairsFields(ds[i].aux_prev)]]])

ReadOfflineAddQuery ==
    Deserialize("offline_add_query",
        [nbrsets |-> wire.nbrsets, setsize |-> wire.setsize,
         mk |-> [j \in 1 .. KeyLen |-> wire.mk[j] % 256],
         diffsets |-> [i \in DOMAIN wire.diffsets |->
            [sk       |-> [j \in 1 .. KeyLen |-> wire.diffsets[i].sk[j] % 256],
             shift    |-> wire.diffsets[i].shift,
             aux_prev |-> PairsOf(wire.diffsets[i].aux_prev),
             aux_curr |-> PairsOf(wire.diffsets[i].aux_curr)]]])

-----------------------------------------------------------------------------
(* CK-PIR                                                                   *)

CkOfflineReply ==
    \E bs \in Lists(Blocks), n \in Numbers :
        Serialize("ck_offline_reply", [nbrsets |-> n, hints |-> bs],
                  [nbrsets |-> n, hints |-> BlocksFields(bs)])
ReadCkOfflineReply ==
    Deserialize("ck_offline_reply",
                [nbrsets |-> wire.nbrsets, hints |-> BlocksOf(wire.hints)])

CkOnlineQuery ==
    \E ks \in Lists(Keys), h \in Numbers, bv \in Numbers, s \in Numbers :
        Serialize("ck_online_query", [height |-> h, bitvec |-> bv, keys |-> ks, shift |-> s],
                  [height |-> h, bitvec |-> bv, keys |-> KeysFields(ks), shifts |-> s])
ReadCkOnlineQuery ==
    Deserialize("ck_online_query", [height |-> wire.height, bitvec |-> wire.bitvec,
                                    keys |-> KeysOf(wire.keys), shift |-> wire.shifts])

CkOfflineQuery ==
    \E ks \in Lists(Keys), ss \in Lists(Numbers), n \in Numbers, z \in Numbers :
        Serialize("ck_offline_query",
            [nbrsets |-> n, setsize |-> z, offline_keys |-> ks, shifts |-> ss],
            [nbrsets |-> n, setsize |-> z, offline_keys |-> PackedKeysFields(ks),
             shifts |-> ss])
ReadCkOfflineQuery ==
    Deserialize("ck_offline_query",
        [nbrsets |-> wire.nbrsets, setsize |-> wire.setsize,
         offline_keys |-> PackedKeysOf(wire.offline_keys), shifts |-> wire.shifts])

SerialNext ==
    \/ /\ stage = "idle"
       /\ \/ OnlineReply \/ OfflineReply \/ OnlineQuery \/ OfflineQuery \/ OfflineAddQuery
          \/ CkOfflineReply \/ CkOnlineQuery \/ CkOfflineQuery
    \/ ReadOnlineReply \/ ReadOfflineReply \/ ReadOnlineQuery \/ ReadOfflineQuery
    \/ ReadOfflineAddQuery \/ ReadCkOfflineReply \/ ReadCkOnlineQuery \/ ReadCkOfflineQuery

SerialSpec == SerialInit /\ [][SerialNext]_serialvars

-----------------------------------------------------------------------------
(* Properties                                                               *)

\* What is read back is what was sent, for every message of both programs: no count
\* that the receiver derives from the length of a list is wrong, and neither blocks nor
\* keys nor the two lists of a difference run into one another.  main.cpp:62, 83, 97,
\* 104 and 152 assert it; the main program of CK-PIR compares its offline reply with
\* itself instead (baselines/ck-pir/main.cpp:72).
RoundTrips == stage = "received" => received = message
=============================================================================
