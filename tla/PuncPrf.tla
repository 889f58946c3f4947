------------------------------- MODULE PuncPrf -------------------------------
(***************************************************************************)
(* The puncturable pseudorandom function of CK-PIR                         *)
(* (baselines/ck-pir/src/puncprf.cpp): a binary tree of node labels, in    *)
(* which PRG derives the labels of the two children.  The client punctures *)
(* its key at punc_x; the server evaluates what is left of the key at x.   *)
(* The module runs the four loops one after the other, one iteration per   *)
(* action: Punc, EvalPunc, Eval and BreadthEval.                           *)
(*                                                                         *)
(* A label is the path of derivations that leads to it from the root key:  *)
(* labels are compared by where they come from.  The value of a leaf is a  *)
(* function of its label, cut out of it by the same loop in all three      *)
(* evaluations, so that a result is here the label of the leaf.            *)
(***************************************************************************)
EXTENDS Integers, Sequences

CONSTANTS MaxLgn,   \* bound: the tallest tree
          Pow       \* Pow[i] is 1 << i

ASSUME PowAssumption ==
    /\ MaxLgn \in Nat \ {0}
    /\ Pow \in [0 .. MaxLgn -> Nat \ {0}]
    /\ Pow[0] = 1
    /\ \A i \in 0 .. MaxLgn - 1 : Pow[i + 1] = 2 * Pow[i]

VARIABLES
    lgn,           \* the height of the tree
    x, punc_x,     \* the arguments
    pc,            \* the loop that runs
    i,             \* its counter (cur_pos in the descent of EvalPunc)
    node_key,      \* the label that the loop has arrived at
    punc_number,   \* Punc: what is left of punc_x
    keys, bitvec,  \* PuncKeys
    punc_res,      \* what EvalPunc returned: a leaf, or Punctured
    eval_res,      \* what Eval returned
    prev_nodes, cur_nodes   \* BreadthEval: the labels of two levels

args == <<lgn, x, punc_x>>
vars == <<args, pc, i, node_key, punc_number, keys, bitvec, punc_res, eval_res, prev_nodes, cur_nodes>>

Root      == <<>>
Punctured == <<-1>>

PRG(stkey) == [left |-> Append(stkey, 0), right |-> Append(stkey, 1)]

\* The bit of n that level l of the tree looks at, (n >> (lgn - l)) & 1.
Bit(n, l) == (n \div Pow[lgn - l]) % 2

Child(key, bit) == IF bit = 0 THEN PRG(key).left ELSE PRG(key).right

\* What EvalPunc, Eval and BreadthEval return before they have run.
NotYet == <<-2>>

Init ==
    /\ lgn \in 1 .. MaxLgn
    /\ x \in 0 .. Pow[lgn] - 1 /\ punc_x \in 0 .. Pow[lgn] - 1
    /\ pc = "Punc" /\ i = 1
    /\ node_key = Root
    /\ punc_number = punc_x
    /\ keys = <<>> /\ bitvec = 0
    /\ punc_res = NotYet /\ eval_res = NotYet
    /\ prev_nodes = <<>> /\ cur_nodes = <<>>
-----------------------------------------------------------------------------
(* Punc(key, punc_x, lgn) *)

Half == Pow[lgn - i]   \* (1<<lgn)/(1<<i)

\* (mutant) The point in the middle is taken for one of the left half.
PuncRightStrict ==
    /\ pc = "Punc" /\ i <= lgn /\ Half < punc_number
    /\ punc_number' = punc_number - Half
    /\ keys' = Append(keys, PRG(node_key).left)
    /\ node_key' = PRG(node_key).right
    /\ bitvec' = bitvec + Half
    /\ i' = i + 1
    /\ UNCHANGED <<args, pc, punc_res, eval_res, prev_nodes, cur_nodes>>

\* bitvec |= 1<<(lgn-i): the bit is not set yet.
PuncRight ==
    /\ pc = "Punc" /\ i <= lgn /\ Half <= punc_number
    /\ punc_number' = punc_number - Half
    /\ keys' = Append(keys, PRG(node_key).left)
    /\ node_key' = PRG(node_key).right
    /\ bitvec' = bitvec + Half
    /\ i' = i + 1
    /\ UNCHANGED <<args, pc, punc_res, eval_res, prev_nodes, cur_nodes>>

\* (mutant) The key on the path is given away instead of its sibling.
PuncLeftKeepsPath ==
    /\ pc = "Punc" /\ i <= lgn /\ punc_number < Half
    /\ keys' = Append(keys, PRG(node_key).left)
    /\ node_key' = PRG(node_key).left
    /\ i' = i + 1
    /\ UNCHANGED <<args, pc, punc_number, bitvec, punc_res, eval_res, prev_nodes, cur_nodes>>

PuncLeft ==
    /\ pc = "Punc" /\ i <= lgn /\ punc_number < Half
    /\ keys' = Append(keys, PRG(node_key).right)
    /\ node_key' = PRG(node_key).left
    /\ i' = i + 1
    /\ UNCHANGED <<args, pc, punc_number, bitvec, punc_res, eval_res, prev_nodes, cur_nodes>>

PuncReturn ==
    /\ pc = "Punc" /\ i > lgn
    /\ pc' = "EvalPunc" /\ i' = 1
    /\ UNCHANGED <<args, node_key, punc_number, keys, bitvec, punc_res, eval_res, prev_nodes, cur_nodes>>
-----------------------------------------------------------------------------
(* EvalPunc(punc_keys, x, lgn, range) *)

\* The evaluation of x under the punctured key has ended with res; Eval starts.
EvalPuncReturns(res) ==
    /\ punc_res' = res
    /\ pc' = "Eval" /\ i' = 1 /\ node_key' = Root
    /\ UNCHANGED <<args, punc_number, keys, bitvec, eval_res, prev_nodes, cur_nodes>>

EvalPuncPunctured ==
    /\ pc = "EvalPunc" /\ x = bitvec
    /\ EvalPuncReturns(Punctured)

EvalPuncSameBit ==
    /\ pc = "EvalPunc" /\ x # bitvec /\ i <= lgn
    /\ Bit(x, i) = Bit(bitvec, i)
    /\ i' = i + 1
    /\ UNCHANGED <<args, pc, node_key, punc_number, keys, bitvec, punc_res, eval_res, prev_nodes, cur_nodes>>

\* (mutant) The key is taken for the root of the next level.
EvalPuncTakeKeySameLevel ==
    /\ pc = "EvalPunc" /\ x # bitvec /\ i <= lgn
    /\ Bit(x, i) # Bit(bitvec, i)
    /\ node_key' = keys[i]
    /\ pc' = "EvalPuncDown"
    /\ UNCHANGED <<args, i, punc_number, keys, bitvec, punc_res, eval_res, prev_nodes, cur_nodes>>

\* At the first bit that differs, the key of that level is the root for the rest:
\* the descent goes on from i = cur_pos + 1.
EvalPuncTakeKey ==
    /\ pc = "EvalPunc" /\ x # bitvec /\ i <= lgn
    /\ Bit(x, i) # Bit(bitvec, i)
    /\ node_key' = keys[i]
    /\ pc' = "EvalPuncDown" /\ i' = i + 1
    /\ UNCHANGED <<args, punc_number, keys, bitvec, punc_res, eval_res, prev_nodes, cur_nodes>>

EvalPuncDown ==
    /\ pc = "EvalPuncDown" /\ i <= lgn
    /\ node_key' = Child(node_key, Bit(x, i))
    /\ i' = i + 1
    /\ UNCHANGED <<args, pc, punc_number, keys, bitvec, punc_res, eval_res, prev_nodes, cur_nodes>>

EvalPuncReturn ==
    /\ pc = "EvalPuncDown" /\ i > lgn
    /\ EvalPuncReturns(node_key)
-----------------------------------------------------------------------------
(* Eval(key, x, lgn, range) *)

EvalDown ==
    /\ pc = "Eval" /\ i <= lgn
    /\ node_key' = Child(node_key, Bit(x, i))
    /\ i' = i + 1
    /\ UNCHANGED <<args, pc, punc_number, keys, bitvec, punc_res, eval_res, prev_nodes, cur_nodes>>

EvalReturn ==
    /\ pc = "Eval" /\ i > lgn
    /\ eval_res' = node_key
    /\ pc' = "BreadthSpine" /\ i' = 0 /\ node_key' = Root
    /\ UNCHANGED <<args, punc_number, keys, bitvec, punc_res, prev_nodes, cur_nodes>>
-----------------------------------------------------------------------------
(* BreadthEval(rootkey, 0, 1 << (lgn/2), lgn, range) *)

subheight == lgn \div 2

BreadthSpine ==
    /\ pc = "BreadthSpine" /\ i < subheight
    /\ node_key' = PRG(node_key).left
    /\ i' = i + 1
    /\ UNCHANGED <<args, pc, punc_number, keys, bitvec, punc_res, eval_res, prev_nodes, cur_nodes>>

BreadthStart ==
    /\ pc = "BreadthSpine" /\ i = subheight
    /\ prev_nodes' = <<node_key>> /\ cur_nodes' = <<>>
    /\ pc' = "BreadthLevel"
    /\ UNCHANGED <<args, i, node_key, punc_number, keys, bitvec, punc_res, eval_res>>

\* Otherwise BreadthEval throws "vec size error".
LevelIsComplete == Len(prev_nodes) = Pow[i - subheight]

\* The next label b of the level gives two of the level below.
BreadthExpand ==
    LET b == Len(cur_nodes) \div 2 + 1 IN
    /\ pc = "BreadthLevel" /\ i < lgn /\ LevelIsComplete
    /\ b <= Pow[i - subheight]
    /\ cur_nodes' = cur_nodes \o <<PRG(prev_nodes[b]).left, PRG(prev_nodes[b]).right>>
    /\ UNCHANGED <<args, pc, i, node_key, punc_number, keys, bitvec, punc_res, eval_res, prev_nodes>>

\* (mutant) The labels of the level above are kept as well.
BreadthNextLevelKeepsOld ==
    /\ pc = "BreadthLevel" /\ i < lgn
    /\ Len(cur_nodes) = 2 * Pow[i - subheight]
    /\ prev_nodes' = cur_nodes \o prev_nodes /\ cur_nodes' = <<>>
    /\ i' = i + 1
    /\ UNCHANGED <<args, pc, node_key, punc_number, keys, bitvec, punc_res, eval_res>>

BreadthNextLevel ==
    /\ pc = "BreadthLevel" /\ i < lgn
    /\ Len(cur_nodes) = 2 * Pow[i - subheight]
    /\ prev_nodes' = cur_nodes /\ cur_nodes' = <<>>
    /\ i' = i + 1
    /\ UNCHANGED <<args, pc, node_key, punc_number, keys, bitvec, punc_res, eval_res>>

BreadthReturn ==
    /\ pc = "BreadthLevel" /\ i = lgn
    /\ pc' = "done"
    /\ UNCHANGED <<args, i, node_key, punc_number, keys, bitvec, punc_res, eval_res, prev_nodes, cur_nodes>>
-----------------------------------------------------------------------------
Next ==
    \/ PuncRight \/ PuncLeft \/ PuncReturn
    \/ EvalPuncPunctured \/ EvalPuncSameBit \/ EvalPuncTakeKey \/ EvalPuncDown \/ EvalPuncReturn
    \/ EvalDown \/ EvalReturn
    \/ BreadthSpine \/ BreadthStart \/ BreadthExpand \/ BreadthNextLevel
    \/ BreadthReturn

\* The loops run on: nothing waits for anything.
Spec == Init /\ [][Next]_vars /\ WF_vars(Next)
-----------------------------------------------------------------------------
(* Properties *)

Label == Seq({0, 1})

\* Every variable has its type, and there is one punctured key per level.
TypeOK ==
    /\ lgn \in 1 .. MaxLgn
    /\ x \in 0 .. Pow[lgn] - 1 /\ punc_x \in 0 .. Pow[lgn] - 1
    /\ pc \in {"Punc", "EvalPunc", "EvalPuncDown", "Eval", "BreadthSpine", "BreadthLevel",
               "done"}
    /\ i \in 0 .. lgn + 1
    /\ node_key \in Label
    /\ punc_number \in Nat /\ bitvec \in Nat
    /\ keys \in Seq(Label) /\ Len(keys) = IF pc = "Punc" THEN i - 1 ELSE lgn
    /\ punc_res \in Label \cup {NotYet, Punctured} /\ eval_res \in Label \cup {NotYet}
    /\ prev_nodes \in Seq(Label) /\ cur_nodes \in Seq(Label)

(***************************************************************************)
(* The server's evaluation of the punctured key agrees with the client's   *)
(* evaluation of the whole key everywhere but at the punctured point, where*)
(* it says so: two different loops over the levels of two trees.           *)
(***************************************************************************)
PuncturedAgrees ==
    eval_res # NotYet => punc_res = IF x = punc_x THEN Punctured ELSE eval_res

(***************************************************************************)
(* Evaluating all of the leftmost leaves at once, for the hints of the     *)
(* offline phase, gives at position x what Eval gives at x, for heights    *)
(* even and odd; the check of the size of a level never throws.            *)
(***************************************************************************)
BreadthAgrees ==
    /\ pc = "BreadthLevel" /\ i < lgn => LevelIsComplete
    /\ pc = "done" =>
         /\ Pow[subheight] <= Len(prev_nodes)
         /\ x < Pow[subheight] => prev_nodes[x + 1] = eval_res

(***************************************************************************)
(* The server cannot have evaluated the punctured point by accident: no    *)
(* key that it is given lies on the path to that point.                    *)
(***************************************************************************)
KeysAvoidThePoint ==
    \A n \in 1 .. Len(keys) :
        \E l \in 1 .. Len(keys[n]) : keys[n][l] # Bit(punc_x, l)

(***************************************************************************)
(* The four loops end without a throw, for every pair of points: on every  *)
(* level one of the two branches of Punc is taken, and a point that is not *)
(* the punctured one differs from it in some bit.                          *)
(***************************************************************************)
Returns == <>(pc = "done")
=============================================================================
