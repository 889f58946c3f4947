--------------------------------- MODULE Dpf ---------------------------------
(***************************************************************************)
(* The distributed point function of DPF-PIR (baselines/dpf-pir/dpf.cpp):  *)
(* Gen splits the point alpha into two keys, one level of the tree at a    *)
(* time; two servers evaluate their keys on their own, at one point (Eval) *)
(* or everywhere (EvalFull, and EvalFull8 for eight subtrees at once).     *)
(*                                                                         *)
(* A block is the set of its bits that are one, and exclusive or is the    *)
(* symmetric difference.  The two AES based generators and Convert are     *)
(* parameters.  An index is the turns that its high bits take through the  *)
(* tree and the offset that its low bits give in the packed leaf.          *)
(***************************************************************************)
EXTENDS Integers, Sequences, Functions

CONSTANTS LogN,      \* logn
          Pack,      \* 7: the levels that one block of output replaces
          SeedBits,  \* the bits of a seed but the one that getT reads
          Prg,       \* Prg[d][s]: clr and getT of getL(s), getR(s)
          Convert,   \* Convert[s]: ConvertBlock(s)
          Draws,     \* the two seeds that the PRNG may give
          Fns        \* the evaluations that the servers run

Side    == {"L", "R"}
Party   == {0, 1}
Seed    == SUBSET SeedBits
Node    == [s : Seed, t : BOOLEAN]
Offsets == 0 .. 2^Pack - 1
Block   == SUBSET Offsets

ASSUME DpfAssumption ==
    /\ LogN \in Nat /\ Pack \in Nat
    /\ Prg \in [Side -> [Seed -> Node]]
    /\ Convert \in [Seed -> Block]
    /\ Draws \subseteq [Party -> Seed]
    /\ Fns \subseteq {"Eval", "EvalFull", "EvalFull8"}

\* stop: the levels above the packed ones.
Stop  == IF LogN >= Pack THEN LogN - Pack ELSE 0
Index == [path : [1 .. Stop -> Side],
          off  : {o \in Offsets : LogN < Pack => o < 2^LogN}]

\* Arithmetic that the provers do not know: what 2^n is.
ASSUME PowersDouble ==
    /\ 2^0 = 1
    /\ \A n \in 0 .. Stop : 2^n \in Nat /\ 2^(n + 1) = 2 * 2^n

VARIABLES
    alpha,   \* the point
    pc,      \* "gen" until Gen returns
    root,    \* the seed and bit that each key starts with
    cw,      \* the correction words that both keys carry
    last,    \* the final one
    trail,   \* trail[p][i+1]: the node of p that Gen computed after i levels
    (* one evaluation by each server *)
    fn,      \* what it runs
    arg,     \* the x of Eval
    here,    \* where Eval stands
    stack,   \* the calls of EvalFullRecursive not made yet, the next one first
    data,    \* the leaves written
    ptr,     \* data_ptrs, in leaves
    ret,     \* what Eval returned
    seen     \* history: the places that the evaluation has computed

genvars == <<alpha, pc, root, cw, last, trail>>
evars   == <<fn, arg, here, stack, data, ptr, ret, seen>>
vars    == <<genvars, evars>>

a ## b == (a \ b) \cup (b \ a)

Place(at, node) == [at |-> at, node |-> node]

Init ==
    /\ alpha \in Index
    /\ \E s \in Draws, t0 \in BOOLEAN :
           root = [p \in Party |-> [s |-> s[p], t |-> IF p = 0 THEN t0 ELSE ~t0]]
    /\ pc = "gen" /\ cw = <<>> /\ last = {}
    /\ trail = [p \in Party |-> <<root[p]>>]
    /\ fn = [p \in Party |-> "none"]
    /\ arg = [p \in Party |-> alpha]
    /\ here = [p \in Party |-> Place(<<>>, root[p])]
    /\ stack = [p \in Party |-> <<>>]
    /\ data = [p \in Party |-> <<>>]
    /\ ptr = [p \in Party |-> <<>>]
    /\ ret = [p \in Party |-> FALSE]
    /\ seen = [p \in Party |-> {}]

-----------------------------------------------------------------------------
(* Both sides of the expansion, and what a key does with it                 *)

\* (mutant) The bit is not corrected.
DownKeepsBit(n, c, d) ==
    IF n.t
    THEN [s |-> Prg[d][n.s].s ## c.s, t |-> Prg[d][n.s].t]
    ELSE Prg[d][n.s]

\* The child of n on side d, corrected by the word c when n's bit is set.
Down(n, c, d) ==
    IF n.t
    THEN [s |-> Prg[d][n.s].s ## c.s, t |-> Prg[d][n.s].t # c.t[d]]
    ELSE Prg[d][n.s]

\* The correction word: off the path both keys fall together, on it the bits differ.
Word(n0, n1, keep) ==
    LET lose == IF keep = "L" THEN "R" ELSE "L"
    IN  [s |-> Prg[lose][n0.s].s ## Prg[lose][n1.s].s,
         t |-> [d \in Side |-> (Prg[d][n0.s].t # Prg[d][n1.s].t) # (d = keep)]]

GenLevel ==
    /\ pc = "gen" /\ Len(cw) < Stop
    /\ LET i    == Len(cw)
           keep == alpha.path[i + 1]
           word == Word(trail[0][i + 1], trail[1][i + 1], keep)
       IN  /\ cw' = Append(cw, word)
           /\ trail' = [p \in Party |->
                            Append(trail[p], Down(trail[p][i + 1], word, keep))]
    /\ UNCHANGED <<alpha, pc, root, last, evars>>

\* (mutant) The final word forgets the second party's leaf.
GenReturnOneSided ==
    /\ pc = "gen" /\ Len(cw) = Stop
    /\ last' = {alpha.off} ## Convert[trail[0][Stop + 1].s]
    /\ pc' = "generated"
    /\ UNCHANGED <<alpha, root, cw, trail, evars>>

GenReturn ==
    /\ pc = "gen" /\ Len(cw) = Stop
    /\ last' = {alpha.off} ## (Convert[trail[0][Stop + 1].s]
                                ## Convert[trail[1][Stop + 1].s])
    /\ pc' = "generated"
    /\ UNCHANGED <<alpha, root, cw, trail, evars>>

\* The packed outputs below a node at the last level.
Leaf(n) == IF n.t THEN last ## Convert[n.s] ELSE Convert[n.s]

Child(pl, d) == Place(Append(pl.at, d), Down(pl.node, cw[Len(pl.at) + 1], d))

-----------------------------------------------------------------------------
(* Eval                                                                     *)

EvalCall(p) ==
    /\ pc = "generated" /\ fn[p] = "none"
    /\ \E x \in Index : arg' = [arg EXCEPT ![p] = x]
    /\ "Eval" \in Fns /\ fn' = [fn EXCEPT ![p] = "Eval"]
    /\ here' = [here EXCEPT ![p] = Place(<<>>, root[p])]
    /\ seen' = [seen EXCEPT ![p] = {Place(<<>>, root[p])}]
    /\ UNCHANGED <<genvars, stack, data, ptr, ret>>

EvalLevel(p) ==
    /\ fn[p] = "Eval" /\ Len(here[p].at) < Stop
    /\ LET next == Child(here[p], arg[p].path[Len(here[p].at) + 1])
       IN  /\ here' = [here EXCEPT ![p] = next]
           /\ seen' = [seen EXCEPT ![p] = @ \cup {next}]
    /\ UNCHANGED <<genvars, fn, arg, stack, data, ptr, ret>>

\* (mutant) The final word is applied without looking at the bit.
EvalReturnUncorrected(p) ==
    /\ fn[p] = "Eval" /\ Len(here[p].at) = Stop
    /\ ret' = [ret EXCEPT ![p] = arg[p].off \in Convert[here[p].node.s]]
    /\ fn' = [fn EXCEPT ![p] = "Eval returned"]
    /\ UNCHANGED <<genvars, arg, here, stack, data, ptr, seen>>

EvalReturn(p) ==
    /\ fn[p] = "Eval" /\ Len(here[p].at) = Stop
    /\ ret' = [ret EXCEPT ![p] = arg[p].off \in Leaf(here[p].node)]
    /\ fn' = [fn EXCEPT ![p] = "Eval returned"]
    /\ UNCHANGED <<genvars, arg, here, stack, data, ptr, seen>>

-----------------------------------------------------------------------------
(* EvalFull and EvalFull8: a call of the recursive function is a sequence   *)
(* of one or of eight places on the same level                              *)

Children(call, d) == [i \in DOMAIN call |-> Child(call[i], d)]

EvalFullCall(p) ==
    /\ pc = "generated" /\ fn[p] = "none"
    /\ "EvalFull" \in Fns /\ fn' = [fn EXCEPT ![p] = "EvalFull"]
    /\ stack' = [stack EXCEPT ![p] = << <<Place(<<>>, root[p])>> >>]
    /\ seen' = [seen EXCEPT ![p] = {Place(<<>>, root[p])}]
    /\ UNCHANGED <<genvars, arg, here, data, ptr, ret>>

\* Expanding the places of one call, and the two calls that it makes.
Descend(p) ==
    LET call == Head(stack[p])
        L == Children(call, "L")
        R == Children(call, "R")
    IN  /\ Len(call[1].at) < Stop
        /\ stack' = [stack EXCEPT ![p] = <<L, R>> \o Tail(@)]
        /\ seen' = [seen EXCEPT ![p] = @ \cup Range(L) \cup Range(R)]

EvalFullDescend(p) ==
    /\ fn[p] = "EvalFull" /\ stack[p] # <<>>
    /\ Descend(p)
    /\ UNCHANGED <<genvars, fn, arg, here, data, ptr, ret>>

EvalFullLeaf(p) ==
    /\ fn[p] = "EvalFull" /\ stack[p] # <<>>
    /\ LET pl == Head(stack[p])[1]
       IN  /\ Len(pl.at) = Stop
           /\ data' = [data EXCEPT ![p] = Append(@, Leaf(pl.node))]
    /\ stack' = [stack EXCEPT ![p] = Tail(@)]
    /\ UNCHANGED <<genvars, fn, arg, here, ptr, ret, seen>>

EvalFullReturn(p) ==
    /\ fn[p] = "EvalFull" /\ stack[p] = <<>>
    /\ fn' = [fn EXCEPT ![p] = "EvalFull returned"]
    /\ UNCHANGED <<genvars, arg, here, stack, data, ptr, ret, seen>>

\* The order of the eight subtrees in s_array and t_array.
Top == << <<"L", "L", "L">>, <<"L", "L", "R">>, <<"L", "R", "L">>, <<"L", "R", "R">>,
          <<"R", "L", "L">>, <<"R", "L", "R">>, <<"R", "R", "L">>, <<"R", "R", "R">> >>

\* (mutant) The eighths of the result are taken one leaf too long.
FirstLeafOverlong(i) == (i - 1) * (2^(Stop - 3) + 1)

\* Where the leaves of the i-th subtree begin in the result.
FirstLeaf(i) == (i - 1) * 2^(Stop - 3)

\* assert(stop >= 3); the first three levels are expanded in line.
EvalFull8Call(p) ==
    /\ pc = "generated" /\ fn[p] = "none" /\ Stop >= 3
    /\ "EvalFull8" \in Fns /\ fn' = [fn EXCEPT ![p] = "EvalFull8"]
    /\ data' = [data EXCEPT ![p] = [j \in 1 .. 2^Stop |-> {}]]
    /\ ptr' = [ptr EXCEPT ![p] = [i \in 1 .. 8 |-> FirstLeaf(i)]]
    /\ LET one(q)   == Child(Place(<<>>, root[p]), q[1])
           two(q)   == Child(one(q), q[2])
           three(q) == Child(two(q), q[3])
       IN  /\ stack' = [stack EXCEPT ![p] = << [i \in 1 .. 8 |-> three(Top[i])] >>]
           /\ seen' = [seen EXCEPT ![p] = {Place(<<>>, root[p])} \cup
                  UNION {{one(Top[i]), two(Top[i]), three(Top[i])} : i \in 1 .. 8}]
    /\ UNCHANGED <<genvars, arg, here, ret>>

EvalFull8Descend(p) ==
    /\ fn[p] = "EvalFull8" /\ stack[p] # <<>>
    /\ Descend(p)
    /\ UNCHANGED <<genvars, fn, arg, here, data, ptr, ret>>

\* Eight leaves, each written where its pointer stands.
EvalFull8Leaf(p) ==
    /\ fn[p] = "EvalFull8" /\ stack[p] # <<>>
    /\ LET call == Head(stack[p])
       IN  /\ Len(call[1].at) = Stop
           /\ data' = [data EXCEPT ![p] = [j \in DOMAIN @ |->
                  IF \E i \in 1 .. 8 : ptr[p][i] + 1 = j
                  THEN Leaf(call[CHOOSE i \in 1 .. 8 : ptr[p][i] + 1 = j].node)
                  ELSE @[j]]]
    /\ ptr' = [ptr EXCEPT ![p] = [i \in 1 .. 8 |-> @[i] + 1]]
    /\ stack' = [stack EXCEPT ![p] = Tail(@)]
    /\ UNCHANGED <<genvars, fn, arg, here, ret, seen>>

EvalFull8Return(p) ==
    /\ fn[p] = "EvalFull8" /\ stack[p] = <<>>
    /\ fn' = [fn EXCEPT ![p] = "EvalFull8 returned"]
    /\ UNCHANGED <<genvars, arg, here, stack, data, ptr, ret, seen>>

Next == \/ GenLevel \/ GenReturn
        \/ \E p \in Party :
              \/ EvalCall(p) \/ EvalLevel(p) \/ EvalReturn(p)
              \/ EvalFullCall(p) \/ EvalFullDescend(p)
              \/ EvalFullLeaf(p) \/ EvalFullReturn(p)
              \/ EvalFull8Call(p) \/ EvalFull8Descend(p)
              \/ EvalFull8Leaf(p) \/ EvalFull8Return(p)

Spec == Init /\ [][Next]_vars

-----------------------------------------------------------------------------
(* Properties                                                               *)

Places == {e \in [at : Seq(Side), node : Node] : Len(e.at) <= Stop}

\* Nodes are what the generators give, and no evaluation leaves the tree.
TypeOK ==
    /\ alpha \in Index /\ pc \in {"gen", "generated"}
    /\ root \in [Party -> Node]
    /\ cw \in Seq([s : Seed, t : [Side -> BOOLEAN]]) /\ Len(cw) <= Stop
    /\ last \in Block
    /\ \A p \in Party : trail[p] \in Seq(Node) /\ Len(trail[p]) = Len(cw) + 1
    /\ arg \in [Party -> Index] /\ ret \in [Party -> BOOLEAN]
    /\ here \in [Party -> Places]
    /\ \A p \in Party : seen[p] \subseteq Places

OnPath(at) == \A i \in 1 .. Len(at) : at[i] = alpha.path[i]

\* Outside the path to the point the two servers are in the same state, seed and
\* bit, at every node that both have computed; on it they are where Gen was, and
\* their bits differ (dpf.cpp:102-139 against 159-186).
ServersFallTogether ==
    \A e \in seen[0], f \in seen[1] : e.at = f.at =>
        IF OnPath(e.at)
        THEN /\ e.node = trail[0][Len(e.at) + 1] /\ f.node = trail[1][Len(f.at) + 1]
             /\ e.node.t # f.node.t
        ELSE e.node = f.node

\* The packed outputs that two servers compute below any node of the last level
\* differ at the point and nowhere else (dpf.cpp:142-144 against 188-199).
LeavesDifferAtThePoint ==
    \A e \in seen[0], f \in seen[1] :
        (e.at = f.at /\ Len(e.at) = Stop) =>
            Leaf(e.node) ## Leaf(f.node) =
                (IF e.at = alpha.path THEN {alpha.off} ELSE {})

\* The number of the leaf at the end of a path: its turns, read as binary digits.
LeafNo(path) ==
    LET n[k \in 0 .. Len(path)] ==
            IF k = 0 THEN 0 ELSE 2 * n[k - 1] + (IF path[k] = "R" THEN 1 ELSE 0)
    IN  n[Len(path)]

Returned(p) == fn[p] \in {"Eval returned", "EvalFull returned", "EvalFull8 returned"}

Asked(p) == IF fn[p] = "Eval returned" THEN {arg[p]} ELSE Index

Answer(p, x) ==
    IF fn[p] = "Eval returned" THEN ret[p] ELSE x.off \in data[p][LeafNo(x.path) + 1]

\* Whichever of the three evaluations each server ran, what they returned differs
\* at the point and nowhere else: a server may read bit x of EvalFull's or of
\* EvalFull8's bytes where the other calls Eval (dpf.cpp:152, 241, 290).
ServersShareThePoint ==
    (Returned(0) /\ Returned(1)) =>
        \A x \in Asked(0) \cap Asked(1) : (Answer(0, x) # Answer(1, x)) <=> x = alpha

\* Each of the eight pointers stays in its eighth of the result and ends where the
\* next begins, and EvalFull appends a leaf for every path: no leaf is lost or
\* written over another (dpf.cpp:209, 264-265, 293-297).
EveryLeafInItsPlace ==
    \A p \in Party :
        /\ fn[p] \in {"EvalFull8", "EvalFull8 returned"} =>
               \A i \in 1 .. 8 :
                   /\ 8 * ptr[p][i] \in (i - 1) * 2^Stop .. i * 2^Stop
                   /\ fn[p] = "EvalFull8 returned" => 8 * ptr[p][i] = i * 2^Stop
        /\ fn[p] \in {"EvalFull returned", "EvalFull8 returned"} =>
               Len(data[p]) = 2^Stop
=============================================================================
