------------------------------ MODULE DpfProofs ------------------------------
(***************************************************************************)
(* For every depth, every pair of generators and every seed that the two   *)
(* keys start from: at every node that both servers compute, they are in   *)
(* the same state off the path to the point and in opposite states on it,  *)
(* and the leaves they compute differ at the point and nowhere else.       *)
(*                                                                         *)
(* One lemma says what a correction word does with the two states that Gen *)
(* made it from; another that adding children of known places keeps two    *)
(* evaluations together.  An evaluation is known by the set of places that *)
(* it has computed, each the root or the child of another.                 *)
(*                                                                         *)
(* The full evaluations are known by what is still to be done: from every  *)
(* pointer on, the paths on the stack are consecutive intervals of leaves  *)
(* up to the end of the pointer's part, and each leaf already written is   *)
(* that of a node that was computed.  Hence every leaf is in its place     *)
(* when the stack is empty, and what two servers return is shared whatever *)
(* evaluation each of them ran.                                            *)
(***************************************************************************)
EXTENDS Dpf, WellFoundedInduction, TLAPS

Words == [s : Seed, t : [Side -> BOOLEAN]]

-----------------------------------------------------------------------------
(* Seeds and correction words                                               *)

\* Exclusive or with the same set twice gives back what was there.
LEMMA XorTwice ==
    ASSUME NEW a, NEW b
    PROVE  /\ a ## (a ## b) = b
           /\ b ## (a ## b) = a
BY DEF ##

LEMMA XorType ==
    ASSUME NEW S, NEW a \in SUBSET S, NEW b \in SUBSET S
    PROVE  a ## b \in SUBSET S
BY DEF ##

\* What the generators give: a seed and a bit.
LEMMA PrgType ==
    ASSUME NEW d \in Side, NEW n \in Node
    PROVE  /\ Prg[d][n.s] \in Node
           /\ Prg[d][n.s].s \in Seed /\ Prg[d][n.s].t \in BOOLEAN
           /\ Prg[d][n.s] = [s |-> Prg[d][n.s].s, t |-> Prg[d][n.s].t]
<1>1. Prg[d][n.s] \in Node
  BY DpfAssumption DEF DpfAssumption, Node
<1> QED BY <1>1 DEF Node

LEMMA WordType ==
    ASSUME NEW n0 \in Node, NEW n1 \in Node, NEW keep \in Side
    PROVE  Word(n0, n1, keep) \in Words
<1> DEFINE lose == IF keep = "L" THEN "R" ELSE "L"
<1>1. lose \in Side
  BY DEF Side
<1>2. Prg[lose][n0.s].s \in Seed /\ Prg[lose][n1.s].s \in Seed
  BY <1>1, PrgType
<1>3. Prg[lose][n0.s].s ## Prg[lose][n1.s].s \in Seed
  BY <1>2, XorType DEF Seed
<1> QED BY <1>3 DEF Word, Words

LEMMA DownType ==
    ASSUME NEW n \in Node, NEW c \in Words, NEW d \in Side
    PROVE  Down(n, c, d) \in Node
<1>1. Prg[d][n.s].s \in Seed /\ c.s \in Seed /\ Prg[d][n.s] \in Node
  BY PrgType DEF Words
<1>2. Prg[d][n.s].s ## c.s \in Seed
  BY <1>1, XorType DEF Seed
<1>3. (Prg[d][n.s].t # c.t[d]) \in BOOLEAN
  OBVIOUS
<1> QED BY <1>1, <1>2, <1>3 DEF Down, Node

\* On the side that is lost, the state that corrects becomes the other's.
LEMMA LostSide ==
    ASSUME NEW n0 \in Node, NEW n1 \in Node, NEW keep \in Side, NEW d \in Side,
           d # keep, n0.t # n1.t
    PROVE  Down(n0, Word(n0, n1, keep), d) = Down(n1, Word(n0, n1, keep), d)
<1> DEFINE c == Word(n0, n1, keep)
           p0 == Prg[d][n0.s]
           p1 == Prg[d][n1.s]
<1>1. d = IF keep = "L" THEN "R" ELSE "L"
  BY DEF Side
<1>2. c.s = p0.s ## p1.s /\ c.t[d] = ((p0.t # p1.t) # (d = keep))
  BY <1>1 DEF Word
<1>3. c.t[d] = (p0.t # p1.t)
  BY <1>2, PrgType
<1>4. p0 = [s |-> p0.s, t |-> p0.t] /\ p1 = [s |-> p1.s, t |-> p1.t]
      /\ p0.t \in BOOLEAN /\ p1.t \in BOOLEAN
  BY PrgType
<1>5. p0.s ## c.s = p1.s /\ p1.s ## c.s = p0.s
  BY <1>2, XorTwice
<1>6. (p0.t # c.t[d]) = p1.t /\ (p1.t # c.t[d]) = p0.t
  BY <1>3, <1>4
<1>7. n0.t \in BOOLEAN /\ n1.t \in BOOLEAN
  BY DEF Node
<1>8. CASE n0.t /\ ~n1.t
  <2>1. Down(n0, c, d) = [s |-> p0.s ## c.s, t |-> p0.t # c.t[d]]
    BY <1>8 DEF Down
  <2>2. Down(n1, c, d) = p1
    BY <1>8 DEF Down
  <2> QED BY <2>1, <2>2, <1>4, <1>5, <1>6
<1>9. CASE ~n0.t /\ n1.t
  <2>1. Down(n1, c, d) = [s |-> p1.s ## c.s, t |-> p1.t # c.t[d]]
    BY <1>9 DEF Down
  <2>2. Down(n0, c, d) = p0
    BY <1>9 DEF Down
  <2> QED BY <2>1, <2>2, <1>4, <1>5, <1>6
<1> QED BY <1>7, <1>8, <1>9

\* On the side that is kept, the bits differ again.
LEMMA KeptSide ==
    ASSUME NEW n0 \in Node, NEW n1 \in Node, NEW keep \in Side, n0.t # n1.t
    PROVE  Down(n0, Word(n0, n1, keep), keep).t # Down(n1, Word(n0, n1, keep), keep).t
<1> DEFINE c == Word(n0, n1, keep)
           p0 == Prg[keep][n0.s]
           p1 == Prg[keep][n1.s]
<1>1. c.t[keep] = ((p0.t # p1.t) # (keep = keep))
  BY DEF Word
<1>2. c.t[keep] = (p0.t = p1.t)
  BY <1>1, PrgType
<1>3. p0.t \in BOOLEAN /\ p1.t \in BOOLEAN /\ n0.t \in BOOLEAN /\ n1.t \in BOOLEAN
  BY PrgType DEF Node
<1>4. CASE n0.t /\ ~n1.t
  <2>1. Down(n0, c, keep).t = (p0.t # c.t[keep]) /\ Down(n1, c, keep).t = p1.t
    BY <1>4 DEF Down
  <2> QED BY <2>1, <1>2, <1>3
<1>5. CASE ~n0.t /\ n1.t
  <2>1. Down(n1, c, keep).t = (p1.t # c.t[keep]) /\ Down(n0, c, keep).t = p0.t
    BY <1>5 DEF Down
  <2> QED BY <2>1, <1>2, <1>3
<1> QED BY <1>3, <1>4, <1>5

-----------------------------------------------------------------------------
(* Gen                                                                      *)

\* What Gen has computed: each word comes from the two states before it, each
\* state from the one before and the word, and the two bits always differ.
GenInv ==
    /\ pc \in {"gen", "generated"}
    /\ alpha \in Index
    /\ root \in [Party -> Node]
    /\ cw \in Seq(Words) /\ Len(cw) <= Stop
    /\ last \in Block
    /\ trail \in [Party -> Seq(Node)]
    /\ \A p \in Party : Len(trail[p]) = Len(cw) + 1 /\ trail[p][1] = root[p]
    /\ \A i \in 1 .. Len(cw) :
           /\ cw[i] = Word(trail[0][i], trail[1][i], alpha.path[i])
           /\ \A p \in Party : trail[p][i + 1] = Down(trail[p][i], cw[i], alpha.path[i])
    /\ \A i \in 1 .. Len(cw) + 1 : trail[0][i].t # trail[1][i].t
    /\ pc = "generated" =>
           /\ Len(cw) = Stop
           /\ last = {alpha.off} ## (Convert[trail[0][Stop + 1].s]
                                    ## Convert[trail[1][Stop + 1].s])

LEMMA StopType == Stop \in Nat
BY DpfAssumption DEF DpfAssumption, Stop

LEMMA ConvertType ==
    ASSUME NEW n \in Node
    PROVE  Convert[n.s] \in Block
BY DpfAssumption DEF DpfAssumption, Node

LEMMA InitGenInv == Init => GenInv
<1> SUFFICES ASSUME Init PROVE GenInv
  OBVIOUS
<1>1. PICK s \in Draws, t0 \in BOOLEAN :
          root = [p \in Party |-> [s |-> s[p], t |-> IF p = 0 THEN t0 ELSE ~t0]]
  BY DEF Init
<1>2. s \in [Party -> Seed]
  BY DpfAssumption DEF DpfAssumption
<1>3. root \in [Party -> Node] /\ root[0].t # root[1].t
  BY <1>1, <1>2 DEF Node, Party
<1>4. trail = [p \in Party |-> <<root[p]>>] /\ cw = <<>> /\ last = {} /\ pc = "gen"
      /\ alpha \in Index
  BY DEF Init
<1>5. trail \in [Party -> Seq(Node)]
  BY <1>3, <1>4
<1>6. \A p \in Party : Len(trail[p]) = 1 /\ trail[p][1] = root[p]
  BY <1>3, <1>4
<1>7. 0 \in Party /\ 1 \in Party
  BY DEF Party
<1> QED BY <1>3, <1>4, <1>5, <1>6, <1>7, StopType DEF GenInv, Block

LEMMA GenLevelGenInv ==
    ASSUME GenInv, GenLevel
    PROVE  GenInv'
<1> DEFINE i    == Len(cw)
           keep == alpha.path[i + 1]
           word == Word(trail[0][i + 1], trail[1][i + 1], keep)
<1>1. /\ pc = "gen" /\ i < Stop
      /\ cw' = Append(cw, word)
      /\ trail' = [p \in Party |-> Append(trail[p], Down(trail[p][i + 1], word, keep))]
      /\ alpha' = alpha /\ pc' = pc /\ root' = root /\ last' = last
  BY DEF GenLevel
<1>2. i \in Nat /\ i + 1 \in 1 .. Stop
  BY <1>1, StopType DEF GenInv
<1>3. keep \in Side
  BY <1>2 DEF GenInv, Index
<1>4. 0 \in Party /\ 1 \in Party
  BY DEF Party
<1>5. \A p \in Party : trail[p] \in Seq(Node) /\ Len(trail[p]) = i + 1 /\ trail[p][i + 1] \in Node
  <2> SUFFICES ASSUME NEW p \in Party
               PROVE  trail[p] \in Seq(Node) /\ Len(trail[p]) = i + 1 /\ trail[p][i + 1] \in Node
    OBVIOUS
  <2>1. trail[p] \in Seq(Node) /\ Len(trail[p]) = i + 1
    BY DEF GenInv
  <2> QED BY <2>1, <1>2
<1>6. word \in Words
  BY <1>3, <1>4, <1>5, WordType
<1>7. \A p \in Party : Down(trail[p][i + 1], word, keep) \in Node
  BY <1>3, <1>5, <1>6, DownType
<1>8. cw' \in Seq(Words) /\ Len(cw') = i + 1 /\ cw'[i + 1] = word
      /\ \A j \in 1 .. i : cw'[j] = cw[j]
  BY <1>1, <1>2, <1>6 DEF GenInv
<1>9. trail' \in [Party -> Seq(Node)]
  BY <1>1, <1>5, <1>7
<1>10. ASSUME NEW p \in Party
       PROVE  /\ Len(trail'[p]) = i + 2
              /\ \A j \in 1 .. i + 1 : trail'[p][j] = trail[p][j]
              /\ trail'[p][i + 2] = Down(trail[p][i + 1], word, keep)
  <2>1. trail'[p] = Append(trail[p], Down(trail[p][i + 1], word, keep))
    BY <1>1
  <2> HIDE DEF word, keep
  <2> QED BY <2>1, <1>5, <1>2
<1>11. trail[0][i + 1].t # trail[1][i + 1].t
  BY <1>2 DEF GenInv
<1>12. trail'[0][i + 2].t # trail'[1][i + 2].t
  BY <1>3, <1>4, <1>5, <1>10, <1>11, KeptSide
<1>13. \A p \in Party : Len(trail'[p]) = Len(cw') + 1 /\ trail'[p][1] = root'[p]
  BY <1>1, <1>2, <1>8, <1>10 DEF GenInv
<1>14. ASSUME NEW j \in 1 .. Len(cw')
       PROVE  /\ cw'[j] = Word(trail'[0][j], trail'[1][j], alpha'.path[j])
              /\ \A p \in Party : trail'[p][j + 1] = Down(trail'[p][j], cw'[j], alpha'.path[j])
  <2> HIDE DEF word, keep
  <2>1. CASE j = i + 1
    <3>1. /\ cw'[j] = word /\ alpha'.path[j] = keep
          /\ \A p \in Party : trail'[p][j] = trail[p][j] /\ trail'[p][j + 1] = Down(trail[p][i + 1], word, keep)
      BY <2>1, <1>1, <1>2, <1>8, <1>10 DEF keep
    <3> QED BY <3>1, <2>1, <1>4 DEF word
  <2>2. CASE j # i + 1
    <3>1. j \in 1 .. i /\ j + 1 \in 1 .. i + 1 /\ j \in 1 .. i + 1
      BY <2>2, <1>2, <1>8
    <3>2. /\ cw'[j] = cw[j] /\ alpha' = alpha
          /\ \A p \in Party : trail'[p][j] = trail[p][j] /\ trail'[p][j + 1] = trail[p][j + 1]
      BY <3>1, <1>1, <1>8, <1>10
    <3> QED BY <3>1, <3>2, <1>4 DEF GenInv
  <2> QED BY <2>1, <2>2
<1>15. ASSUME NEW j \in 1 .. Len(cw') + 1
       PROVE  trail'[0][j].t # trail'[1][j].t
  <2>1. CASE j = i + 2
    BY <2>1, <1>12
  <2>2. CASE j # i + 2
    <3>1. j \in 1 .. i + 1
      BY <2>2, <1>2, <1>8
    <3> QED BY <3>1, <1>4, <1>10 DEF GenInv
  <2> QED BY <2>1, <2>2
<1>16. Len(cw') <= Stop
  BY <1>2, <1>8
<1>17. pc' = "gen"
  BY <1>1
<1> QED BY <1>1, <1>8, <1>9, <1>13, <1>14, <1>15, <1>16, <1>17, Zenon DEF GenInv

LEMMA GenReturnGenInv ==
    ASSUME GenInv, GenReturn
    PROVE  GenInv'
<1>1. /\ Len(cw) = Stop /\ pc' = "generated"
      /\ last' = {alpha.off} ## (Convert[trail[0][Stop + 1].s] ## Convert[trail[1][Stop + 1].s])
      /\ alpha' = alpha /\ root' = root /\ cw' = cw /\ trail' = trail
  BY DEF GenReturn
<1>2. \A p \in Party : trail[p][Stop + 1] \in Node
  <2> TAKE p \in Party
  <2>1. trail[p] \in Seq(Node) /\ Len(trail[p]) = Stop + 1
    BY <1>1 DEF GenInv
  <2> QED BY <2>1, StopType
<1>3. \A p \in Party : Convert[trail[p][Stop + 1].s] \in Block
  BY <1>2, ConvertType
<1>4. alpha.off \in Offsets
  BY DpfAssumption DEF GenInv, Index, Offsets, DpfAssumption
<1>5. last' \in Block
  BY <1>1, <1>3, <1>4, XorType DEF Block, Party
<1> QED BY <1>1, <1>5 DEF GenInv

-----------------------------------------------------------------------------
(* The places of an evaluation                                              *)

\* Every place is the root or the child of another.
Chained(p, S) ==
    \A e \in S : \/ e = Place(<<>>, root[p])
                 \/ \E f \in S, d \in Side : Len(f.at) < Stop /\ e = Child(f, d)

\* On the path, the evaluation is where Gen was.
Follow(p, S) == \A e \in S : OnPath(e.at) => e.node = trail[p][Len(e.at) + 1]

\* Off the path, two evaluations are in the same state.
Agree(S, T) == \A e \in S, f \in T : (e.at = f.at /\ ~OnPath(e.at)) => e.node = f.node

\* X holds children of places of S.
ChildrenOf(S, X) ==
    \A x \in X : \E f \in S, d \in Side : Len(f.at) < Stop /\ x = Child(f, d)

Other(p) == IF p = 0 THEN 1 ELSE 0

LEMMA ChildType ==
    ASSUME GenInv, pc = "generated", NEW f \in Places, NEW d \in Side, Len(f.at) < Stop
    PROVE  /\ Child(f, d) \in Places
           /\ Child(f, d).at = Append(f.at, d)
           /\ Child(f, d).node = Down(f.node, cw[Len(f.at) + 1], d)
           /\ Len(Child(f, d).at) = Len(f.at) + 1
           /\ Child(f, d).at[Len(f.at) + 1] = d
           /\ \A i \in 1 .. Len(f.at) : Child(f, d).at[i] = f.at[i]
           /\ Len(f.at) + 1 \in 1 .. Stop
<1>1. f.at \in Seq(Side) /\ f.node \in Node /\ Len(f.at) \in Nat
  BY DEF Places
<1>2. Len(f.at) + 1 \in 1 .. Stop /\ Len(f.at) + 1 \in 1 .. Len(cw)
  BY <1>1, StopType DEF GenInv
<1>3. cw[Len(f.at) + 1] \in Words
  BY <1>2 DEF GenInv
<1>4. Down(f.node, cw[Len(f.at) + 1], d) \in Node
  BY <1>1, <1>3, DownType
<1>5. Append(f.at, d) \in Seq(Side) /\ Len(Append(f.at, d)) = Len(f.at) + 1
      /\ Append(f.at, d)[Len(f.at) + 1] = d
      /\ \A i \in 1 .. Len(f.at) : Append(f.at, d)[i] = f.at[i]
  BY <1>1
<1>6. /\ Child(f, d).at = Append(f.at, d)
      /\ Child(f, d).node = Down(f.node, cw[Len(f.at) + 1], d)
      /\ Child(f, d) = [at |-> Append(f.at, d), node |-> Down(f.node, cw[Len(f.at) + 1], d)]
  BY DEF Child, Place
<1> QED BY <1>2, <1>4, <1>5, <1>6 DEF Places

\* A child is on the path when its parent is and the turn is the point's.
LEMMA ChildOnPath ==
    ASSUME GenInv, pc = "generated", NEW f \in Places, NEW d \in Side, Len(f.at) < Stop
    PROVE  OnPath(Child(f, d).at) <=> (OnPath(f.at) /\ d = alpha.path[Len(f.at) + 1])
<1>1. Len(f.at) \in Nat
  BY DEF Places
<1> QED BY <1>1, ChildType DEF OnPath

\* The words and states at a level, for a place on it.
LEMMA TrailAt ==
    ASSUME GenInv, pc = "generated", NEW i \in 1 .. Stop
    PROVE  /\ cw[i] = Word(trail[0][i], trail[1][i], alpha.path[i])
           /\ \A p \in Party : /\ trail[p][i] \in Node
                                /\ trail[p][i + 1] = Down(trail[p][i], cw[i], alpha.path[i])
           /\ trail[0][i].t # trail[1][i].t
           /\ alpha.path[i] \in Side
<1>1. Len(cw) = Stop
  BY DEF GenInv
<1>2. \A p \in Party : trail[p] \in Seq(Node) /\ Len(trail[p]) = Stop + 1
  BY <1>1 DEF GenInv
<1>3. i \in 1 .. Stop + 1 /\ i \in 1 .. Len(cw) /\ i \in 1 .. Len(cw) + 1
  BY <1>1, StopType
<1>4. \A p \in Party : trail[p][i] \in Node
  BY <1>2, <1>3
<1> QED BY <1>3, <1>4 DEF GenInv, Index

\* Adding children of known places keeps two evaluations together.
LEMMA AddChildren ==
    ASSUME GenInv, pc = "generated", NEW p \in Party,
           NEW S \in SUBSET Places, NEW T \in SUBSET Places,
           Chained(p, S), Chained(Other(p), T), Follow(p, S), Follow(Other(p), T), Agree(S, T),
           NEW X, ChildrenOf(S, X)
    PROVE  /\ S \cup X \in SUBSET Places
           /\ Chained(p, S \cup X) /\ Follow(p, S \cup X) /\ Agree(S \cup X, T)
<1>1. ASSUME NEW x \in X
      PROVE  /\ x \in Places
             /\ OnPath(x.at) => x.node = trail[p][Len(x.at) + 1]
             /\ \A g \in T : (x.at = g.at /\ ~OnPath(x.at)) => x.node = g.node
  <2>1. PICK f \in S, d \in Side : Len(f.at) < Stop /\ x = Child(f, d)
    BY DEF ChildrenOf
  <2>2. f \in Places /\ Len(f.at) \in Nat
    BY DEF Places
  <2> DEFINE i == Len(f.at) + 1
  <2>3. x \in Places /\ x.at = Append(f.at, d) /\ x.node = Down(f.node, cw[i], d)
        /\ Len(x.at) = i /\ x.at[i] = d /\ i \in 1 .. Stop
        /\ \A j \in 1 .. Len(f.at) : x.at[j] = f.at[j]
    BY <2>1, <2>2, ChildType
  <2>4. OnPath(x.at) <=> (OnPath(f.at) /\ d = alpha.path[i])
    BY <2>1, <2>2, ChildOnPath
  <2>5. OnPath(x.at) => x.node = trail[p][Len(x.at) + 1]
    BY <2>3, <2>4, TrailAt DEF Follow
  <2>6. ASSUME NEW g \in T, x.at = g.at, ~OnPath(x.at)
        PROVE  x.node = g.node
    <3>1. g # Place(<<>>, root[Other(p)])
      <4>1. Len(g.at) # 0
        BY <2>2, <2>3, <2>6
      <4> QED BY <4>1 DEF Place
    <3>2. PICK h \in T, b \in Side : Len(h.at) < Stop /\ g = Child(h, b)
      BY <3>1 DEF Chained
    <3>3. h \in Places /\ Len(h.at) \in Nat
      BY DEF Places
    <3>4. g.at = Append(h.at, b) /\ g.node = Down(h.node, cw[Len(h.at) + 1], b)
          /\ Len(g.at) = Len(h.at) + 1 /\ g.at[Len(h.at) + 1] = b
          /\ \A j \in 1 .. Len(h.at) : g.at[j] = h.at[j]
      BY <3>2, <3>3, ChildType
    <3>5. Len(h.at) = Len(f.at) /\ b = d
      BY <2>2, <2>3, <2>6, <3>3, <3>4
    <3>6. h.at = f.at
      <4>1. h.at \in Seq(Side) /\ f.at \in Seq(Side)
        BY <2>2, <3>3 DEF Places
      <4>2. \A j \in 1 .. Len(f.at) : h.at[j] = f.at[j]
        BY <2>3, <2>6, <3>4, <3>5
      <4> QED BY <4>1, <4>2, <3>5
    <3>7. CASE ~OnPath(f.at)
      <4>1. f.node = h.node
        BY <3>6, <3>7 DEF Agree
      <4> QED BY <4>1, <2>3, <3>4, <3>5
    <3>8. CASE OnPath(f.at)
      <4>1. d # alpha.path[i]
        BY <2>4, <2>6, <3>8
      <4>2. f.node = trail[p][i] /\ h.node = trail[Other(p)][i]
        BY <3>5, <3>6, <3>8 DEF Follow
      <4>3. Down(trail[0][i], cw[i], d) = Down(trail[1][i], cw[i], d)
        BY <2>3, <4>1, TrailAt, LostSide DEF Party
      <4>4. (p = 0 /\ Other(p) = 1) \/ (p = 1 /\ Other(p) = 0)
        BY DEF Party, Other
      <4> QED BY <4>2, <4>3, <4>4, <2>3, <3>4, <3>5
    <3> QED BY <3>7, <3>8
  <2> QED BY <2>3, <2>5, <2>6
<1>2. S \cup X \in SUBSET Places
  BY <1>1
<1>3. Chained(p, S \cup X)
  BY DEF Chained, ChildrenOf
<1>4. Follow(p, S \cup X)
  BY <1>1 DEF Follow
<1>5. Agree(S \cup X, T)
  BY <1>1 DEF Agree
<1> QED BY <1>2, <1>3, <1>4, <1>5

\* An evaluation that begins is with any other.
LEMMA BeginWithRoot ==
    ASSUME GenInv, pc = "generated", NEW p \in Party, NEW T \in SUBSET Places
    PROVE  /\ Place(<<>>, root[p]) \in Places
           /\ Chained(p, {Place(<<>>, root[p])}) /\ Follow(p, {Place(<<>>, root[p])})
           /\ Agree({Place(<<>>, root[p])}, T)
<1> DEFINE r == Place(<<>>, root[p])
<1>1. r.at = <<>> /\ r.node = root[p] /\ root[p] \in Node /\ Len(r.at) = 0
  BY DEF Place, GenInv
<1>2. r \in Places
  BY <1>1, StopType DEF Places, Place
<1>3. OnPath(r.at)
  BY <1>1 DEF OnPath
<1>4. r.node = trail[p][Len(r.at) + 1]
  BY <1>1 DEF GenInv
<1>5. Chained(p, {r})
  BY DEF Chained
<1>6. Follow(p, {r})
  BY <1>4 DEF Follow
<1>7. Agree({r}, T)
  BY <1>3 DEF Agree
<1> QED BY <1>2, <1>5, <1>6, <1>7

-----------------------------------------------------------------------------
(* The two servers                                                          *)

\* S may be what p has computed, next to what the other server has.
Fits(p, S) ==
    /\ S \in SUBSET Places
    /\ Chained(p, S) /\ Follow(p, S) /\ Agree(S, seen[Other(p)])

SeenInv ==
    /\ seen \in [Party -> SUBSET Places]
    /\ \A p \in Party : seen[p] # {} => pc = "generated"
    /\ \A p \in Party : Fits(p, seen[p])

\* The calls of EvalFullRecursive: places of one level, all computed.
Calls(S) == {c \in Seq(S) : Len(c) >= 1 /\ \A i \in 1 .. Len(c) : Len(c[i].at) = Len(c[1].at)}

Names == {"none", "Eval", "Eval returned", "EvalFull", "EvalFull returned",
          "EvalFull8", "EvalFull8 returned"}

LeafOf(l, n) == IF n.t THEN l ## Convert[n.s] ELSE Convert[n.s]

\* One server's evaluation: what it runs, where it is, and what it knows.
CallOf(f, a, h, r, st, S, l) ==
    /\ f \in Names /\ a \in Index /\ h \in Places /\ r \in BOOLEAN
    /\ st \in Seq(Seq(Places))
    /\ f \in {"Eval", "Eval returned"} =>
           /\ h \in S
           /\ \A i \in 1 .. Len(h.at) : h.at[i] = a.path[i]
    /\ f = "Eval returned" =>
           /\ Len(h.at) = Stop
           /\ r <=> a.off \in LeafOf(l, h.node)
    /\ f \in {"EvalFull", "EvalFull8"} =>
           \A k \in 1 .. Len(st) : st[k] \in Calls(S)

CallInv ==
    /\ fn \in [Party -> Names] /\ arg \in [Party -> Index] /\ here \in [Party -> Places]
    /\ ret \in [Party -> BOOLEAN] /\ stack \in [Party -> Seq(Seq(Places))]
    /\ \A p \in Party :
          /\ fn[p] # "none" => pc = "generated"
          /\ CallOf(fn[p], arg[p], here[p], ret[p], stack[p], seen[p], last)

LEMMA AgreeBack ==
    ASSUME NEW S, NEW T, Agree(S, T)
    PROVE  Agree(T, S)
BY DEF Agree

LEMMA FitsBegin ==
    ASSUME GenInv, SeenInv, pc = "generated", NEW p \in Party
    PROVE  Fits(p, {Place(<<>>, root[p])})
<1>1. Other(p) \in Party /\ seen[Other(p)] \in SUBSET Places
  BY DEF Other, Party, SeenInv
<1> QED BY <1>1, BeginWithRoot DEF Fits

LEMMA FitsGrow ==
    ASSUME GenInv, SeenInv, pc = "generated", NEW p \in Party,
           NEW S, Fits(p, S), NEW X, ChildrenOf(S, X)
    PROVE  Fits(p, S \cup X)
<1>1. Other(p) \in Party /\ seen[Other(p)] \in SUBSET Places
  BY DEF Other, Party, SeenInv
<1>2. Chained(Other(p), seen[Other(p)]) /\ Follow(Other(p), seen[Other(p)])
  BY <1>1 DEF SeenInv, Fits
<1> QED BY <1>1, <1>2, AddChildren DEF Fits

\* What Fits says does not change while Gen's results do not.
LEMMA FitsStays ==
    ASSUME NEW p \in Party, NEW S, Fits(p, S), UNCHANGED genvars, seen'[Other(p)] = seen[Other(p)]
    PROVE  Fits(p, S)'
BY DEF Fits, Chained, Follow, Agree, OnPath, Child, genvars

\* One server's places become S, the other's stay.
LEMMA SeenBecomes ==
    ASSUME GenInv, SeenInv, pc = "generated", NEW p \in Party, NEW S, Fits(p, S),
           seen' = [seen EXCEPT ![p] = S], UNCHANGED genvars
    PROVE  SeenInv'
<1> DEFINE q == Other(p)
<1>1. q \in Party /\ Other(q) = p /\ p # q /\ \A r \in Party : r = p \/ r = q
  BY DEF Other, Party
<1>2. seen \in [Party -> SUBSET Places] /\ S \in SUBSET Places
  BY DEF SeenInv, Fits
<1>3. seen' \in [Party -> SUBSET Places] /\ seen'[p] = S /\ seen'[q] = seen[q]
  BY <1>1, <1>2
<1>4. Fits(p, S)'
  BY <1>3, FitsStays
<1>5. Fits(q, seen[q])
  BY <1>1 DEF SeenInv
<1>6. Agree(seen[q], S)
  BY AgreeBack DEF Fits
<1>7. Fits(q, seen[q])'
  <2>1. /\ seen[q] \in SUBSET Places
        /\ Chained(q, seen[q]) /\ Follow(q, seen[q]) /\ Agree(seen[q], S)
    BY <1>5, <1>6 DEF Fits
  <2> HIDE DEF q
  <2>2. Chained(q, seen[q])'
    BY <2>1, <1>3 DEF Chained, Child, genvars
  <2>3. Follow(q, seen[q])'
    BY <2>1, <1>3 DEF Follow, OnPath, genvars
  <2>4. Agree(seen[q], S)'
    BY <2>1, <1>3 DEF Agree, OnPath, genvars
  <2> QED BY <2>1, <2>2, <2>3, <2>4, <1>1, <1>3 DEF Fits
<1>8. pc' = "generated"
  BY DEF genvars
<1> HIDE DEF q
<1>9. \A r \in Party : Fits(r, seen[r])'
  <2>1. Fits(p, seen[p])'
    BY <1>3, <1>4
  <2> QED BY <1>1, <1>7, <2>1
<1> QED BY <1>3, <1>8, <1>9 DEF SeenInv

IInv == GenInv /\ SeenInv /\ CallInv

\* A step of one server: its evaluation becomes another, the other server's stays.
LEMMA CallBecomes ==
    ASSUME IInv, pc = "generated", NEW p \in Party,
           NEW f, NEW a, NEW h, NEW r, NEW st, NEW S,
           CallOf(f, a, h, r, st, S, last),
           fn' = [fn EXCEPT ![p] = f], arg' = [arg EXCEPT ![p] = a],
           here' = [here EXCEPT ![p] = h], ret' = [ret EXCEPT ![p] = r],
           stack' = [stack EXCEPT ![p] = st], seen' = [seen EXCEPT ![p] = S],
           UNCHANGED genvars
    PROVE  CallInv'
<1>1. /\ fn \in [Party -> Names] /\ arg \in [Party -> Index] /\ here \in [Party -> Places]
      /\ ret \in [Party -> BOOLEAN] /\ stack \in [Party -> Seq(Seq(Places))]
      /\ seen \in [Party -> SUBSET Places]
  BY DEF IInv, CallInv, SeenInv
<1>2. /\ f \in Names /\ a \in Index /\ h \in Places /\ r \in BOOLEAN
      /\ st \in Seq(Seq(Places))
  BY DEF CallOf
<1>3. /\ fn' \in [Party -> Names] /\ arg' \in [Party -> Index] /\ here' \in [Party -> Places]
      /\ ret' \in [Party -> BOOLEAN] /\ stack' \in [Party -> Seq(Seq(Places))]
  BY <1>1, <1>2
<1>4. pc' = "generated" /\ last' = last
  BY DEF genvars
<1>5. ASSUME NEW q \in Party
      PROVE  CallOf(fn'[q], arg'[q], here'[q], ret'[q], stack'[q], seen'[q], last')
  <2>1. CASE q = p
    <3>1. /\ fn'[q] = f /\ arg'[q] = a /\ here'[q] = h /\ ret'[q] = r /\ stack'[q] = st
          /\ seen'[q] = S
      BY <1>1, <2>1
    <3> QED BY <3>1, <1>4
  <2>2. CASE q # p
    <3>1. /\ fn'[q] = fn[q] /\ arg'[q] = arg[q] /\ here'[q] = here[q] /\ ret'[q] = ret[q]
          /\ stack'[q] = stack[q] /\ seen'[q] = seen[q]
      BY <1>1, <2>2
    <3>2. CallOf(fn[q], arg[q], here[q], ret[q], stack[q], seen[q], last)
      BY DEF IInv, CallInv
    <3> QED BY <3>1, <3>2, <1>4
  <2> QED BY <2>1, <2>2
<1> QED BY <1>3, <1>4, <1>5 DEF CallInv

\* What does not change is replaced by itself.
LEMMA StandsExcept ==
    ASSUME IInv, NEW p \in Party
    PROVE  /\ fn = [fn EXCEPT ![p] = fn[p]] /\ arg = [arg EXCEPT ![p] = arg[p]]
           /\ here = [here EXCEPT ![p] = here[p]] /\ ret = [ret EXCEPT ![p] = ret[p]]
           /\ stack = [stack EXCEPT ![p] = stack[p]] /\ seen = [seen EXCEPT ![p] = seen[p]]
           /\ CallOf(fn[p], arg[p], here[p], ret[p], stack[p], seen[p], last)
           /\ fn[p] # "none" => pc = "generated"
           /\ arg[p] \in Index /\ here[p] \in Places /\ ret[p] \in BOOLEAN
           /\ stack[p] \in Seq(Seq(Places)) /\ seen[p] \in SUBSET Places
BY DEF IInv, CallInv, SeenInv

\* Places that stay known when more are.
LEMMA CallsGrow ==
    ASSUME NEW S, NEW T, S \subseteq T, NEW c \in Calls(S)
    PROVE  c \in Calls(T)
BY DEF Calls

\* The children of a call are known places' children, and form a call.
LEMMA ChildrenType ==
    ASSUME GenInv, pc = "generated", NEW S \in SUBSET Places, NEW c \in Calls(S),
           Len(c[1].at) < Stop, NEW d \in Side
    PROVE  /\ ChildrenOf(S, Range(Children(c, d)))
           /\ Range(Children(c, d)) \subseteq Places
           /\ Children(c, d) \in Seq(Range(Children(c, d)))
           /\ Len(Children(c, d)) >= 1
           /\ \A i \in 1 .. Len(Children(c, d)) :
                  Len(Children(c, d)[i].at) = Len(Children(c, d)[1].at)
<1> DEFINE C == Children(c, d)
<1>1. c \in Seq(S) /\ Len(c) \in Nat /\ Len(c) >= 1 /\ DOMAIN c = 1 .. Len(c)
      /\ \A i \in 1 .. Len(c) : c[i] \in S /\ Len(c[i].at) = Len(c[1].at)
  BY DEF Calls
<1>2. C = [i \in 1 .. Len(c) |-> Child(c[i], d)]
  BY <1>1 DEF Children
<1>3. ASSUME NEW i \in 1 .. Len(c)
      PROVE  /\ C[i] = Child(c[i], d) /\ c[i] \in S /\ Len(c[i].at) < Stop
             /\ C[i] \in Places /\ Len(C[i].at) = Len(c[1].at) + 1
  BY <1>1, <1>2, ChildType
<1>4. Range(C) = {C[i] : i \in 1 .. Len(c)}
  BY <1>2 DEF Range
<1>5. C \in Seq(Range(C)) /\ Len(C) = Len(c)
  BY <1>1, <1>2, <1>4
<1> HIDE DEF C
<1>6. ChildrenOf(S, Range(C))
  BY <1>3, <1>4 DEF ChildrenOf
<1>7. 1 \in 1 .. Len(c)
  BY <1>1
<1> QED BY <1>3, <1>4, <1>5, <1>6, <1>7 DEF C

LEMMA InitIInv == Init => IInv
<1> SUFFICES ASSUME Init PROVE IInv
  OBVIOUS
<1>1. GenInv
  BY InitGenInv
<1>2. /\ fn = [p \in Party |-> "none"] /\ arg = [p \in Party |-> alpha]
      /\ here = [p \in Party |-> Place(<<>>, root[p])] /\ stack = [p \in Party |-> <<>>]
      /\ ret = [p \in Party |-> FALSE] /\ seen = [p \in Party |-> {}]
  BY DEF Init
<1>3. SeenInv
  BY <1>2 DEF SeenInv, Fits, Chained, Follow, Agree, Other, Party
<1>4. \A p \in Party : Place(<<>>, root[p]) \in Places
  BY <1>1, StopType DEF GenInv, Places, Place
<1>5. CallInv
  BY <1>1, <1>2, <1>4 DEF CallInv, CallOf, Names, GenInv
<1> QED BY <1>1, <1>3, <1>5 DEF IInv

LEMMA GenIInv ==
    ASSUME IInv, GenLevel \/ GenReturn
    PROVE  IInv'
<1>1. GenInv'
  BY GenLevelGenInv, GenReturnGenInv DEF IInv
<1>2. pc = "gen" /\ UNCHANGED evars
  BY DEF GenLevel, GenReturn
<1>3. \A p \in Party : seen[p] = {} /\ fn[p] = "none"
  BY <1>2 DEF IInv, SeenInv, CallInv
<1>4. \A p \in Party : seen'[p] = {} /\ fn'[p] = "none"
  BY <1>2, <1>3 DEF evars
<1>5. SeenInv'
  <2>1. seen' \in [Party -> SUBSET Places]
    BY <1>2 DEF evars, IInv, SeenInv
  <2> QED BY <2>1, <1>4 DEF SeenInv, Fits, Chained, Follow, Agree, Other, Party
<1>6. CallInv'
  <2>1. ASSUME NEW p \in Party
        PROVE  CallOf(fn'[p], arg'[p], here'[p], ret'[p], stack'[p], seen'[p], last')
    <3>1. CallOf("none", arg[p], here[p], ret[p], stack[p], seen[p], last)
      BY <1>3 DEF IInv, CallInv
    <3>2. CallOf("none", arg[p], here[p], ret[p], stack[p], seen[p], last')
      BY <3>1 DEF CallOf
    <3> QED BY <3>2, <1>2, <1>4 DEF evars
  <2> QED BY <2>1, <1>2, <1>4 DEF evars, IInv, CallInv
<1> QED BY <1>1, <1>5, <1>6 DEF IInv

\* While Gen's results stand still, its invariant does, and so do leaves.
LEMMA GenStands ==
    ASSUME GenInv, UNCHANGED genvars
    PROVE  GenInv'
BY DEF GenInv, genvars

\* When no evaluation computes a place, what is known stays true.
LEMMA SeenStands ==
    ASSUME SeenInv, UNCHANGED <<genvars, seen>>
    PROVE  SeenInv'
<1>1. ASSUME NEW p \in Party
      PROVE  Fits(p, seen[p])'
  <2>1. Fits(p, seen[p])
    BY DEF SeenInv
  <2> QED BY <2>1 DEF Fits, Chained, Follow, Agree, OnPath, Child, genvars
<1> QED BY <1>1 DEF SeenInv, genvars

LEMMA EvalCallIInv ==
    ASSUME IInv, NEW p \in Party, EvalCall(p)
    PROVE  IInv'
<1> DEFINE r == Place(<<>>, root[p])
<1>1. PICK x \in Index : arg' = [arg EXCEPT ![p] = x]
  BY DEF EvalCall
<1>2. /\ pc = "generated" /\ fn' = [fn EXCEPT ![p] = "Eval"]
      /\ here' = [here EXCEPT ![p] = r] /\ seen' = [seen EXCEPT ![p] = {r}]
      /\ UNCHANGED genvars /\ stack' = stack /\ ret' = ret
  BY DEF EvalCall
<1>3. Fits(p, {r})
  BY <1>2, FitsBegin DEF IInv
<1>4. r \in Places /\ Len(r.at) = 0
  BY <1>3 DEF Fits, Place
<1> HIDE DEF r
<1>5. CallOf("Eval", x, r, ret[p], stack[p], {r}, last)
  <2>1. ret[p] \in BOOLEAN /\ stack[p] \in Seq(Seq(Places))
    BY StandsExcept
  <2> QED BY <1>4, <2>1 DEF CallOf, Names
<1>6. ret' = [ret EXCEPT ![p] = ret[p]] /\ stack' = [stack EXCEPT ![p] = stack[p]]
  BY <1>2, StandsExcept
<1>7. CallInv'
  BY <1>1, <1>2, <1>5, <1>6, CallBecomes, Zenon
<1>8. GenInv' /\ SeenInv'
  BY <1>2, <1>3, GenStands, SeenBecomes DEF IInv
<1> QED BY <1>7, <1>8 DEF IInv

LEMMA EvalLevelIInv ==
    ASSUME IInv, NEW p \in Party, EvalLevel(p)
    PROVE  IInv'
<1> DEFINE d == arg[p].path[Len(here[p].at) + 1]
           next == Child(here[p], d)
<1>1. /\ fn[p] = "Eval" /\ Len(here[p].at) < Stop
      /\ here' = [here EXCEPT ![p] = next]
      /\ seen' = [seen EXCEPT ![p] = seen[p] \cup {next}]
      /\ UNCHANGED <<genvars, fn, arg, stack, data, ptr, ret>>
  BY DEF EvalLevel
<1>2. pc = "generated" /\ here[p] \in seen[p] /\ here[p] \in Places /\ arg[p] \in Index
      /\ seen \in [Party -> SUBSET Places]
      /\ \A i \in 1 .. Len(here[p].at) : here[p].at[i] = arg[p].path[i]
  BY <1>1, StandsExcept DEF CallOf, IInv, SeenInv
<1>3. d \in Side
  <2>1. Len(here[p].at) + 1 \in 1 .. Stop
    BY <1>1, <1>2, StopType DEF Places
  <2> QED BY <1>2, <2>1 DEF Index
<1> HIDE DEF d
<1>4. next \in Places /\ Len(next.at) = Len(here[p].at) + 1
      /\ next.at[Len(here[p].at) + 1] = d
      /\ \A i \in 1 .. Len(here[p].at) : next.at[i] = here[p].at[i]
  BY <1>1, <1>2, <1>3, ChildType DEF IInv
<1>5. ChildrenOf(seen[p], {next})
  BY <1>1, <1>2, <1>3 DEF ChildrenOf
<1> HIDE DEF next
<1>6. \A i \in 1 .. Len(next.at) : next.at[i] = arg[p].path[i]
  BY <1>2, <1>4 DEF d, Places
<1>7. GenInv'
  BY <1>1, GenStands DEF IInv
<1>8. SeenInv'
  <2>1. Fits(p, seen[p] \cup {next})
    BY <1>2, <1>5, FitsGrow DEF IInv, SeenInv
  <2> QED BY <1>1, <1>2, <2>1, SeenBecomes DEF IInv
<1>9. CallOf("Eval", arg[p], next, ret[p], stack[p], seen[p] \cup {next}, last)
  BY <1>1, <1>4, <1>6, StandsExcept DEF CallOf
<1>10. fn' = [fn EXCEPT ![p] = "Eval"] /\ arg' = [arg EXCEPT ![p] = arg[p]]
       /\ ret' = [ret EXCEPT ![p] = ret[p]] /\ stack' = [stack EXCEPT ![p] = stack[p]]
  BY <1>1, StandsExcept
<1>11. CallInv'
  <2>1. UNCHANGED genvars /\ here' = [here EXCEPT ![p] = next]
        /\ seen' = [seen EXCEPT ![p] = seen[p] \cup {next}] /\ pc = "generated"
    BY <1>1, <1>2
  <2> QED BY <1>9, <1>10, <2>1, CallBecomes, Zenon
<1> QED BY <1>7, <1>8, <1>11 DEF IInv

LEMMA EvalReturnIInv ==
    ASSUME IInv, NEW p \in Party, EvalReturn(p)
    PROVE  IInv'
<1> DEFINE b == arg[p].off \in LeafOf(last, here[p].node)
<1>1. /\ fn[p] = "Eval" /\ Len(here[p].at) = Stop
      /\ ret' = [ret EXCEPT ![p] = b]
      /\ fn' = [fn EXCEPT ![p] = "Eval returned"]
      /\ UNCHANGED <<genvars, arg, here, stack, data, ptr, seen>>
  BY DEF EvalReturn, Leaf, LeafOf
<1>2. GenInv' /\ SeenInv'
  BY <1>1, GenStands, SeenStands DEF IInv
<1>3. b \in BOOLEAN /\ (b <=> arg[p].off \in LeafOf(last, here[p].node))
  OBVIOUS
<1>4. /\ pc = "generated" /\ arg' = [arg EXCEPT ![p] = arg[p]]
      /\ here' = [here EXCEPT ![p] = here[p]] /\ stack' = [stack EXCEPT ![p] = stack[p]]
      /\ seen' = [seen EXCEPT ![p] = seen[p]]
      /\ CallOf("Eval", arg[p], here[p], ret[p], stack[p], seen[p], last)
  BY <1>1, StandsExcept
<1> HIDE DEF b
<1>5. CallOf("Eval returned", arg[p], here[p], b, stack[p], seen[p], last)
  BY <1>1, <1>3, <1>4 DEF CallOf, Names
<1>6. CallInv'
  <2>1. UNCHANGED genvars /\ ret' = [ret EXCEPT ![p] = b]
        /\ fn' = [fn EXCEPT ![p] = "Eval returned"]
    BY <1>1
  <2> QED BY <1>4, <1>5, <2>1, CallBecomes, Zenon
<1> QED BY <1>2, <1>6 DEF IInv

LEMMA EvalFullCallIInv ==
    ASSUME IInv, NEW p \in Party, EvalFullCall(p)
    PROVE  IInv'
<1> DEFINE r == Place(<<>>, root[p])
<1>1. /\ pc = "generated" /\ fn' = [fn EXCEPT ![p] = "EvalFull"]
      /\ stack' = [stack EXCEPT ![p] = << <<r>> >>] /\ seen' = [seen EXCEPT ![p] = {r}]
      /\ UNCHANGED <<genvars, arg, here, data, ptr, ret>>
  BY DEF EvalFullCall
<1>2. GenInv'
  BY <1>1, GenStands DEF IInv
<1>3. Fits(p, {r})
  BY <1>1, FitsBegin DEF IInv
<1>4. SeenInv'
  BY <1>1, <1>3, SeenBecomes DEF IInv
<1>5. r \in Places
  BY <1>3 DEF Fits
<1> HIDE DEF r
<1>6. <<r>> \in Calls({r}) /\ << <<r>> >> \in Seq(Seq(Places))
  BY <1>5 DEF Calls
<1>7. CallOf("EvalFull", arg[p], here[p], ret[p], << <<r>> >>, {r}, last)
  <2>1. CallOf(fn[p], arg[p], here[p], ret[p], stack[p], seen[p], last)
    BY StandsExcept
  <2>2. \A k \in 1 .. Len(<< <<r>> >>) : << <<r>> >>[k] \in Calls({r})
    BY <1>6
  <2> QED BY <1>6, <2>1, <2>2 DEF CallOf, Names
<1>8. arg' = [arg EXCEPT ![p] = arg[p]] /\ here' = [here EXCEPT ![p] = here[p]]
      /\ ret' = [ret EXCEPT ![p] = ret[p]]
  BY <1>1, StandsExcept
<1>9. CallInv'
  <2>1. UNCHANGED genvars /\ pc = "generated" /\ fn' = [fn EXCEPT ![p] = "EvalFull"]
        /\ stack' = [stack EXCEPT ![p] = << <<r>> >>] /\ seen' = [seen EXCEPT ![p] = {r}]
    BY <1>1
  <2> QED BY <1>7, <1>8, <2>1, CallBecomes, Zenon
<1> QED BY <1>2, <1>4, <1>9 DEF IInv

LEMMA Appended ==
    ASSUME NEW X, NEW s \in Seq(X), NEW t \in Seq(X)
    PROVE  /\ s \o t \in Seq(X) /\ Len(s \o t) = Len(s) + Len(t)
           /\ \A k \in 1 .. Len(s \o t) : (s \o t)[k] = IF k <= Len(s) THEN s[k] ELSE t[k - Len(s)]
  OBVIOUS

\* The head of a sequence replaced by two elements.
LEMMA TwoForOne ==
    ASSUME NEW X, NEW C, NEW s \in Seq(X), s # <<>>, \A k \in 1 .. Len(s) : s[k] \in C,
           NEW a \in X, NEW b \in X, a \in C, b \in C
    PROVE  /\ <<a, b>> \o Tail(s) \in Seq(X)
           /\ \A k \in 1 .. Len(<<a, b>> \o Tail(s)) : (<<a, b>> \o Tail(s))[k] \in C
<1> DEFINE t == Tail(s)
           h == <<a, b>>
           u == h \o t
<1>1. t \in Seq(X) /\ Len(t) = Len(s) - 1 /\ Len(t) \in Nat /\ Len(s) \in Nat
      /\ \A k \in 1 .. Len(t) : t[k] = s[k + 1]
  OBVIOUS
<1>2. h \in Seq(X) /\ Len(h) = 2 /\ h[1] = a /\ h[2] = b
  OBVIOUS
<1> HIDE DEF t, h
<1>3. /\ u \in Seq(X) /\ Len(u) = Len(h) + Len(t)
      /\ \A k \in 1 .. Len(u) : u[k] = IF k <= Len(h) THEN h[k] ELSE t[k - Len(h)]
  <2>1. h \in Seq(X) /\ t \in Seq(X)
    BY <1>1, <1>2
  <2> QED BY <2>1, Appended
<1> HIDE DEF u
<1>4. ASSUME NEW k \in 1 .. Len(u)
      PROVE  u[k] \in C
  <2>1. CASE k <= 2
    <3>1. k = 1 \/ k = 2
      BY <1>1, <1>2, <1>3, <2>1
    <3> QED BY <1>2, <1>3, <2>1, <3>1
  <2>2. CASE k > 2
    <3>1. u[k] = t[k - 2]
      BY <1>2, <1>3, <2>2
    <3>2. k - 2 \in 1 .. Len(t) /\ (k - 2) + 1 \in 1 .. Len(s)
      BY <1>1, <1>2, <1>3, <2>2
    <3>3. t[k - 2] = s[(k - 2) + 1]
      BY <1>1, <3>2
    <3> QED BY <3>1, <3>2, <3>3
  <2> QED BY <2>1, <2>2
<1> QED BY <1>3, <1>4 DEF u, h, t

LEMMA DescendIInv ==
    ASSUME IInv, NEW p \in Party, fn[p] \in {"EvalFull", "EvalFull8"}, stack[p] # <<>>,
           Descend(p), UNCHANGED genvars,
           fn' = [fn EXCEPT ![p] = fn[p]],
           arg' = [arg EXCEPT ![p] = arg[p]],
           here' = [here EXCEPT ![p] = here[p]],
           ret' = [ret EXCEPT ![p] = ret[p]]
    PROVE  IInv'
<1> DEFINE call == Head(stack[p])
           L == Children(call, "L")
           R == Children(call, "R")
           S == (seen[p] \cup Range(L)) \cup Range(R)
<1>1. /\ Len(call[1].at) < Stop
      /\ stack' = [stack EXCEPT ![p] = <<L, R>> \o Tail(stack[p])]
      /\ seen' = [seen EXCEPT ![p] = S]
  BY DEF Descend
<1>2. /\ pc = "generated" /\ stack[p] \in Seq(Seq(Places)) /\ seen \in [Party -> SUBSET Places]
      /\ Fits(p, seen[p])
      /\ \A k \in 1 .. Len(stack[p]) : stack[p][k] \in Calls(seen[p])
  BY StandsExcept DEF CallOf, IInv, SeenInv
<1>3. call \in Calls(seen[p])
  BY <1>2
<1>4. /\ ChildrenOf(seen[p], Range(L)) /\ ChildrenOf(seen[p], Range(R))
      /\ Range(L) \subseteq Places /\ Range(R) \subseteq Places
      /\ L \in Seq(Range(L)) /\ R \in Seq(Range(R)) /\ Len(L) >= 1 /\ Len(R) >= 1
      /\ \A i \in 1 .. Len(L) : Len(L[i].at) = Len(L[1].at)
      /\ \A i \in 1 .. Len(R) : Len(R[i].at) = Len(R[1].at)
  BY <1>1, <1>2, <1>3, ChildrenType DEF IInv, Side
<1> HIDE DEF call, L, R
<1>5. L \in Calls(S) /\ R \in Calls(S) /\ L \in Seq(Places) /\ R \in Seq(Places)
  <2>1. L \in Seq(S) /\ R \in Seq(S)
    BY <1>4
  <2> QED BY <2>1, <1>4 DEF Calls
<1>6. Fits(p, S)
  <2>1. Fits(p, seen[p] \cup Range(L))
    BY <1>2, <1>4, FitsGrow DEF IInv
  <2>2. ChildrenOf(seen[p] \cup Range(L), Range(R))
    BY <1>4 DEF ChildrenOf
  <2> QED BY <1>2, <2>1, <2>2, FitsGrow DEF IInv
<1>7. GenInv'
  BY GenStands DEF IInv
<1>8. SeenInv'
  BY <1>1, <1>2, <1>6, SeenBecomes DEF IInv
<1>9. \A k \in 1 .. Len(stack[p]) : stack[p][k] \in Calls(S)
  BY <1>2, CallsGrow
<1> HIDE DEF S
<1>10. <<L, R>> \o Tail(stack[p]) \in Seq(Seq(Places))
       /\ \A k \in 1 .. Len(<<L, R>> \o Tail(stack[p])) :
              (<<L, R>> \o Tail(stack[p]))[k] \in Calls(S)
  BY <1>2, <1>5, <1>9, TwoForOne
<1>11. CallOf(fn[p], arg[p], here[p], ret[p], <<L, R>> \o Tail(stack[p]), S, last)
  BY <1>10, StandsExcept DEF CallOf
<1>12. CallInv'
  <2> DEFINE u == <<L, R>> \o Tail(stack[p])
  <2>1. UNCHANGED genvars /\ pc = "generated" /\ stack' = [stack EXCEPT ![p] = u]
        /\ seen' = [seen EXCEPT ![p] = S]
    BY <1>1, <1>2
  <2>2. CallOf(fn[p], arg[p], here[p], ret[p], u, S, last)
    BY <1>11
  <2> HIDE DEF u
  <2> QED BY <2>1, <2>2, CallBecomes, Zenon
<1> QED BY <1>7, <1>8, <1>12 DEF IInv

\* A leaf: one call less to make.
LEMMA PopIInv ==
    ASSUME IInv, NEW p \in Party, fn[p] \in {"EvalFull", "EvalFull8"}, stack[p] # <<>>,
           stack' = [stack EXCEPT ![p] = Tail(stack[p])],
           UNCHANGED genvars,
           fn' = [fn EXCEPT ![p] = fn[p]],
           arg' = [arg EXCEPT ![p] = arg[p]],
           here' = [here EXCEPT ![p] = here[p]],
           ret' = [ret EXCEPT ![p] = ret[p]],
           seen' = [seen EXCEPT ![p] = seen[p]]
    PROVE  IInv'
<1>1. GenInv' /\ SeenInv'
  <2>1. seen' = seen
    BY StandsExcept
  <2> QED BY <2>1, GenStands, SeenStands DEF IInv
<1>2. /\ stack[p] \in Seq(Seq(Places)) /\ pc = "generated"
      /\ \A k \in 1 .. Len(stack[p]) : stack[p][k] \in Calls(seen[p])
  BY StandsExcept DEF CallOf
<1>3. Tail(stack[p]) \in Seq(Seq(Places))
      /\ Len(Tail(stack[p])) = Len(stack[p]) - 1
      /\ \A k \in 1 .. Len(Tail(stack[p])) : Tail(stack[p])[k] = stack[p][k + 1]
  BY <1>2
<1>4. \A k \in 1 .. Len(Tail(stack[p])) : Tail(stack[p])[k] \in Calls(seen[p])
  <2> TAKE k \in 1 .. Len(Tail(stack[p]))
  <2>1. k + 1 \in 1 .. Len(stack[p])
    BY <1>2, <1>3
  <2> QED BY <1>2, <1>3, <2>1
<1>5. CallOf(fn[p], arg[p], here[p], ret[p], Tail(stack[p]), seen[p], last)
  BY <1>3, <1>4, StandsExcept DEF CallOf
<1>6. CallInv'
  <2> DEFINE t == Tail(stack[p])
  <2>1. pc = "generated" /\ stack' = [stack EXCEPT ![p] = t]
    BY <1>2
  <2>2. CallOf(fn[p], arg[p], here[p], ret[p], t, seen[p], last)
    BY <1>5
  <2> HIDE DEF t
  <2> QED BY <2>1, <2>2, CallBecomes, Zenon
<1> QED BY <1>1, <1>6 DEF IInv

LEMMA FullReturnIInv ==
    ASSUME IInv, NEW p \in Party, fn[p] # "none",
           NEW f \in {"EvalFull returned", "EvalFull8 returned"}, fn' = [fn EXCEPT ![p] = f],
           UNCHANGED genvars,
           arg' = [arg EXCEPT ![p] = arg[p]],
           here' = [here EXCEPT ![p] = here[p]],
           stack' = [stack EXCEPT ![p] = stack[p]],
           ret' = [ret EXCEPT ![p] = ret[p]],
           seen' = [seen EXCEPT ![p] = seen[p]]
    PROVE  IInv'
<1>1. GenInv' /\ SeenInv'
  <2>1. seen' = seen
    BY StandsExcept
  <2> QED BY <2>1, GenStands, SeenStands DEF IInv
<1>2. CallOf(f, arg[p], here[p], ret[p], stack[p], seen[p], last)
  BY StandsExcept DEF CallOf, Names
<1>3. pc = "generated"
  BY StandsExcept
<1>4. CallInv'
  BY <1>2, <1>3, CallBecomes, Zenon
<1> QED BY <1>1, <1>4 DEF IInv

LEMMA EvalFull8CallIInv ==
    ASSUME IInv, NEW p \in Party, EvalFull8Call(p)
    PROVE  IInv'
<1> DEFINE r    == Place(<<>>, root[p])
           F0 == [k \in 1 .. 8 |-> r]
           F1 == [k \in 1 .. 8 |-> Child(F0[k], Top[k][1])]
           F2 == [k \in 1 .. 8 |-> Child(F1[k], Top[k][2])]
           c  == [k \in 1 .. 8 |-> Child(F2[k], Top[k][3])]
           Ones   == {F1[k] : k \in 1 .. 8}
           Twos   == {F2[k] : k \in 1 .. 8}
           Threes == {c[k] : k \in 1 .. 8}
           S == (({r} \cup Ones) \cup Twos) \cup Threes
<1>1. /\ pc = "generated" /\ Stop >= 3 /\ fn' = [fn EXCEPT ![p] = "EvalFull8"]
      /\ stack' = [stack EXCEPT ![p] = <<c>>]
      /\ seen' = [seen EXCEPT ![p] = {r} \cup UNION {{F1[k], F2[k], c[k]} : k \in 1 .. 8}]
      /\ UNCHANGED <<genvars, arg, here, ret>>
  BY DEF EvalFull8Call
<1>2. {r} \cup UNION {{F1[k], F2[k], c[k]} : k \in 1 .. 8} = S
  <2> HIDE DEF r, F1, F2, c
  <2> QED OBVIOUS
<1>0. GenInv /\ pc = "generated" /\ Stop >= 3 /\ Stop \in Nat
  BY <1>1, StopType DEF IInv
<1>3. \A k \in 1 .. 8 : Top[k][1] \in Side /\ Top[k][2] \in Side /\ Top[k][3] \in Side
  BY DEF Top, Side
<1>4. Fits(p, {r})
  BY <1>0, FitsBegin DEF IInv
<1>5. r \in Places /\ Len(r.at) = 0
  BY <1>4 DEF Fits, Place
<1> HIDE DEF r
<1> DEFINE D1 == [k \in 1 .. 8 |-> Top[k][1]]
           D2 == [k \in 1 .. 8 |-> Top[k][2]]
           D3 == [k \in 1 .. 8 |-> Top[k][3]]
<1>6. /\ \A k \in 1 .. 8 : F0[k] \in Places /\ Len(F0[k].at) = 0
      /\ \A k \in 1 .. 8 : F0[k] \in {r}
      /\ \A k \in 1 .. 8 : D1[k] \in Side /\ F1[k] = Child(F0[k], D1[k])
      /\ \A k \in 1 .. 8 : D2[k] \in Side /\ F2[k] = Child(F1[k], D2[k])
      /\ \A k \in 1 .. 8 : D3[k] \in Side /\ c[k] = Child(F2[k], D3[k])
  BY <1>3, <1>5
<1> HIDE DEF F0, F1, F2, c, D1, D2, D3
<1>a. /\ \A k \in 1 .. 8 : F1[k] \in Ones
      /\ \A q \in Ones : \E k \in 1 .. 8 : q = F1[k]
      /\ \A k \in 1 .. 8 : F2[k] \in Twos
      /\ \A q \in Twos : \E k \in 1 .. 8 : q = F2[k]
      /\ \A q \in Threes : \E k \in 1 .. 8 : q = c[k]
      /\ \A k \in 1 .. 8 : c[k] \in Threes
  OBVIOUS
<1> HIDE DEF Ones, Twos, Threes
<1>7. (\A k \in 1 .. 8 : F1[k] \in Places /\ Len(F1[k].at) = 1) /\ ChildrenOf({r}, Ones)
  <2>1. ASSUME NEW k \in 1 .. 8
        PROVE  F1[k] \in Places /\ Len(F1[k].at) = 1
    <3>1. /\ F0[k] \in Places /\ Len(F0[k].at) = 0 /\ D1[k] \in Side
          /\ F1[k] = Child(F0[k], D1[k]) /\ Len(F0[k].at) < Stop
      BY <1>0, <1>6
    <3>2. Child(F0[k], D1[k]) \in Places /\ Len(Child(F0[k], D1[k]).at) = Len(F0[k].at) + 1
      BY <1>0, <3>1, ChildType
    <3> QED BY <3>1, <3>2
  <2>2. ASSUME NEW x \in Ones
        PROVE  \E f \in {r}, d \in Side : Len(f.at) < Stop /\ x = Child(f, d)
    <3>1. PICK k \in 1 .. 8 : x = F1[k]
      BY <1>a
    <3>2. /\ F0[k] \in {r} /\ D1[k] \in Side /\ x = Child(F0[k], D1[k])
          /\ Len(F0[k].at) < Stop
      BY SMTT(60), <1>0, <1>6, <1>a, <3>1
    <3> QED BY <3>2
  <2> QED BY <2>1, <2>2 DEF ChildrenOf
<1>8. (\A k \in 1 .. 8 : F2[k] \in Places /\ Len(F2[k].at) = 2) /\ ChildrenOf(Ones, Twos)
  <2>1. ASSUME NEW k \in 1 .. 8
        PROVE  F2[k] \in Places /\ Len(F2[k].at) = 2
    <3>a. /\ F1[k] \in Places /\ Len(F1[k].at) = 1 /\ D2[k] \in Side
          /\ F2[k] = Child(F1[k], D2[k])
      BY <1>6, <1>7, Zenon
    <3>1. /\ F1[k] \in Places /\ Len(F1[k].at) = 1 /\ D2[k] \in Side
          /\ F2[k] = Child(F1[k], D2[k]) /\ Len(F1[k].at) < Stop
      BY <1>0, <3>a
    <3>2. Child(F1[k], D2[k]) \in Places /\ Len(Child(F1[k], D2[k]).at) = Len(F1[k].at) + 1
      BY <1>0, <3>1, ChildType
    <3> QED BY <3>1, <3>2
  <2>2. ASSUME NEW x \in Twos
        PROVE  \E f \in Ones, d \in Side : Len(f.at) < Stop /\ x = Child(f, d)
    <3>1. PICK k \in 1 .. 8 : x = F2[k]
      BY <1>a
    <3>a. /\ F1[k] \in Ones /\ D2[k] \in Side /\ x = Child(F1[k], D2[k])
          /\ Len(F1[k].at) = 1
      BY <1>6, <1>a, <3>1, <1>7, Zenon
    <3>2. /\ F1[k] \in Ones /\ D2[k] \in Side /\ x = Child(F1[k], D2[k])
          /\ Len(F1[k].at) < Stop
      BY <1>0, <3>a
    <3> QED BY <3>2, Zenon
  <2> QED BY <2>1, <2>2 DEF ChildrenOf
<1>9. (\A k \in 1 .. 8 : c[k] \in Places /\ Len(c[k].at) = 3) /\ ChildrenOf(Twos, Threes)
  <2>1. ASSUME NEW k \in 1 .. 8
        PROVE  c[k] \in Places /\ Len(c[k].at) = 3
    <3>a. /\ F2[k] \in Places /\ Len(F2[k].at) = 2 /\ D3[k] \in Side
          /\ c[k] = Child(F2[k], D3[k])
      BY <1>6, <1>8, Zenon
    <3>1. /\ F2[k] \in Places /\ Len(F2[k].at) = 2 /\ D3[k] \in Side
          /\ c[k] = Child(F2[k], D3[k]) /\ Len(F2[k].at) < Stop
      BY <1>0, <3>a
    <3>2. Child(F2[k], D3[k]) \in Places /\ Len(Child(F2[k], D3[k]).at) = Len(F2[k].at) + 1
      BY <1>0, <3>1, ChildType
    <3> QED BY <3>1, <3>2
  <2>2. ASSUME NEW x \in Threes
        PROVE  \E f \in Twos, d \in Side : Len(f.at) < Stop /\ x = Child(f, d)
    <3>1. PICK k \in 1 .. 8 : x = c[k]
      BY <1>a
    <3>a. /\ F2[k] \in Twos /\ D3[k] \in Side /\ x = Child(F2[k], D3[k])
          /\ Len(F2[k].at) = 2
      BY <1>6, <1>a, <3>1, <1>8, Zenon
    <3>2. /\ F2[k] \in Twos /\ D3[k] \in Side /\ x = Child(F2[k], D3[k])
          /\ Len(F2[k].at) < Stop
      BY <1>0, <3>a
    <3> QED BY <3>2, Zenon
  <2> QED BY <2>1, <2>2 DEF ChildrenOf
<1>10. ChildrenOf({r} \cup Ones, Twos)
  BY <1>8 DEF ChildrenOf
<1>11. ChildrenOf(({r} \cup Ones) \cup Twos, Threes)
  BY <1>9 DEF ChildrenOf
<1>12. Fits(p, S)
  <2>1. Fits(p, {r} \cup Ones)
    BY <1>0, <1>4, <1>7, FitsGrow DEF IInv
  <2>2. Fits(p, ({r} \cup Ones) \cup Twos)
    BY <1>0, <1>10, <2>1, FitsGrow DEF IInv
  <2> QED BY <1>0, <1>11, <2>2, FitsGrow DEF IInv
<1>13. c \in Calls(S) /\ c \in Seq(Places)
  <2>1. \A k \in 1 .. 8 : c[k] \in S
    BY <1>a
  <2>2. c = [k \in 1 .. 8 |-> c[k]]
    BY DEF c
  <2>3. c \in Seq(S) /\ Len(c) = 8 /\ c \in Seq(Places)
    BY <2>1, <2>2, <1>9
  <2> HIDE DEF S
  <2>4. \A i \in 1 .. Len(c) : Len(c[i].at) = Len(c[1].at)
    BY <2>3, <1>9
  <2>5. Len(c) >= 1
    BY <2>3
  <2>6. c \in Calls(S)
    BY <2>3, <2>4, <2>5, Zenon DEF Calls
  <2> QED BY <2>3, <2>6
<1> HIDE DEF S
<1>14. GenInv'
  BY <1>1, GenStands DEF IInv
<1>15. seen' = [seen EXCEPT ![p] = S]
  BY <1>1, <1>2
<1>16. SeenInv'
  BY <1>1, <1>12, <1>15, SeenBecomes DEF IInv
<1>17. <<c>> \in Seq(Seq(Places)) /\ \A k \in 1 .. Len(<<c>>) : <<c>>[k] \in Calls(S)
  BY <1>13
<1>18. CallOf("EvalFull8", arg[p], here[p], ret[p], <<c>>, S, last)
  BY <1>17, StandsExcept DEF CallOf, Names
<1>19. arg' = [arg EXCEPT ![p] = arg[p]] /\ here' = [here EXCEPT ![p] = here[p]]
       /\ ret' = [ret EXCEPT ![p] = ret[p]]
  BY <1>1, StandsExcept
<1>20. CallInv'
  <2>1. UNCHANGED genvars /\ pc = "generated" /\ fn' = [fn EXCEPT ![p] = "EvalFull8"]
        /\ stack' = [stack EXCEPT ![p] = <<c>>]
    BY <1>1
  <2> QED BY <1>15, <1>18, <1>19, <2>1, CallBecomes, Zenon
<1> QED BY <1>14, <1>16, <1>20 DEF IInv

LEMMA StutterIInv ==
    ASSUME IInv, UNCHANGED vars
    PROVE  IInv'
<1>1. GenInv' /\ SeenInv'
  BY GenStands, SeenStands DEF IInv, vars, evars
<1>2. CallInv'
  BY <1>1 DEF IInv, CallInv, vars, evars, genvars
<1> QED BY <1>1, <1>2 DEF IInv

LEMMA NextIInv ==
    ASSUME IInv, [Next]_vars
    PROVE  IInv'
<1>1. CASE GenLevel \/ GenReturn
  BY <1>1, GenIInv
<1>2. ASSUME NEW p \in Party,
             \/ EvalCall(p) \/ EvalLevel(p) \/ EvalReturn(p)
             \/ EvalFullCall(p) \/ EvalFullDescend(p)
             \/ EvalFullLeaf(p) \/ EvalFullReturn(p)
             \/ EvalFull8Call(p) \/ EvalFull8Descend(p)
             \/ EvalFull8Leaf(p) \/ EvalFull8Return(p)
      PROVE  IInv'
  <2>1. CASE EvalCall(p)
    BY <2>1, EvalCallIInv
  <2>2. CASE EvalLevel(p)
    BY <2>2, EvalLevelIInv
  <2>3. CASE EvalReturn(p)
    BY <2>3, EvalReturnIInv
  <2>4. CASE EvalFullCall(p)
    BY <2>4, EvalFullCallIInv
  <2>5. CASE EvalFullDescend(p)
    <3>1. UNCHANGED <<genvars, fn, arg, here, ret>>
      BY <2>5 DEF EvalFullDescend
    <3>2. /\ fn' = [fn EXCEPT ![p] = fn[p]]
          /\ arg' = [arg EXCEPT ![p] = arg[p]]
          /\ here' = [here EXCEPT ![p] = here[p]]
          /\ ret' = [ret EXCEPT ![p] = ret[p]]
      BY <3>1, StandsExcept
    <3> QED BY <2>5, <3>1, <3>2, DescendIInv DEF EvalFullDescend
  <2>6. CASE EvalFullLeaf(p)
    <3>1. UNCHANGED <<genvars, fn, arg, here, ret, seen>>
      BY <2>6 DEF EvalFullLeaf
    <3>2. /\ fn' = [fn EXCEPT ![p] = fn[p]]
          /\ arg' = [arg EXCEPT ![p] = arg[p]]
          /\ here' = [here EXCEPT ![p] = here[p]]
          /\ ret' = [ret EXCEPT ![p] = ret[p]]
          /\ seen' = [seen EXCEPT ![p] = seen[p]]
      BY <3>1, StandsExcept
    <3> QED BY <2>6, <3>1, <3>2, PopIInv DEF EvalFullLeaf
  <2>7. CASE EvalFullReturn(p)
    <3>1. UNCHANGED <<genvars, arg, here, stack, ret, seen>>
      BY <2>7 DEF EvalFullReturn
    <3>2. /\ arg' = [arg EXCEPT ![p] = arg[p]]
          /\ here' = [here EXCEPT ![p] = here[p]]
          /\ stack' = [stack EXCEPT ![p] = stack[p]]
          /\ ret' = [ret EXCEPT ![p] = ret[p]]
          /\ seen' = [seen EXCEPT ![p] = seen[p]]
      BY <3>1, StandsExcept
    <3> QED BY <2>7, <3>1, <3>2, FullReturnIInv DEF EvalFullReturn
  <2>8. CASE EvalFull8Call(p)
    BY <2>8, EvalFull8CallIInv
  <2>9. CASE EvalFull8Descend(p)
    <3>1. UNCHANGED <<genvars, fn, arg, here, ret>>
      BY <2>9 DEF EvalFull8Descend
    <3>2. /\ fn' = [fn EXCEPT ![p] = fn[p]]
          /\ arg' = [arg EXCEPT ![p] = arg[p]]
          /\ here' = [here EXCEPT ![p] = here[p]]
          /\ ret' = [ret EXCEPT ![p] = ret[p]]
      BY <3>1, StandsExcept
    <3> QED BY <2>9, <3>1, <3>2, DescendIInv DEF EvalFull8Descend
  <2>10. CASE EvalFull8Leaf(p)
    <3>1. UNCHANGED <<genvars, fn, arg, here, ret, seen>>
      BY <2>10 DEF EvalFull8Leaf
    <3>2. /\ fn' = [fn EXCEPT ![p] = fn[p]]
          /\ arg' = [arg EXCEPT ![p] = arg[p]]
          /\ here' = [here EXCEPT ![p] = here[p]]
          /\ ret' = [ret EXCEPT ![p] = ret[p]]
          /\ seen' = [seen EXCEPT ![p] = seen[p]]
      BY <3>1, StandsExcept
    <3> QED BY <2>10, <3>1, <3>2, PopIInv DEF EvalFull8Leaf
  <2>11. CASE EvalFull8Return(p)
    <3>1. UNCHANGED <<genvars, arg, here, stack, ret, seen>>
      BY <2>11 DEF EvalFull8Return
    <3>2. /\ arg' = [arg EXCEPT ![p] = arg[p]]
          /\ here' = [here EXCEPT ![p] = here[p]]
          /\ stack' = [stack EXCEPT ![p] = stack[p]]
          /\ ret' = [ret EXCEPT ![p] = ret[p]]
          /\ seen' = [seen EXCEPT ![p] = seen[p]]
      BY <3>1, StandsExcept
    <3> QED BY <2>11, <3>1, <3>2, FullReturnIInv DEF EvalFull8Return
  <2> QED BY <1>2, <2>1, <2>2, <2>3, <2>4, <2>5, <2>6, <2>7, <2>8, <2>9, <2>10, <2>11
<1>3. CASE UNCHANGED vars
  BY <1>3, StutterIInv
<1> QED BY <1>1, <1>2, <1>3 DEF Next

LEMMA DpfInvariant == Spec => []IInv
<1>1. IInv /\ [Next]_vars => IInv'
  BY NextIInv
<1> QED BY InitIInv, <1>1, PTL DEF Spec

-----------------------------------------------------------------------------
(* What the invariant says of the servers                                   *)

LEMMA IInvFallTogether ==
    ASSUME IInv
    PROVE  ServersFallTogether
<1> SUFFICES ASSUME NEW e \in seen[0], NEW f \in seen[1], e.at = f.at
             PROVE  IF OnPath(e.at)
                    THEN /\ e.node = trail[0][Len(e.at) + 1]
                         /\ f.node = trail[1][Len(f.at) + 1]
                         /\ e.node.t # f.node.t
                    ELSE e.node = f.node
  BY DEF ServersFallTogether
<1>1. 0 \in Party /\ 1 \in Party /\ Other(0) = 1
  BY DEF Party, Other
<1>2. Follow(0, seen[0]) /\ Follow(1, seen[1]) /\ Agree(seen[0], seen[1]) /\ pc = "generated"
      /\ e \in Places
  BY <1>1 DEF IInv, SeenInv, Fits
<1>3. Len(e.at) + 1 \in 1 .. Len(cw) + 1
  BY <1>2 DEF IInv, GenInv, Places
<1>4. trail[0][Len(e.at) + 1].t # trail[1][Len(e.at) + 1].t
  BY <1>3 DEF IInv, GenInv
<1> QED BY <1>2, <1>4 DEF Follow, Agree

LEMMA XorThreeTimes ==
    ASSUME NEW o, NEW a, NEW b
    PROVE  /\ a ## ((o ## (a ## b)) ## b) = o
           /\ ((o ## (a ## b)) ## a) ## b = o
           /\ a ## a = {}
BY DEF ##

\* Two servers that know the same leaf know outputs that differ at the point only.
LEMMA IInvLeaves ==
    ASSUME IInv, NEW e \in seen[0], NEW f \in seen[1], e.at = f.at, Len(e.at) = Stop
    PROVE  Leaf(e.node) ## Leaf(f.node) = (IF e.at = alpha.path THEN {alpha.off} ELSE {})
<1>1. e \in Places /\ f \in Places /\ pc = "generated"
  BY DEF IInv, SeenInv, Party
<1>2. e.at \in Seq(Side) /\ alpha.path \in [1 .. Stop -> Side] /\ e.node \in Node /\ f.node \in Node
  BY <1>1 DEF Places, IInv, GenInv, Index
<1>3. OnPath(e.at) <=> e.at = alpha.path
  BY <1>2 DEF OnPath
<1>4. IF OnPath(e.at)
      THEN /\ e.node = trail[0][Stop + 1] /\ f.node = trail[1][Stop + 1]
           /\ e.node.t # f.node.t
      ELSE e.node = f.node
  BY IInvFallTogether DEF ServersFallTogether
<1>5. CASE OnPath(e.at)
  <2> DEFINE a == Convert[e.node.s]
             b == Convert[f.node.s]
  <2>1. last = {alpha.off} ## (a ## b)
    BY <1>1, <1>4, <1>5 DEF IInv, GenInv
  <2>2. e.node.t \in BOOLEAN /\ f.node.t \in BOOLEAN
    BY <1>2 DEF Node
  <2>3. CASE e.node.t /\ ~f.node.t
    <3>1. Leaf(e.node) = last ## a /\ Leaf(f.node) = b
      BY <2>3 DEF Leaf
    <3>2. /\ (({alpha.off} ## (a ## b)) ## a) ## b = {alpha.off}
          /\ a ## (({alpha.off} ## (a ## b)) ## b) = {alpha.off}
      BY XorThreeTimes
    <3> HIDE DEF a, b
    <3>3. Leaf(e.node) ## Leaf(f.node) = {alpha.off}
      BY <3>1, <3>2, <2>1
    <3> QED BY <3>3, <1>3, <1>5
  <2>4. CASE ~e.node.t /\ f.node.t
    <3>1. Leaf(e.node) = a /\ Leaf(f.node) = last ## b
      BY <2>4 DEF Leaf
    <3>2. /\ (({alpha.off} ## (a ## b)) ## a) ## b = {alpha.off}
          /\ a ## (({alpha.off} ## (a ## b)) ## b) = {alpha.off}
      BY XorThreeTimes
    <3> HIDE DEF a, b
    <3>3. Leaf(e.node) ## Leaf(f.node) = {alpha.off}
      BY <3>1, <3>2, <2>1
    <3> QED BY <3>3, <1>3, <1>5
  <2> QED BY <1>4, <1>5, <2>2, <2>3, <2>4
<1>6. CASE ~OnPath(e.at)
  <2>1. Leaf(e.node) = Leaf(f.node)
    BY <1>4, <1>6
  <2> QED BY <2>1, <1>3, <1>6, XorThreeTimes
<1> QED BY <1>5, <1>6

LEMMA SameSeq ==
    ASSUME NEW u \in Seq(Side), NEW w \in [1 .. Stop -> Side], Len(u) = Stop,
           \A k \in 1 .. Stop : u[k] = w[k]
    PROVE  u = w
BY StopType

\* Two servers that both evaluate at x return bits that differ exactly when x is
\* the point (Eval, dpf.cpp:152-200).
EvalsShareThePoint ==
    (fn[0] = "Eval returned" /\ fn[1] = "Eval returned" /\ arg[0] = arg[1]) =>
        ((ret[0] # ret[1]) <=> arg[0] = alpha)

LEMMA IInvEvals ==
    ASSUME IInv
    PROVE  EvalsShareThePoint
<1> SUFFICES ASSUME fn[0] = "Eval returned", fn[1] = "Eval returned", arg[0] = arg[1]
             PROVE  (ret[0] # ret[1]) <=> arg[0] = alpha
  BY DEF EvalsShareThePoint
<1> DEFINE x == arg[0]
           e == here[0]
           f == here[1]
<1>1. /\ e \in seen[0] /\ f \in seen[1] /\ Len(e.at) = Stop /\ Len(f.at) = Stop
      /\ e \in Places /\ f \in Places /\ x \in Index
      /\ \A i \in 1 .. Stop : e.at[i] = x.path[i] /\ f.at[i] = x.path[i]
      /\ ret[0] \in BOOLEAN /\ ret[1] \in BOOLEAN
      /\ (ret[0] <=> x.off \in Leaf(e.node)) /\ (ret[1] <=> x.off \in Leaf(f.node))
  BY DEF IInv, CallInv, CallOf, LeafOf, Leaf, Party
<1>2. x.path \in [1 .. Stop -> Side] /\ e.at \in Seq(Side) /\ f.at \in Seq(Side)
      /\ alpha \in Index
  BY <1>1 DEF Index, Places, IInv, GenInv
<1>3. e.at = x.path /\ f.at = x.path
  <2>1. Len(e.at) = Stop /\ Len(f.at) = Stop /\ e.at \in Seq(Side) /\ f.at \in Seq(Side)
        /\ x.path \in [1 .. Stop -> Side]
        /\ \A i \in 1 .. Stop : e.at[i] = x.path[i] /\ f.at[i] = x.path[i]
    BY <1>1, <1>2
  <2> QED BY <2>1, StopType, SameSeq
<1>4. Leaf(e.node) ## Leaf(f.node) = (IF e.at = alpha.path THEN {alpha.off} ELSE {})
  BY <1>1, <1>3, IInvLeaves
<1> HIDE DEF e, f, x
<1>5. ~(x.off \in Leaf(e.node) <=> x.off \in Leaf(f.node))
         <=> x.off \in (Leaf(e.node) ## Leaf(f.node))
  BY DEF ##
<1>6. x.off \in (Leaf(e.node) ## Leaf(f.node)) <=> (x.path = alpha.path /\ x.off = alpha.off)
  BY <1>3, <1>4
<1>7. (x.path = alpha.path /\ x.off = alpha.off) <=> x = alpha
  <2>1. x \in Index /\ alpha \in Index
    BY <1>1, <1>2
  <2>2. x = [path |-> x.path, off |-> x.off] /\ alpha = [path |-> alpha.path, off |-> alpha.off]
    BY <2>1 DEF Index
  <2> QED BY <2>2
<1>8. (ret[0] # ret[1]) <=> ~(ret[0] <=> ret[1])
  BY <1>1
<1>9. (ret[0] <=> x.off \in Leaf(e.node)) /\ (ret[1] <=> x.off \in Leaf(f.node))
  BY <1>1
<1>10. (ret[0] # ret[1]) <=> x = alpha
  BY <1>5, <1>6, <1>7, <1>8, <1>9, Zenon
<1> QED BY <1>10 DEF x

-----------------------------------------------------------------------------
(* The number of a leaf.  Induction over the levels is by the least number  *)
(* that a set of levels leaves out.                                         *)

LEMMA LeastOf ==
    ASSUME NEW S, S \subseteq Nat, S # {}
    PROVE  \E x \in S : \A y \in S : x <= y
<1> DEFINE R == {p \in Nat \X Nat : p[1] < p[2]}
<1>1. IsWellFoundedOn(R, Nat)
  <2>1. IsWellFoundedOn(OpToRel(<, Nat), Nat)
    BY NatLessThanWellFounded
  <2>2. OpToRel(<, Nat) = R
    BY DEF OpToRel
  <2> QED  BY <2>1, <2>2
<1>2. \E x \in S : \A y \in S : ~ (<<y, x>> \in R)
  <2> HIDE DEF R
  <2> QED  BY <1>1, WFMin
<1>3. PICK x \in S : \A y \in S : ~ (<<y, x>> \in R)
  BY <1>2
<1>4. ASSUME NEW y \in S
      PROVE  x <= y
  <2>1. ~ (<<y, x>> \in R) /\ y \in Nat /\ x \in Nat
    BY <1>3
  <2> QED  BY <2>1
<1> QED  BY <1>4

LEMMA LevelInduct ==
    ASSUME NEW S, 0 \in S, \A n \in Nat : n \in S => n + 1 \in S
    PROVE  \A n \in Nat : n \in S
<1> DEFINE B == {n \in Nat : n \notin S}
<1>1. SUFFICES ASSUME B # {} PROVE FALSE
  OBVIOUS
<1>2. PICK m \in B : \A x \in B : m <= x
  <2> HIDE DEF B
  <2>1. B \subseteq Nat
    BY DEF B
  <2> QED  BY <1>1, <2>1, LeastOf
<1>3. m \in Nat /\ m \notin S /\ m # 0
  BY <1>2
<1>4. m - 1 \in Nat /\ ~(m <= m - 1) /\ m = (m - 1) + 1
  BY <1>3
<1>5. m - 1 \in S
  BY <1>2, <1>4
<1> QED  BY <1>3, <1>4, <1>5

Turn(d) == IF d = "R" THEN 1 ELSE 0

\* f numbers the nodes along the first m levels of the path q.
Numbers(f, q, m) ==
    f = [k \in 0 .. m |-> IF k = 0 THEN 0 ELSE 2 * f[k - 1] + Turn(q[k])]

LEMMA NumbersExist ==
    ASSUME NEW q
    PROVE  \A m \in Nat : \E f : Numbers(f, q, m)
<1> DEFINE S == {m \in Nat : \E f : Numbers(f, q, m)}
<1>1. 0 \in S
  <2> DEFINE g == [k \in 0 .. 0 |-> 0]
  <2>1. Numbers(g, q, 0)
    BY DEF Numbers
  <2> QED  BY <2>1
<1>2. ASSUME NEW m \in Nat, m \in S
      PROVE  m + 1 \in S
  <2>1. PICK f : Numbers(f, q, m)
    BY <1>2
  <2> DEFINE g == [k \in 0 .. m + 1 |->
                      IF k = 0 THEN 0 ELSE 2 * f[k - 1] + Turn(q[k])]
  <2>2. \A k \in 0 .. m : g[k] = f[k]
    BY <2>1 DEF Numbers
  <2>3. \A k \in 0 .. m + 1 : k # 0 => g[k - 1] = f[k - 1]
    <3> HIDE DEF g
    <3>1. \A k \in 0 .. m + 1 : k # 0 => k - 1 \in 0 .. m
      OBVIOUS
    <3> QED  BY <2>2, <3>1
  <2>4. g = [k \in 0 .. m + 1 |-> IF k = 0 THEN 0 ELSE 2 * g[k - 1] + Turn(q[k])]
    BY <2>3
  <2>5. Numbers(g, q, m + 1)
    BY <2>4 DEF Numbers
  <2> QED  BY <2>5
<1> HIDE DEF S
<1>3. \A m \in Nat : m \in S
  BY <1>1, <1>2, LevelInduct
<1> QED  BY <1>3 DEF S

\* Paths that begin alike are numbered alike, as long as they are alike.
LEMMA NumbersAgree ==
    ASSUME NEW q, NEW r, NEW m \in Nat, NEW n \in Nat, m <= n,
           \A k \in 1 .. m : q[k] = r[k],
           NEW f, NEW g, Numbers(f, q, m), Numbers(g, r, n)
    PROVE  \A k \in 0 .. m : f[k] = g[k] /\ f[k] \in Nat
<1> DEFINE S == {k \in Nat : k <= m => f[k] = g[k] /\ f[k] \in Nat}
<1>1. 0 \in S
  BY DEF Numbers
<1>2. ASSUME NEW k \in Nat, k \in S
      PROVE  k + 1 \in S
  <2> SUFFICES ASSUME k + 1 <= m PROVE f[k + 1] = g[k + 1] /\ f[k + 1] \in Nat
    OBVIOUS
  <2>1. k + 1 \in 0 .. m /\ k + 1 \in 0 .. n /\ k + 1 \in 1 .. m /\ k + 1 # 0 /\ (k + 1) - 1 = k
    OBVIOUS
  <2>2. f[k + 1] = 2 * f[(k + 1) - 1] + Turn(q[k + 1])
    BY <2>1 DEF Numbers
  <2>3. g[k + 1] = 2 * g[(k + 1) - 1] + Turn(r[k + 1])
    BY <2>1 DEF Numbers
  <2>4. f[k] = g[k] /\ f[k] \in Nat /\ Turn(q[k + 1]) \in Nat
    BY <1>2 DEF Turn
  <2> QED  BY <2>1, <2>2, <2>3, <2>4
<1> HIDE DEF S
<1>3. \A k \in Nat : k \in S
  BY <1>1, <1>2, LevelInduct
<1> QED  BY <1>3 DEF S

LEMMA LeafNoIs ==
    ASSUME NEW q, Len(q) \in Nat
    PROVE  \E f : Numbers(f, q, Len(q)) /\ LeafNo(q) = f[Len(q)]
<1> DEFINE N(f) == f = [k \in 0 .. Len(q) |->
                           IF k = 0 THEN 0 ELSE 2 * f[k - 1] + (IF q[k] = "R" THEN 1 ELSE 0)]
           n == CHOOSE f : N(f)
<1>1. LeafNo(q) = n[Len(q)]
  BY DEF LeafNo
<1>2. \A f : N(f) <=> Numbers(f, q, Len(q))
  BY DEF Numbers, Turn
<1>3. \E f : N(f)
  BY <1>2, NumbersExist
<1> HIDE DEF N
<1>4. N(n)
  BY <1>3
<1> QED  BY <1>1, <1>2, <1>4

LEMMA LeafNoOfRoot == LeafNo(<<>>) = 0
<1>1. PICK f : Numbers(f, <<>>, Len(<<>>)) /\ LeafNo(<<>>) = f[Len(<<>>)]
  BY LeafNoIs
<1>2. Len(<<>>) = 0
  OBVIOUS
<1>3. f[0] = 0
  BY <1>1, <1>2 DEF Numbers
<1> QED  BY <1>1, <1>2, <1>3

LEMMA LeafNoOfChild ==
    ASSUME NEW q \in Seq(Side), NEW d \in Side
    PROVE  /\ LeafNo(q) \in Nat
           /\ LeafNo(Append(q, d)) = 2 * LeafNo(q) + Turn(d)
<1> DEFINE r == Append(q, d)
           l == Len(q)
<1>1. /\ l \in Nat /\ Len(r) = l + 1 /\ r[l + 1] = d
      /\ \A k \in 1 .. l : r[k] = q[k]
  OBVIOUS
<1> HIDE DEF l, r
<1>2. PICK f : Numbers(f, q, l) /\ LeafNo(q) = f[l]
  BY <1>1, LeafNoIs DEF l
<1>3. PICK g : Numbers(g, r, l + 1) /\ LeafNo(r) = g[l + 1]
  <2>1. Len(r) \in Nat
    BY <1>1
  <2>2. \E g : Numbers(g, r, Len(r)) /\ LeafNo(r) = g[Len(r)]
    BY <2>1, LeafNoIs
  <2> QED  BY <1>1, <2>2
<1>4. \A k \in 0 .. l : f[k] = g[k] /\ f[k] \in Nat
  <2>1. l <= l + 1 /\ l + 1 \in Nat /\ \A k \in 1 .. l : q[k] = r[k]
    BY <1>1
  <2> QED  BY <1>1, <1>2, <1>3, <2>1, NumbersAgree
<1>5. l + 1 \in 0 .. l + 1 /\ l + 1 # 0 /\ (l + 1) - 1 = l /\ l \in 0 .. l
  BY <1>1
<1>6. g[l + 1] = 2 * g[(l + 1) - 1] + Turn(r[l + 1])
  BY <1>3, <1>5 DEF Numbers
<1> QED  BY <1>1, <1>2, <1>3, <1>4, <1>5, <1>6 DEF r

\* Two paths of one length with the same number are the same.
LEMMA LeafNoInjective ==
    ASSUME NEW l \in Nat, NEW q \in Seq(Side), NEW r \in Seq(Side), Len(q) = l, Len(r) = l,
           LeafNo(q) = LeafNo(r)
    PROVE  \A k \in 1 .. l : q[k] = r[k]
<1>1. PICK f : Numbers(f, q, l) /\ LeafNo(q) = f[l]
  BY LeafNoIs
<1>2. PICK g : Numbers(g, r, l) /\ LeafNo(r) = g[l]
  BY LeafNoIs
<1>3. \A k \in 0 .. l : f[k] \in Nat /\ g[k] \in Nat
  <2>1. l <= l /\ (\A k \in 1 .. l : q[k] = q[k]) /\ (\A k \in 1 .. l : r[k] = r[k])
    OBVIOUS
  <2>2. \A k \in 0 .. l : f[k] \in Nat
    BY <1>1, <2>1, NumbersAgree
  <2>3. \A k \in 0 .. l : g[k] \in Nat
    BY <1>2, <2>1, NumbersAgree
  <2> QED  BY <2>2, <2>3
<1>4. ASSUME NEW k \in 1 .. l, f[k] = g[k]
      PROVE  f[k - 1] = g[k - 1] /\ q[k] = r[k]
  <2>1. k \in 0 .. l /\ k - 1 \in 0 .. l /\ k # 0
    OBVIOUS
  <2>2. f[k] = 2 * f[k - 1] + Turn(q[k])
    BY <1>1, <2>1 DEF Numbers
  <2>3. g[k] = 2 * g[k - 1] + Turn(r[k])
    BY <1>2, <2>1 DEF Numbers
  <2>4. f[k - 1] \in Nat /\ g[k - 1] \in Nat
    BY <1>3, <2>1
  <2>5. q[k] \in Side /\ r[k] \in Side
    OBVIOUS
  <2>6. Turn(q[k]) \in 0 .. 1 /\ Turn(r[k]) \in 0 .. 1
        /\ (Turn(q[k]) = Turn(r[k]) => q[k] = r[k])
    BY <2>5 DEF Turn, Side
  <2>7. f[k - 1] = g[k - 1] /\ Turn(q[k]) = Turn(r[k])
    BY <2>2, <2>3, <2>4, <2>6, <1>4
  <2> QED  BY <2>6, <2>7
<1> DEFINE S == {m \in Nat : m <= l => f[l - m] = g[l - m]}
<1>5. 0 \in S
  <2>1. l - 0 = l
    OBVIOUS
  <2> QED  BY <1>1, <1>2, <2>1
<1>6. ASSUME NEW m \in Nat, m \in S
      PROVE  m + 1 \in S
  <2> SUFFICES ASSUME m + 1 <= l PROVE f[l - (m + 1)] = g[l - (m + 1)]
    OBVIOUS
  <2>1. l - m \in 1 .. l /\ (l - m) - 1 = l - (m + 1)
    OBVIOUS
  <2>2. f[l - m] = g[l - m]
    BY <1>6
  <2> QED  BY <1>4, <2>1, <2>2
<1> HIDE DEF S
<1>7. \A m \in Nat : m \in S
  BY <1>5, <1>6, LevelInduct
<1>8. ASSUME NEW k \in 1 .. l
      PROVE  q[k] = r[k]
  <2>1. l - k \in Nat /\ l - k <= l /\ l - (l - k) = k
    OBVIOUS
  <2>2. f[k] = g[k]
    BY <1>7, <2>1 DEF S
  <2> QED  BY <1>4, <2>2
<1> QED  BY <1>8

-----------------------------------------------------------------------------
(* The leaves below a node: those from Lo up to but not including Hi        *)

Pow(n) == 2^n
Lo(at) == LeafNo(at) * Pow(Stop - Len(at))
Hi(at) == Lo(at) + Pow(Stop - Len(at))

LEMMA PowDoubles ==
    /\ Pow(0) = 1
    /\ \A n \in 0 .. Stop : Pow(n) \in Nat
    /\ \A n \in 0 .. Stop : n # Stop => Pow(n + 1) = 2 * Pow(n)
BY PowersDouble DEF PowersDouble, Pow

LEMMA PowPositive ==
    \A n \in 0 .. Stop : Pow(n) \in Nat /\ Pow(n) >= 1
<1> DEFINE S == {n \in Nat : n <= Stop => Pow(n) >= 1}
<1>1. 0 \in S
  BY PowDoubles
<1>2. ASSUME NEW n \in Nat, n \in S
      PROVE  n + 1 \in S
  <2> SUFFICES ASSUME n + 1 <= Stop PROVE Pow(n + 1) >= 1
    OBVIOUS
  <2>1. n \in 0 .. Stop /\ n # Stop
    BY StopType
  <2>2. Pow(n + 1) = 2 * Pow(n) /\ Pow(n) \in Nat /\ Pow(n) >= 1
    BY <1>2, <2>1, PowDoubles
  <2> QED  BY <2>2
<1> HIDE DEF S
<1>3. \A n \in Nat : n \in S
  BY <1>1, <1>2, LevelInduct
<1> QED  BY <1>3, PowDoubles, StopType DEF S

LEMMA LeafNoBelow ==
    ASSUME NEW q \in Seq(Side), Len(q) <= Stop
    PROVE  LeafNo(q) < Pow(Len(q))
<1> DEFINE l == Len(q)
<1>1. l \in Nat
  OBVIOUS
<1>2. PICK f : Numbers(f, q, l) /\ LeafNo(q) = f[l]
  BY <1>1, LeafNoIs
<1>3. \A k \in 0 .. l : f[k] \in Nat
  <2>1. l <= l /\ \A k \in 1 .. l : q[k] = q[k]
    BY <1>1
  <2> HIDE DEF l
  <2> QED  BY <1>1, <1>2, <2>1, NumbersAgree
<1> DEFINE S == {k \in Nat : k <= l => f[k] < Pow(k)}
<1>4. 0 \in S
  <2>1. f[0] = 0
    BY <1>1, <1>2 DEF Numbers
  <2> QED  BY <2>1, PowDoubles
<1>5. ASSUME NEW k \in Nat, k \in S
      PROVE  k + 1 \in S
  <2> SUFFICES ASSUME k + 1 <= l PROVE f[k + 1] < Pow(k + 1)
    OBVIOUS
  <2>1. k + 1 \in 0 .. l /\ k + 1 # 0 /\ (k + 1) - 1 = k /\ k \in 0 .. l
        /\ k \in 0 .. Stop /\ k # Stop
    BY <1>1, StopType
  <2>2. f[k + 1] = 2 * f[(k + 1) - 1] + Turn(q[k + 1])
    BY <1>2, <2>1 DEF Numbers
  <2>3. f[k] < Pow(k) /\ f[k] \in Nat /\ Pow(k) \in Nat /\ Pow(k + 1) = 2 * Pow(k)
    BY <1>3, <1>5, <2>1, PowDoubles
  <2>4. Turn(q[k + 1]) \in 0 .. 1
    BY DEF Turn
  <2> QED  BY <2>1, <2>2, <2>3, <2>4
<1> HIDE DEF S, l
<1>6. \A k \in Nat : k \in S
  BY <1>4, <1>5, LevelInduct
<1> QED  BY <1>1, <1>2, <1>6 DEF S, l

LEMMA SpanOfRoot == Lo(<<>>) = 0 /\ Hi(<<>>) = Pow(Stop)
<1>1. Len(<<>>) = 0 /\ Stop - 0 = Stop /\ Stop \in 0 .. Stop
  BY StopType
<1>2. Pow(Stop) \in Nat
  BY <1>1, PowDoubles
<1> QED  BY <1>1, <1>2, LeafNoOfRoot DEF Lo, Hi

LEMMA Halves ==
    ASSUME NEW n \in Nat, NEW w \in Nat
    PROVE  (2 * n) * w = n * (2 * w) /\ (2 * n + 1) * w = n * (2 * w) + w
OBVIOUS

LEMMA SpanOfChild ==
    ASSUME NEW q \in Seq(Side), Len(q) < Stop
    PROVE  /\ Lo(q) \in Nat /\ Hi(q) \in Nat /\ Lo(q) < Hi(q)
           /\ Lo(Append(q, "L")) = Lo(q)
           /\ Hi(Append(q, "L")) = Lo(Append(q, "R"))
           /\ Hi(Append(q, "R")) = Hi(q)
           /\ Hi(Append(q, "L")) \in Nat /\ Hi(Append(q, "L")) <= Hi(q)
<1> DEFINE n == LeafNo(q)
           w == Pow(Stop - (Len(q) + 1))
<1>1. /\ Len(q) \in Nat /\ Len(Append(q, "L")) = Len(q) + 1 /\ Len(Append(q, "R")) = Len(q) + 1
      /\ "L" \in Side /\ "R" \in Side
  BY DEF Side
<1>2. LeafNo(Append(q, "L")) = 2 * n + 0 /\ LeafNo(Append(q, "R")) = 2 * n + 1 /\ n \in Nat
  BY <1>1, LeafNoOfChild DEF Turn
<1>3. Stop - (Len(q) + 1) \in 0 .. Stop /\ Stop - (Len(q) + 1) # Stop
      /\ (Stop - (Len(q) + 1)) + 1 = Stop - Len(q)
  BY <1>1, StopType
<1>4. w \in Nat /\ w >= 1 /\ Pow(Stop - Len(q)) = 2 * w
  BY <1>3, PowDoubles, PowPositive
<1> HIDE DEF n, w
<1>5. Lo(q) = n * (2 * w) /\ Hi(q) = n * (2 * w) + 2 * w
  BY <1>4 DEF Lo, Hi, n
<1>6. Lo(Append(q, "L")) = (2 * n) * w /\ Hi(Append(q, "L")) = (2 * n) * w + w
  BY <1>1, <1>2, <1>4 DEF Lo, Hi, w
<1>7. Lo(Append(q, "R")) = (2 * n + 1) * w /\ Hi(Append(q, "R")) = (2 * n + 1) * w + w
  BY <1>1, <1>2, <1>4 DEF Lo, Hi, w
<1>8. (2 * n) * w = n * (2 * w) /\ (2 * n + 1) * w = n * (2 * w) + w
  BY <1>2, <1>4, Halves
<1>9. PICK c \in Nat : c = n * (2 * w)
  BY <1>2, <1>4
<1> QED  BY <1>4, <1>5, <1>6, <1>7, <1>8, <1>9

LEMMA SpanOfLeaf ==
    ASSUME NEW q \in Seq(Side), Len(q) = Stop
    PROVE  LeafNo(q) \in Nat /\ Lo(q) = LeafNo(q) /\ Hi(q) = LeafNo(q) + 1
<1>1. LeafNo(q) \in Nat
  BY LeafNoOfChild DEF Side
<1>2. Stop - Len(q) = 0
  BY StopType
<1> QED  BY <1>1, <1>2, PowDoubles DEF Lo, Hi

-----------------------------------------------------------------------------
(* The calls not made yet and the leaves not written yet                    *)

\* The paths of the i-th place of every call.
Column(st, i) == [k \in 1 .. Len(st) |-> st[k][i].at]

\* The leaves below the nodes of a follow each other from lo up to hi.
Tiles(a, lo, hi) ==
    /\ Len(a) = 0 => lo = hi
    /\ Len(a) # 0 => Lo(a[1]) = lo /\ Hi(a[Len(a)]) = hi
    /\ \A k \in 1 .. Len(a) : k # Len(a) => Hi(a[k]) = Lo(a[k + 1])
    /\ \A k \in 1 .. Len(a) : Hi(a[k]) <= hi

\* The j-th leaf is written, and is the leaf of a node that was computed.
Written(S, da, l, j) ==
    \E e \in S : Len(e.at) = Stop /\ LeafNo(e.at) = j /\ da[j + 1] = LeafOf(l, e.node)

\* One server's full evaluation: the calls that it has not made stand for the leaves
\* that it has not written, in order; each eighth is one of these.
FullOf(f, st, da, pt, S, l) ==
    /\ f = "none" => da = <<>>
    /\ f \in {"EvalFull", "EvalFull returned"} =>
           /\ Tiles(Column(st, 1), Len(da), Pow(Stop))
           /\ \A j \in 0 .. Len(da) - 1 : Written(S, da, l, j)
    /\ f \in {"EvalFull8", "EvalFull8 returned"} =>
           /\ Stop >= 3 /\ Len(da) = Pow(Stop) /\ pt \in [1 .. 8 -> Nat]
           /\ \A k \in 1 .. Len(st) : Len(st[k]) = 8
           /\ \A i \in 1 .. 8 :
                 /\ FirstLeaf(i) <= pt[i] /\ pt[i] <= FirstLeaf(i + 1)
                 /\ Tiles(Column(st, i), pt[i], FirstLeaf(i + 1))
                 /\ \A j \in FirstLeaf(i) .. pt[i] - 1 : Written(S, da, l, j)
    /\ f \in {"EvalFull returned", "EvalFull8 returned"} => st = <<>>

FullInv ==
    /\ data \in [Party -> Seq(Block)] /\ ptr \in [Party -> Seq(Nat)]
    /\ \A p \in Party : FullOf(fn[p], stack[p], data[p], ptr[p], seen[p], last)

LEMMA TilesBegin == Tiles(<< <<>> >>, 0, Pow(Stop))
<1>1. Pow(Stop) \in Nat
  BY StopType, PowDoubles
<1>2. Len(<< <<>> >>) = 1 /\ << <<>> >>[1] = <<>>
  OBVIOUS
<1> QED  BY <1>1, <1>2, SpanOfRoot DEF Tiles

\* A node is replaced by its two children.
LEMMA TilesDescend ==
    ASSUME NEW a \in Seq(Seq(Side)), Len(a) # 0, Len(a[1]) < Stop,
           NEW lo \in Nat, NEW hi \in Nat, Tiles(a, lo, hi),
           NEW b \in Seq(Seq(Side)), Len(b) = Len(a) + 1,
           b[1] = Append(a[1], "L"), b[2] = Append(a[1], "R"),
           \A k \in 2 .. Len(a) : b[k + 1] = a[k]
    PROVE  Tiles(b, lo, hi)
<1> DEFINE q == a[1]
           n == Len(a)
<1>1. n \in Nat /\ n >= 1 /\ q \in Seq(Side) /\ Len(b) = n + 1 /\ 1 \in 1 .. n
  OBVIOUS
<1>2. /\ Lo(q) \in Nat /\ Hi(q) \in Nat /\ Lo(q) < Hi(q)
      /\ Lo(b[1]) = Lo(q) /\ Hi(b[1]) = Lo(b[2]) /\ Hi(b[2]) = Hi(q)
      /\ Hi(b[1]) \in Nat /\ Hi(b[1]) <= Hi(q)
  BY <1>1, SpanOfChild
<1>3. Lo(q) = lo /\ Hi(a[n]) = hi /\ Hi(q) <= hi
  BY <1>1 DEF Tiles
<1>4. \A k \in 1 .. n : k # n => Hi(a[k]) = Lo(a[k + 1])
  BY DEF Tiles
<1>5. \A k \in 1 .. n : Hi(a[k]) <= hi
  BY DEF Tiles
<1>6. \A k \in 2 .. n : b[k + 1] = a[k]
  OBVIOUS
<1> HIDE DEF q, n
<1>7. Hi(b[n + 1]) = hi
  <2>1. CASE n = 1
    <3>1. b[n + 1] = b[2] /\ a[n] = q
      BY <2>1 DEF q
    <3> QED  BY <3>1, <1>2, <1>3
  <2>2. CASE n # 1
    <3>1. n \in 2 .. n
      BY <1>1, <2>2
    <3> QED  BY <3>1, <1>3, <1>6
  <2> QED  BY <2>1, <2>2
<1>8. ASSUME NEW k \in 1 .. n + 1
      PROVE  k # n + 1 => Hi(b[k]) = Lo(b[k + 1])
  <2>1. CASE k = 1
    <3>1. b[k] = b[1] /\ b[k + 1] = b[2]
      BY <2>1
    <3> QED  BY <3>1, <1>2
  <2>2. CASE k = 2 /\ k # n + 1
    <3>1. 2 \in 2 .. n /\ 1 \in 1 .. n /\ 1 # n /\ 1 + 1 = 2
      BY <1>1, <2>2
    <3>2. Hi(q) = Lo(a[2]) /\ b[2 + 1] = a[2]
      BY <3>1, <1>4, <1>6 DEF q
    <3> QED  BY <2>2, <3>2, <1>2
  <2>3. CASE k # 1 /\ k # 2 /\ k # n + 1
    <3>1. k - 1 \in 2 .. n /\ k - 1 \in 1 .. n /\ k - 1 # n /\ k \in 2 .. n /\ (k - 1) + 1 = k
      BY <1>1, <2>3
    <3>2. Hi(a[k - 1]) = Lo(a[k]) /\ b[k] = a[k - 1] /\ b[k + 1] = a[k]
      BY <3>1, <1>4, <1>6
    <3> QED  BY <3>2
  <2> QED  BY <2>1, <2>2, <2>3
<1>9. ASSUME NEW k \in 1 .. n + 1
      PROVE  Hi(b[k]) <= hi
  <2>1. CASE k = 1 \/ k = 2
    <3>1. b[k] = b[1] \/ b[k] = b[2]
      BY <2>1
    <3>2. Hi(b[1]) <= hi /\ Hi(b[2]) <= hi
      BY <1>2, <1>3
    <3> QED  BY <3>1, <3>2
  <2>2. CASE k # 1 /\ k # 2
    <3>1. k - 1 \in 2 .. n /\ k - 1 \in 1 .. n /\ (k - 1) + 1 = k
      BY <1>1, <2>2
    <3>2. b[k] = a[k - 1] /\ Hi(a[k - 1]) <= hi
      BY <3>1, <1>5, <1>6
    <3> QED  BY <3>2
  <2> QED  BY <2>1, <2>2
<1>10. Lo(b[1]) = lo /\ n + 1 # 0
  BY <1>1, <1>2, <1>3
<1> QED  BY <1>1, <1>7, <1>8, <1>9, <1>10 DEF Tiles

\* A leaf is taken away.
LEMMA TilesPop ==
    ASSUME NEW a \in Seq(Seq(Side)), Len(a) # 0, Len(a[1]) = Stop,
           NEW lo \in Nat, NEW hi \in Nat, Tiles(a, lo, hi),
           NEW b \in Seq(Seq(Side)), Len(b) = Len(a) - 1,
           \A k \in 1 .. Len(b) : b[k] = a[k + 1]
    PROVE  Tiles(b, lo + 1, hi) /\ lo = LeafNo(a[1]) /\ lo < hi
<1> DEFINE q == a[1]
           n == Len(a)
<1>1. n \in Nat /\ n >= 1 /\ q \in Seq(Side) /\ Len(b) = n - 1 /\ 1 \in 1 .. n
  OBVIOUS
<1>2. LeafNo(q) \in Nat /\ Lo(q) = LeafNo(q) /\ Hi(q) = LeafNo(q) + 1
  BY <1>1, SpanOfLeaf
<1>3. Lo(q) = lo /\ Hi(a[n]) = hi /\ Hi(q) <= hi
  BY <1>1 DEF Tiles
<1>4. \A k \in 1 .. n : k # n => Hi(a[k]) = Lo(a[k + 1])
  BY DEF Tiles
<1>5. \A k \in 1 .. n : Hi(a[k]) <= hi
  BY DEF Tiles
<1>6. \A k \in 1 .. n - 1 : b[k] = a[k + 1]
  BY <1>1
<1>7. lo = LeafNo(a[1]) /\ lo < hi
  BY <1>2, <1>3
<1> HIDE DEF q, n
<1>8. n = 1 => lo + 1 = hi
  BY <1>2, <1>3 DEF q
<1>9. n # 1 => Lo(b[1]) = lo + 1 /\ Hi(b[n - 1]) = hi
  <2> SUFFICES ASSUME n # 1 PROVE Lo(b[1]) = lo + 1 /\ Hi(b[n - 1]) = hi
    OBVIOUS
  <2>1. 1 \in 1 .. n - 1 /\ n - 1 \in 1 .. n - 1 /\ (n - 1) + 1 = n /\ 1 \in 1 .. n /\ 1 # n
    BY <1>1
  <2>2. b[1] = a[1 + 1] /\ b[n - 1] = a[n] /\ Hi(a[1]) = Lo(a[1 + 1])
    BY <2>1, <1>4, <1>6
  <2> QED  BY <2>2, <1>2, <1>3 DEF q
<1>10. ASSUME NEW k \in 1 .. n - 1
       PROVE  (k # n - 1 => Hi(b[k]) = Lo(b[k + 1])) /\ Hi(b[k]) <= hi
  <2>1. k + 1 \in 1 .. n /\ b[k] = a[k + 1] /\ Hi(a[k + 1]) <= hi
    BY <1>1, <1>5, <1>6
  <2>2. CASE k # n - 1
    <3>1. k + 1 \in 1 .. n - 1 /\ k + 1 # n
      BY <1>1, <2>2
    <3>2. b[k + 1] = a[(k + 1) + 1] /\ Hi(a[k + 1]) = Lo(a[(k + 1) + 1])
      BY <2>1, <3>1, <1>4, <1>6
    <3> QED  BY <2>1, <3>2
  <2> QED  BY <2>1, <2>2
<1>11. Tiles(b, lo + 1, hi)
  <2>1. Len(b) = 0 => lo + 1 = hi
    BY <1>1, <1>8
  <2>2. Len(b) # 0 => Lo(b[1]) = lo + 1 /\ Hi(b[Len(b)]) = hi
    BY <1>1, <1>9
  <2> QED  BY <2>1, <2>2, <1>1, <1>10 DEF Tiles
<1> QED  BY <1>7, <1>11

\* The columns of a stack whose calls are long enough.
LEMMA ColumnType ==
    ASSUME NEW st \in Seq(Seq(Places)), NEW i \in Nat,
           \A k \in 1 .. Len(st) : i \in 1 .. Len(st[k])
    PROVE  /\ Column(st, i) \in Seq(Seq(Side)) /\ Len(Column(st, i)) = Len(st)
           /\ \A k \in 1 .. Len(st) : /\ Column(st, i)[k] = st[k][i].at
                                      /\ st[k][i] \in Places /\ st[k][i].at \in Seq(Side)
<1>1. Len(st) \in Nat /\ \A k \in 1 .. Len(st) : st[k] \in Seq(Places)
  OBVIOUS
<1>2. ASSUME NEW k \in 1 .. Len(st)
      PROVE  st[k][i] \in Places
  BY <1>1
<1>3. \A k \in 1 .. Len(st) : st[k][i].at \in Seq(Side)
  BY <1>2 DEF Places
<1> QED  BY <1>1, <1>2, <1>3 DEF Column

\* A sequence whose head is replaced by two elements, place by place.
LEMMA TwoForOneAt ==
    ASSUME NEW X, NEW s \in Seq(X), Len(s) # 0, NEW a \in X, NEW b \in X
    PROVE  /\ <<a, b>> \o Tail(s) \in Seq(X) /\ Len(<<a, b>> \o Tail(s)) = Len(s) + 1
           /\ (<<a, b>> \o Tail(s))[1] = a /\ (<<a, b>> \o Tail(s))[2] = b
           /\ \A k \in 2 .. Len(s) : (<<a, b>> \o Tail(s))[k + 1] = s[k]
<1> DEFINE t == Tail(s)
           h == <<a, b>>
           u == h \o t
<1>1. t \in Seq(X) /\ Len(t) = Len(s) - 1 /\ Len(t) \in Nat /\ Len(s) \in Nat
      /\ \A k \in 1 .. Len(t) : t[k] = s[k + 1]
  OBVIOUS
<1>2. h \in Seq(X) /\ Len(h) = 2 /\ h[1] = a /\ h[2] = b
  OBVIOUS
<1> HIDE DEF t, h
<1>3. /\ u \in Seq(X) /\ Len(u) = Len(h) + Len(t)
      /\ \A k \in 1 .. Len(u) : u[k] = IF k <= Len(h) THEN h[k] ELSE t[k - Len(h)]
  BY <1>1, <1>2, Appended
<1> HIDE DEF u
<1>4. u[1] = a /\ u[2] = b /\ Len(u) = Len(s) + 1
  BY <1>1, <1>2, <1>3
<1>5. ASSUME NEW k \in 2 .. Len(s)
      PROVE  u[k + 1] = s[k]
  <2>1. k + 1 \in 1 .. Len(u) /\ ~(k + 1 <= Len(h)) /\ (k + 1) - Len(h) = k - 1
        /\ k - 1 \in 1 .. Len(t) /\ (k - 1) + 1 = k
    BY <1>1, <1>2, <1>4
  <2>2. u[k + 1] = t[k - 1]
    BY <1>3, <2>1
  <2>3. t[k - 1] = s[(k - 1) + 1]
    BY <1>1, <2>1
  <2> QED  BY <2>1, <2>2, <2>3
<1> QED BY <1>3, <1>4, <1>5 DEF u, h, t

LEMMA DescendColumn ==
    ASSUME NEW st \in Seq(Seq(Places)), Len(st) # 0, NEW i \in Nat,
           \A k \in 1 .. Len(st) : i \in 1 .. Len(st[k]),
           NEW L \in Seq(Places), NEW R \in Seq(Places),
           Len(L) = Len(st[1]), Len(R) = Len(st[1]),
           Len(st[1][i].at) < Stop,
           L[i].at = Append(st[1][i].at, "L"), R[i].at = Append(st[1][i].at, "R"),
           NEW lo \in Nat, NEW hi \in Nat, Tiles(Column(st, i), lo, hi)
    PROVE  Tiles(Column(<<L, R>> \o Tail(st), i), lo, hi)
<1> DEFINE u == <<L, R>> \o Tail(st)
           a == Column(st, i)
           b == Column(u, i)
<1>1. /\ u \in Seq(Seq(Places)) /\ Len(u) = Len(st) + 1 /\ u[1] = L /\ u[2] = R
      /\ \A k \in 2 .. Len(st) : u[k + 1] = st[k]
  BY TwoForOneAt
<1>2. Len(st) \in Nat /\ 1 \in 1 .. Len(st)
  OBVIOUS
<1> HIDE DEF u
<1>3. ASSUME NEW k \in 1 .. Len(u)
      PROVE  i \in 1 .. Len(u[k])
  <2>1. CASE k = 1 \/ k = 2
    <3>1. u[k] = L \/ u[k] = R
      BY <1>1, <2>1
    <3> QED  BY <3>1, <1>2
  <2>2. CASE k # 1 /\ k # 2
    <3>1. k - 1 \in 2 .. Len(st) /\ (k - 1) + 1 = k /\ k - 1 \in 1 .. Len(st)
      BY <1>1, <1>2, <2>2
    <3> QED  BY <3>1, <1>1
  <2> QED  BY <2>1, <2>2
<1>4. /\ a \in Seq(Seq(Side)) /\ Len(a) = Len(st)
      /\ \A k \in 1 .. Len(st) : a[k] = st[k][i].at
  BY ColumnType
<1>5. /\ b \in Seq(Seq(Side)) /\ Len(b) = Len(u)
      /\ \A k \in 1 .. Len(u) : b[k] = u[k][i].at
  BY <1>1, <1>3, ColumnType
<1> HIDE DEF a, b
<1>6. a[1] = st[1][i].at /\ b[1] = L[i].at /\ b[2] = R[i].at
  <2>1. 1 \in 1 .. Len(u) /\ 2 \in 1 .. Len(u)
    BY <1>1, <1>2
  <2> QED  BY <2>1, <1>1, <1>2, <1>4, <1>5
<1>7. ASSUME NEW k \in 2 .. Len(a)
      PROVE  b[k + 1] = a[k]
  <2>1. k + 1 \in 1 .. Len(u) /\ k \in 1 .. Len(st) /\ k \in 2 .. Len(st)
    BY <1>1, <1>2, <1>4
  <2> QED  BY <2>1, <1>1, <1>4, <1>5
<1>8. Tiles(a, lo, hi)
  BY DEF a
<1>9. Len(a) # 0 /\ Len(a[1]) < Stop /\ Len(b) = Len(a) + 1
      /\ b[1] = Append(a[1], "L") /\ b[2] = Append(a[1], "R")
  BY <1>1, <1>4, <1>5, <1>6
<1>10. Tiles(b, lo, hi)
  BY <1>4, <1>5, <1>7, <1>8, <1>9, TilesDescend
<1> QED  BY <1>10 DEF b, u

LEMMA PopColumn ==
    ASSUME NEW st \in Seq(Seq(Places)), Len(st) # 0, NEW i \in Nat,
           \A k \in 1 .. Len(st) : i \in 1 .. Len(st[k]),
           Len(st[1][i].at) = Stop,
           NEW lo \in Nat, NEW hi \in Nat, Tiles(Column(st, i), lo, hi)
    PROVE  Tiles(Column(Tail(st), i), lo + 1, hi) /\ lo = LeafNo(st[1][i].at) /\ lo < hi
<1> DEFINE u == Tail(st)
           a == Column(st, i)
           b == Column(u, i)
<1>1. /\ u \in Seq(Seq(Places)) /\ Len(u) = Len(st) - 1 /\ Len(st) \in Nat /\ 1 \in 1 .. Len(st)
      /\ \A k \in 1 .. Len(u) : u[k] = st[k + 1]
  OBVIOUS
<1> HIDE DEF u
<1>2. \A k \in 1 .. Len(u) : k + 1 \in 1 .. Len(st) /\ k \in 1 .. Len(st)
  BY <1>1
<1>3. \A k \in 1 .. Len(u) : i \in 1 .. Len(u[k])
  BY <1>1, <1>2
<1>4. /\ a \in Seq(Seq(Side)) /\ Len(a) = Len(st)
      /\ \A k \in 1 .. Len(st) : a[k] = st[k][i].at
  BY ColumnType
<1>5. /\ b \in Seq(Seq(Side)) /\ Len(b) = Len(u)
      /\ \A k \in 1 .. Len(u) : b[k] = u[k][i].at
  BY <1>1, <1>3, ColumnType
<1> HIDE DEF a, b
<1>6. a[1] = st[1][i].at
  BY <1>1, <1>4
<1>7. ASSUME NEW k \in 1 .. Len(b)
      PROVE  b[k] = a[k + 1]
  BY <1>1, <1>2, <1>4, <1>5
<1>8. Tiles(a, lo, hi)
  BY DEF a
<1>9. Len(a) # 0 /\ Len(a[1]) = Stop /\ Len(b) = Len(a) - 1
  BY <1>1, <1>4, <1>5, <1>6
<1>10. Tiles(b, lo + 1, hi) /\ lo = LeafNo(a[1]) /\ lo < hi
  BY <1>4, <1>5, <1>7, <1>8, <1>9, TilesPop
<1> QED  BY <1>6, <1>10 DEF b, u

LEMMA WrittenGrow ==
    ASSUME NEW S, NEW T, S \subseteq T, NEW da, NEW l, NEW j, Written(S, da, l, j)
    PROVE  Written(T, da, l, j)
BY DEF Written

\* The i-th eighth of the leaves.
LEMMA Eighths ==
    ASSUME Stop >= 3
    PROVE  \E w \in Nat : /\ w >= 1 /\ Pow(Stop) = 8 * w /\ 2^(Stop - 3) = w
                          /\ \A i \in 1 .. 9 : FirstLeaf(i) = (i - 1) * w
<1> DEFINE w == Pow(Stop - 3)
<1>1. /\ Stop - 3 \in 0 .. Stop /\ Stop - 3 # Stop /\ (Stop - 3) + 1 = Stop - 2
      /\ Stop - 2 \in 0 .. Stop /\ Stop - 2 # Stop /\ (Stop - 2) + 1 = Stop - 1
      /\ Stop - 1 \in 0 .. Stop /\ Stop - 1 # Stop /\ (Stop - 1) + 1 = Stop
  BY StopType
<1>2. w \in Nat /\ w >= 1
  BY <1>1, PowPositive
<1>3. Pow(Stop - 2) = 2 * w /\ Pow(Stop - 1) = 2 * Pow(Stop - 2) /\ Pow(Stop) = 2 * Pow(Stop - 1)
  BY <1>1, PowDoubles
<1>4. 2^(Stop - 3) = w
  BY DEF Pow
<1>5. \A i \in 1 .. 9 : FirstLeaf(i) = (i - 1) * w
  BY <1>4 DEF FirstLeaf
<1> HIDE DEF w
<1>6. Pow(Stop) = 8 * w
  BY <1>2, <1>3
<1> QED  BY <1>2, <1>4, <1>5, <1>6

\* A step of one server.
LEMMA FullBecomes ==
    ASSUME IInv, FullInv, NEW p \in Party,
           NEW f, NEW st, NEW S, NEW da \in Seq(Block), NEW pt \in Seq(Nat),
           FullOf(f, st, da, pt, S, last),
           fn' = [fn EXCEPT ![p] = f], stack' = [stack EXCEPT ![p] = st],
           data' = [data EXCEPT ![p] = da], ptr' = [ptr EXCEPT ![p] = pt],
           seen' = [seen EXCEPT ![p] = S], UNCHANGED genvars
    PROVE  FullInv'
<1>1. /\ fn \in [Party -> Names] /\ stack \in [Party -> Seq(Seq(Places))]
      /\ seen \in [Party -> SUBSET Places]
      /\ data \in [Party -> Seq(Block)] /\ ptr \in [Party -> Seq(Nat)]
  BY DEF IInv, CallInv, SeenInv, FullInv
<1>2. data' \in [Party -> Seq(Block)] /\ ptr' \in [Party -> Seq(Nat)]
  BY <1>1
<1>3. last' = last
  BY DEF genvars
<1>4. ASSUME NEW q \in Party
      PROVE  FullOf(fn'[q], stack'[q], data'[q], ptr'[q], seen'[q], last')
  <2>1. CASE q = p
    <3>1. /\ fn'[q] = f /\ stack'[q] = st /\ data'[q] = da /\ ptr'[q] = pt /\ seen'[q] = S
      BY <1>1, <2>1
    <3> QED BY <3>1, <1>3
  <2>2. CASE q # p
    <3>1. /\ fn'[q] = fn[q] /\ stack'[q] = stack[q] /\ data'[q] = data[q] /\ ptr'[q] = ptr[q]
          /\ seen'[q] = seen[q]
      BY <1>1, <2>2
    <3>2. FullOf(fn[q], stack[q], data[q], ptr[q], seen[q], last)
      BY DEF FullInv
    <3> QED BY <3>1, <3>2, <1>3
  <2> QED BY <2>1, <2>2
<1> QED BY <1>2, <1>4 DEF FullInv

LEMMA FullStands ==
    ASSUME IInv, FullInv, NEW p \in Party
    PROVE  /\ data[p] \in Seq(Block) /\ ptr[p] \in Seq(Nat)
           /\ data = [data EXCEPT ![p] = data[p]] /\ ptr = [ptr EXCEPT ![p] = ptr[p]]
           /\ FullOf(fn[p], stack[p], data[p], ptr[p], seen[p], last)
BY DEF FullInv

LEMMA ChildrenAt ==
    ASSUME GenInv, pc = "generated", NEW S \in SUBSET Places, NEW c \in Calls(S),
           Len(c[1].at) < Stop, NEW d \in Side
    PROVE  /\ Children(c, d) \in Seq(Places) /\ Len(Children(c, d)) = Len(c)
           /\ \A i \in 1 .. Len(c) : /\ Children(c, d)[i].at = Append(c[i].at, d)
                                     /\ Len(c[i].at) < Stop
<1>1. c \in Seq(S) /\ Len(c) \in Nat /\ DOMAIN c = 1 .. Len(c)
      /\ \A i \in 1 .. Len(c) : c[i] \in S /\ Len(c[i].at) = Len(c[1].at)
  BY DEF Calls
<1>2. Children(c, d) = [i \in 1 .. Len(c) |-> Child(c[i], d)]
  BY <1>1 DEF Children
<1>3. ASSUME NEW i \in 1 .. Len(c)
      PROVE  /\ Child(c[i], d) \in Places /\ Child(c[i], d).at = Append(c[i].at, d)
             /\ Len(c[i].at) < Stop
  <2>1. c[i] \in Places /\ Len(c[i].at) < Stop
    BY <1>1
  <2> QED  BY <2>1, ChildType
<1>4. Children(c, d) \in Seq(Places) /\ Len(Children(c, d)) = Len(c)
  BY <1>1, <1>2, <1>3
<1> QED  BY <1>2, <1>3, <1>4

LEMMA LeafType ==
    ASSUME GenInv, NEW n \in Node
    PROVE  LeafOf(last, n) \in Block
<1>1. Convert[n.s] \in Block /\ last \in Block
  BY ConvertType DEF GenInv
<1>2. last ## Convert[n.s] \in Block
  BY <1>1, XorType DEF Block
<1> QED  BY <1>1, <1>2 DEF LeafOf

\* The calls that a full evaluation has not made.
LEMMA StackOf ==
    ASSUME IInv, NEW p \in Party, fn[p] \in {"EvalFull", "EvalFull8"}
    PROVE  /\ pc = "generated" /\ stack[p] \in Seq(Seq(Places)) /\ seen[p] \in SUBSET Places
           /\ \A k \in 1 .. Len(stack[p]) :
                 /\ stack[p][k] \in Calls(seen[p]) /\ Len(stack[p][k]) >= 1
                 /\ \A i \in 1 .. Len(stack[p][k]) :
                       stack[p][k][i] \in seen[p] /\ stack[p][k][i] \in Places
<1>1. CallOf(fn[p], arg[p], here[p], ret[p], stack[p], seen[p], last)
      /\ pc = "generated" /\ stack[p] \in Seq(Seq(Places)) /\ seen[p] \in SUBSET Places
  BY StandsExcept
<1>2. \A k \in 1 .. Len(stack[p]) : stack[p][k] \in Calls(seen[p])
  BY <1>1 DEF CallOf
<1>3. ASSUME NEW k \in 1 .. Len(stack[p])
      PROVE  /\ Len(stack[p][k]) >= 1
             /\ \A i \in 1 .. Len(stack[p][k]) :
                   stack[p][k][i] \in seen[p] /\ stack[p][k][i] \in Places
  <2>1. stack[p][k] \in Seq(seen[p]) /\ Len(stack[p][k]) >= 1
    BY <1>2 DEF Calls
  <2> QED  BY <1>1, <2>1
<1> QED  BY <1>1, <1>2, <1>3

LEMMA DescendFull ==
    ASSUME IInv, FullInv, NEW p \in Party, fn[p] \in {"EvalFull", "EvalFull8"},
           stack[p] # <<>>, Descend(p), UNCHANGED <<genvars, fn, data, ptr>>
    PROVE  FullInv'
<1> DEFINE st == stack[p]
           call == Head(st)
           L == Children(call, "L")
           R == Children(call, "R")
           u == <<L, R>> \o Tail(st)
           S == (seen[p] \cup Range(L)) \cup Range(R)
<1>1. /\ Len(call[1].at) < Stop
      /\ stack' = [stack EXCEPT ![p] = u] /\ seen' = [seen EXCEPT ![p] = S]
  BY DEF Descend
<1>2. /\ pc = "generated" /\ st \in Seq(Seq(Places)) /\ seen[p] \in SUBSET Places
      /\ \A k \in 1 .. Len(st) : st[k] \in Calls(seen[p]) /\ Len(st[k]) >= 1
  BY StackOf
<1>3. Len(st) \in Nat /\ Len(st) # 0 /\ 1 \in 1 .. Len(st) /\ call = st[1]
  BY <1>2
<1>4. /\ L \in Seq(Places) /\ R \in Seq(Places) /\ Len(L) = Len(call) /\ Len(R) = Len(call)
      /\ \A i \in 1 .. Len(call) : /\ L[i].at = Append(call[i].at, "L")
                                   /\ R[i].at = Append(call[i].at, "R")
                                   /\ Len(call[i].at) < Stop
  <2>1. call \in Calls(seen[p]) /\ "L" \in Side /\ "R" \in Side
    BY <1>2, <1>3 DEF Side
  <2> HIDE DEF call
  <2> QED  BY <1>1, <1>2, <2>1, ChildrenAt DEF IInv
<1>5. /\ data[p] \in Seq(Block) /\ ptr[p] \in Seq(Nat)
      /\ data' = [data EXCEPT ![p] = data[p]] /\ ptr' = [ptr EXCEPT ![p] = ptr[p]]
      /\ fn' = [fn EXCEPT ![p] = fn[p]]
      /\ FullOf(fn[p], st, data[p], ptr[p], seen[p], last)
  BY FullStands, StandsExcept
<1>6. seen[p] \subseteq S
  OBVIOUS
<1> HIDE DEF call, L, R, S
<1>7. /\ Len(u) = Len(st) + 1 /\ u[1] = L /\ u[2] = R
      /\ \A k \in 2 .. Len(st) : u[k + 1] = st[k]
  <2>1. L \in Seq(Places) /\ R \in Seq(Places)
    BY <1>4
  <2>2. st \in Seq(Seq(Places)) /\ Len(st) # 0
    BY <1>2, <1>3
  <2> HIDE DEF st
  <2> DEFINE w == <<L, R>> \o Tail(st)
  <2>3. /\ Len(w) = Len(st) + 1 /\ w[1] = L /\ w[2] = R
        /\ \A k \in 2 .. Len(st) : w[k + 1] = st[k]
    BY <2>1, <2>2, TwoForOneAt
  <2>4. u = w
    OBVIOUS
  <2> HIDE DEF u, w
  <2> QED  BY <2>3, <2>4
<1>8. ASSUME NEW i \in Nat, \A k \in 1 .. Len(st) : i \in 1 .. Len(st[k]),
             NEW lo \in Nat, NEW hi \in Nat, Tiles(Column(st, i), lo, hi)
      PROVE  Tiles(Column(u, i), lo, hi)
  <2>1. i \in 1 .. Len(call)
    BY <1>3, <1>8
  <2>2. /\ Len(L) = Len(st[1]) /\ Len(R) = Len(st[1]) /\ Len(st[1][i].at) < Stop
        /\ L[i].at = Append(st[1][i].at, "L") /\ R[i].at = Append(st[1][i].at, "R")
    BY <1>3, <1>4, <2>1
  <2> HIDE DEF st
  <2> QED  BY <1>2, <1>3, <1>4, <1>8, <2>2, DescendColumn
<1> HIDE DEF u
<1>9. FullOf(fn[p], u, data[p], ptr[p], S, last)
  <2> DEFINE da == data[p]
             pt == ptr[p]
  <2>1. CASE fn[p] = "EvalFull"
    <3>1. Tiles(Column(st, 1), Len(da), Pow(Stop)) /\ \A j \in 0 .. Len(da) - 1 : Written(seen[p], da, last, j)
      BY <1>5, <2>1 DEF FullOf
    <3>2. Len(da) \in Nat /\ Pow(Stop) \in Nat /\ \A k \in 1 .. Len(st) : 1 \in 1 .. Len(st[k])
      BY <1>2, <1>5, PowDoubles, StopType
    <3>3. Tiles(Column(u, 1), Len(da), Pow(Stop))
      BY <1>8, <3>1, <3>2
    <3>4. \A j \in 0 .. Len(da) - 1 : Written(S, da, last, j)
      BY <1>6, <3>1, WrittenGrow
    <3> QED  BY <2>1, <3>3, <3>4 DEF FullOf
  <2>2. CASE fn[p] = "EvalFull8"
    <3>1. /\ Stop >= 3 /\ Len(da) = Pow(Stop) /\ pt \in [1 .. 8 -> Nat]
          /\ \A k \in 1 .. Len(st) : Len(st[k]) = 8
          /\ \A i \in 1 .. 8 :
                /\ FirstLeaf(i) <= pt[i] /\ pt[i] <= FirstLeaf(i + 1)
                /\ Tiles(Column(st, i), pt[i], FirstLeaf(i + 1))
                /\ \A j \in FirstLeaf(i) .. pt[i] - 1 : Written(seen[p], da, last, j)
      BY <1>5, <2>2 DEF FullOf
    <3>2. \A i \in 1 .. 8 : FirstLeaf(i + 1) \in Nat
      <4>1. PICK w \in Nat : \A i \in 1 .. 9 : FirstLeaf(i) = (i - 1) * w
        BY <3>1, Eighths
      <4>2. \A i \in 1 .. 8 : i + 1 \in 1 .. 9 /\ (i + 1) - 1 \in Nat
        OBVIOUS
      <4>3. \A i \in 1 .. 8 : ((i + 1) - 1) * w \in Nat
        BY <4>2
      <4> QED  BY <4>1, <4>2, <4>3
    <3>3. ASSUME NEW i \in 1 .. 8
          PROVE  Tiles(Column(u, i), pt[i], FirstLeaf(i + 1))
      <4>1. \A k \in 1 .. Len(st) : i \in 1 .. Len(st[k])
        BY <3>1
      <4>2. i \in Nat /\ pt[i] \in Nat /\ FirstLeaf(i + 1) \in Nat
            /\ Tiles(Column(st, i), pt[i], FirstLeaf(i + 1))
        <5> HIDE DEF pt, st
        <5>1. pt[i] \in Nat
          BY <3>1
        <5>2. Tiles(Column(st, i), pt[i], FirstLeaf(i + 1))
          BY <3>1
        <5> QED  BY <3>2, <5>1, <5>2, SMTT(20)
      <4> QED  BY <1>8, <4>1, <4>2
    <3>4. \A k \in 1 .. Len(u) : Len(u[k]) = 8
      <4> TAKE k \in 1 .. Len(u)
      <4>1. CASE k = 1 \/ k = 2
        <5>1. u[k] = L \/ u[k] = R
          BY <1>7, <4>1
        <5> QED  BY <5>1, <1>3, <1>4, <3>1
      <4>2. CASE k # 1 /\ k # 2
        <5>1. k - 1 \in 2 .. Len(st) /\ k - 1 \in 1 .. Len(st) /\ (k - 1) + 1 = k
          BY <1>3, <1>7, <4>2
        <5>2. u[k] = st[k - 1]
          BY <1>7, <5>1
        <5>3. Len(st[k - 1]) = 8
          BY <3>1, <5>1
        <5> QED  BY <5>2, <5>3
      <4> QED  BY <4>1, <4>2
    <3>5. \A i \in 1 .. 8 : \A j \in FirstLeaf(i) .. pt[i] - 1 : Written(S, da, last, j)
      BY <1>6, <3>1, WrittenGrow
    <3> QED  BY <2>2, <3>1, <3>3, <3>4, <3>5 DEF FullOf
  <2> QED  BY <2>1, <2>2
<1>10. UNCHANGED genvars /\ stack' = [stack EXCEPT ![p] = u] /\ seen' = [seen EXCEPT ![p] = S]
  BY <1>1
<1> HIDE DEF st
<1> QED  BY <1>5, <1>9, <1>10, FullBecomes

LEMMA LeafFull ==
    ASSUME IInv, FullInv, NEW p \in Party, EvalFullLeaf(p)
    PROVE  FullInv'
<1> DEFINE st == stack[p]
           pl == st[1][1]
           da == data[p]
           x  == LeafOf(last, pl.node)
           db == Append(da, x)
<1>1. /\ fn[p] = "EvalFull" /\ st # <<>> /\ Len(Head(st)[1].at) = Stop
      /\ data' = [data EXCEPT ![p] = Append(da, LeafOf(last, Head(st)[1].node))]
      /\ stack' = [stack EXCEPT ![p] = Tail(st)]
      /\ UNCHANGED <<genvars, fn, ptr, seen>>
  BY DEF EvalFullLeaf, Leaf, LeafOf
<1>2. /\ st \in Seq(Seq(Places))
      /\ \A k \in 1 .. Len(st) : Len(st[k]) >= 1
      /\ \A k \in 1 .. Len(st) : \A i \in 1 .. Len(st[k]) :
             st[k][i] \in seen[p] /\ st[k][i] \in Places
  BY <1>1, StackOf
<1>3. Len(st) \in Nat /\ Len(st) # 0 /\ 1 \in 1 .. Len(st) /\ Head(st) = st[1] /\ 1 \in 1 .. Len(st[1])
      /\ \A k \in 1 .. Len(st) : 1 \in 1 .. Len(st[k])
  BY <1>1, <1>2
<1>4. pl \in seen[p] /\ pl \in Places /\ pl.node \in Node /\ Len(pl.at) = Stop
  <2>1. pl \in seen[p] /\ pl \in Places
    BY <1>2, <1>3
  <2> QED  BY <1>1, <1>3, <2>1 DEF Places
<1>5. /\ da \in Seq(Block) /\ ptr[p] \in Seq(Nat)
      /\ ptr' = [ptr EXCEPT ![p] = ptr[p]] /\ fn' = [fn EXCEPT ![p] = fn[p]]
      /\ seen' = [seen EXCEPT ![p] = seen[p]]
      /\ FullOf(fn[p], st, da, ptr[p], seen[p], last)
  BY <1>1, FullStands, StandsExcept
<1>6. Tiles(Column(st, 1), Len(da), Pow(Stop)) /\ \A j \in 0 .. Len(da) - 1 : Written(seen[p], da, last, j)
  BY <1>1, <1>5 DEF FullOf
<1>7. x \in Block
  BY <1>4, LeafType DEF IInv
<1> HIDE DEF pl, x
<1>8. /\ db \in Seq(Block) /\ Len(db) = Len(da) + 1 /\ db[Len(da) + 1] = x
      /\ \A j \in 1 .. Len(da) : db[j] = da[j]
  BY <1>5, <1>7
<1>9. Len(da) \in Nat /\ Pow(Stop) \in Nat
  BY <1>5, PowDoubles, StopType
<1>10. Tiles(Column(Tail(st), 1), Len(da) + 1, Pow(Stop)) /\ Len(da) = LeafNo(pl.at)
  <2>1. Len(st[1][1].at) = Stop
    BY <1>4 DEF pl
  <2> HIDE DEF st, da
  <2> QED  BY <1>2, <1>3, <1>6, <1>9, <2>1, PopColumn DEF pl
<1> HIDE DEF db
<1>11. ASSUME NEW j \in 0 .. Len(db) - 1
       PROVE  Written(seen[p], db, last, j)
  <2>1. CASE j = Len(da)
    <3>1. db[j + 1] = LeafOf(last, pl.node) /\ LeafNo(pl.at) = j
      BY <2>1, <1>8, <1>10 DEF x
    <3> QED  BY <1>4, <3>1 DEF Written
  <2>2. CASE j # Len(da)
    <3>1. j \in 0 .. Len(da) - 1 /\ j + 1 \in 1 .. Len(da)
      BY <1>8, <1>9, <2>2
    <3>2. Written(seen[p], da, last, j) /\ db[j + 1] = da[j + 1]
      BY <1>6, <1>8, <3>1
    <3> QED  BY <3>2 DEF Written
  <2> QED  BY <2>1, <2>2
<1>12. FullOf("EvalFull", Tail(st), db, ptr[p], seen[p], last)
  BY <1>8, <1>10, <1>11 DEF FullOf
<1>13. UNCHANGED genvars /\ stack' = [stack EXCEPT ![p] = Tail(st)]
       /\ data' = [data EXCEPT ![p] = db] /\ fn' = [fn EXCEPT ![p] = "EvalFull"]
  BY <1>1, <1>3, <1>5 DEF db, x, pl
<1> HIDE DEF st, da
<1> QED  BY <1>5, <1>8, <1>12, <1>13, FullBecomes

LEMMA Distributes ==
    ASSUME NEW a \in Nat, NEW b \in Nat, NEW w \in Nat
    PROVE  (a + b) * w = a * w + b * w /\ a * w \in Nat /\ b * w \in Nat
OBVIOUS

\* Two eighths have no leaf in common.
LEMMA EighthOf ==
    ASSUME NEW w \in Nat, NEW i \in 1 .. 8, NEW k \in 1 .. 8, NEW x \in Nat,
           (i - 1) * w <= x, x < ((i + 1) - 1) * w, (k - 1) * w <= x, x < ((k + 1) - 1) * w
    PROVE  i = k
<1>1. ASSUME NEW m \in 1 .. 8, NEW n \in 1 .. 8, m < n
      PROVE  ((m + 1) - 1) * w <= (n - 1) * w
  <2>1. m \in Nat /\ n - 1 \in Nat /\ m <= n - 1 /\ (m + 1) - 1 = m
    BY <1>1
  <2>2. PICK d \in Nat : n - 1 = m + d
    BY <2>1
  <2>3. (m + d) * w = m * w + d * w /\ d * w \in Nat /\ m * w \in Nat
    BY <2>1, Distributes
  <2>4. PICK u \in Nat, v \in Nat : u = m * w /\ v = d * w
    BY <2>3
  <2> QED  BY <2>1, <2>2, <2>3, <2>4
<1>2. (i - 1) * w \in Nat /\ (k - 1) * w \in Nat
      /\ ((i + 1) - 1) * w \in Nat /\ ((k + 1) - 1) * w \in Nat
  OBVIOUS
<1>3. ~(i < k)
  BY <1>1, <1>2
<1>4. ~(k < i)
  BY <1>1, <1>2
<1> QED  BY <1>3, <1>4

LEMMA Leaf8Full ==
    ASSUME IInv, FullInv, NEW p \in Party, EvalFull8Leaf(p)
    PROVE  FullInv'
<1> DEFINE st == stack[p]
           call == st[1]
           da == data[p]
           pt == ptr[p]
           At(j, i) == pt[i] + 1 = j
           db == [j \in DOMAIN da |->
                     IF \E i \in 1 .. 8 : At(j, i)
                     THEN LeafOf(last, call[CHOOSE i \in 1 .. 8 : At(j, i)].node)
                     ELSE da[j]]
           pu == [i \in 1 .. 8 |-> pt[i] + 1]
<1>1. /\ fn[p] = "EvalFull8" /\ st # <<>> /\ Len(Head(st)[1].at) = Stop
      /\ stack' = [stack EXCEPT ![p] = Tail(st)]
      /\ UNCHANGED <<genvars, fn, seen>>
  BY DEF EvalFull8Leaf
<1>2. /\ st \in Seq(Seq(Places))
      /\ \A k \in 1 .. Len(st) : st[k] \in Calls(seen[p])
      /\ \A k \in 1 .. Len(st) : \A i \in 1 .. Len(st[k]) :
             st[k][i] \in seen[p] /\ st[k][i] \in Places
  BY <1>1, StackOf
<1>3. Len(st) \in Nat /\ Len(st) # 0 /\ 1 \in 1 .. Len(st) /\ Head(st) = call
  BY <1>1, <1>2
<1>4. /\ da \in Seq(Block) /\ pt \in Seq(Nat) /\ pc = "generated"
      /\ fn' = [fn EXCEPT ![p] = fn[p]] /\ seen' = [seen EXCEPT ![p] = seen[p]]
      /\ FullOf(fn[p], st, da, pt, seen[p], last)
  BY <1>1, FullStands, StandsExcept
<1>5. /\ Stop >= 3 /\ Len(da) = Pow(Stop) /\ pt \in [1 .. 8 -> Nat]
      /\ \A k \in 1 .. Len(st) : Len(st[k]) = 8
      /\ \A i \in 1 .. 8 :
            /\ FirstLeaf(i) <= pt[i] /\ pt[i] <= FirstLeaf(i + 1)
            /\ Tiles(Column(st, i), pt[i], FirstLeaf(i + 1))
            /\ \A j \in FirstLeaf(i) .. pt[i] - 1 : Written(seen[p], da, last, j)
  BY <1>1, <1>4 DEF FullOf
<1>6. data' = [data EXCEPT ![p] = db] /\ ptr' = [ptr EXCEPT ![p] = pu]
  BY <1>1, <1>3 DEF EvalFull8Leaf, Leaf, LeafOf
<1> HIDE DEF st, da, pt
<1>7. PICK w \in Nat : /\ w >= 1 /\ Pow(Stop) = 8 * w
                       /\ \A i \in 1 .. 9 : FirstLeaf(i) = (i - 1) * w
  BY <1>5, Eighths
<1>8. ASSUME NEW i \in 1 .. 8
      PROVE  /\ FirstLeaf(i) = (i - 1) * w /\ FirstLeaf(i + 1) = ((i + 1) - 1) * w
             /\ FirstLeaf(i) \in Nat /\ FirstLeaf(i + 1) \in Nat
             /\ FirstLeaf(i + 1) <= Pow(Stop)
  <2>1. i \in 1 .. 9 /\ i + 1 \in 1 .. 9 /\ i - 1 \in Nat /\ (i + 1) - 1 = i /\ 8 - i \in Nat
    OBVIOUS
  <2>2. FirstLeaf(i) = (i - 1) * w /\ FirstLeaf(i + 1) = ((i + 1) - 1) * w
    BY <1>7, <2>1
  <2>3. (i - 1) * w \in Nat /\ i * w \in Nat /\ (8 - i) * w \in Nat /\ i * w + (8 - i) * w = 8 * w
    BY <2>1
  <2> QED  BY <1>7, <2>1, <2>2, <2>3
<1>9. ASSUME NEW i \in 1 .. 8
      PROVE  /\ call[i] \in seen[p] /\ call[i].node \in Node /\ Len(call[i].at) = Stop
  <2>1. i \in 1 .. Len(call) /\ 1 \in 1 .. Len(call)
    <3>1. Len(call) = 8
      BY <1>3, <1>5
    <3> HIDE DEF call
    <3> QED  BY <3>1
  <2>2. call[i] \in seen[p] /\ call[i] \in Places
    BY <1>2, <1>3, <2>1
  <2>3. Len(call[i].at) = Len(call[1].at)
    BY <1>2, <1>3, <2>1 DEF Calls
  <2>4. Len(call[1].at) = Stop
    BY <1>1, <1>3
  <2> HIDE DEF call
  <2>5. call[i].node \in Node
    BY <2>2 DEF Places
  <2> QED  BY <2>2, <2>3, <2>4, <2>5
<1>10. ASSUME NEW i \in 1 .. 8
       PROVE  /\ Tiles(Column(Tail(st), i), pt[i] + 1, FirstLeaf(i + 1))
              /\ pt[i] = LeafNo(call[i].at) /\ pt[i] < FirstLeaf(i + 1)
              /\ FirstLeaf(i) <= pt[i]
  <2>1. \A k \in 1 .. Len(st) : i \in 1 .. Len(st[k])
    BY <1>5
  <2>2. pt[i] \in Nat /\ FirstLeaf(i + 1) \in Nat
    BY <1>5, <1>8
  <2>3. Tiles(Column(st, i), pt[i], FirstLeaf(i + 1)) /\ FirstLeaf(i) <= pt[i]
    BY <1>5
  <2>4. Len(st[1][i].at) = Stop /\ i \in Nat
    BY <1>9
  <2> HIDE DEF call
  <2>5. Tiles(Column(Tail(st), i), pt[i] + 1, FirstLeaf(i + 1)) /\ pt[i] = LeafNo(st[1][i].at)
        /\ pt[i] < FirstLeaf(i + 1)
    BY <1>2, <1>3, <2>1, <2>2, <2>3, <2>4, PopColumn
  <2> QED  BY <2>3, <2>5 DEF call
\* A leaf that is one of two eighths' is of one eighth.
<1>11. ASSUME NEW i \in 1 .. 8, NEW k \in 1 .. 8, NEW x \in Nat,
              FirstLeaf(i) <= x, x < FirstLeaf(i + 1), FirstLeaf(k) <= x, x < FirstLeaf(k + 1)
       PROVE  i = k
  BY <1>8, <1>11, EighthOf
<1>12. ASSUME NEW i \in 1 .. 8
       PROVE  db[pt[i] + 1] = LeafOf(last, call[i].node)
  <2> DEFINE j == pt[i] + 1
  <2>1. pt[i] \in Nat /\ j \in DOMAIN da
    <3>1. pt[i] \in Nat /\ pt[i] < FirstLeaf(i + 1) /\ FirstLeaf(i + 1) \in Nat
          /\ FirstLeaf(i + 1) <= Pow(Stop) /\ Pow(Stop) \in Nat
      <4>1. pt[i] \in Nat
        BY <1>5
      <4>2. Pow(Stop) \in Nat
        BY <1>7
      <4> QED  BY <4>1, <4>2, <1>8, <1>10
    <3>2. DOMAIN da = 1 .. Pow(Stop)
      BY <1>4, <1>5
    <3> QED  BY <3>1, <3>2
  <2>2. At(j, i)
    OBVIOUS
  <2>3. \A k \in 1 .. 8 : At(j, k) => k = i
    <3> TAKE k \in 1 .. 8
    <3>1. pt[k] \in Nat /\ pt[i] \in Nat
      BY <1>5
    <3>2. At(j, k) => pt[k] = pt[i]
      BY <3>1
    <3> QED  BY <3>1, <3>2, <1>10, <1>11
  <2>4. (CHOOSE k \in 1 .. 8 : At(j, k)) = i
    <3> HIDE DEF j, At
    <3> QED  BY <2>2, <2>3
  <2>5. db[j] = LeafOf(last, call[CHOOSE k \in 1 .. 8 : At(j, k)].node)
    <3> HIDE DEF j, At, call
    <3> QED  BY <2>1, <2>2
  <2> HIDE DEF j, db, At, call
  <2>6. db[j] = LeafOf(last, call[i].node)
    BY <2>4, <2>5
  <2> QED  BY <2>6 DEF j
<1>13. ASSUME NEW j \in Nat, j + 1 \in DOMAIN da, \A i \in 1 .. 8 : pt[i] # j
       PROVE  db[j + 1] = da[j + 1]
  <2>1. \A i \in 1 .. 8 : ~At(j + 1, i)
    <3> TAKE i \in 1 .. 8
    <3>1. pt[i] \in Nat /\ pt[i] # j
      BY <1>5, <1>13
    <3> QED  BY <3>1
  <2> HIDE DEF At, call
  <2> QED  BY <1>13, <2>1
<1>14. db \in Seq(Block) /\ Len(db) = Len(da)
  <2>1. ASSUME NEW j \in DOMAIN da
        PROVE  db[j] \in Block
    <3>1. CASE \E i \in 1 .. 8 : At(j, i)
      <4>1. PICK i \in 1 .. 8 : At(j, i)
        BY <3>1
      <4>2. db[j] = LeafOf(last, call[i].node)
        <5>1. j = pt[i] + 1
          BY <4>1
        <5> HIDE DEF db, call
        <5> QED  BY <1>12, <5>1
      <4> HIDE DEF db
      <4> QED  BY <1>9, <4>2, LeafType DEF IInv
    <3>2. CASE ~\E i \in 1 .. 8 : At(j, i)
      <4>1. db[j] = da[j]
        BY <3>2
      <4>2. da[j] \in Block
        BY <1>4
      <4> QED  BY <4>1, <4>2
    <3> QED  BY <3>1, <3>2
  <2>2. DOMAIN db = DOMAIN da /\ DOMAIN da = 1 .. Len(da) /\ Len(da) \in Nat
    BY <1>4
  <2>3. db = [j \in 1 .. Len(da) |-> db[j]]
    BY <2>2
  <2> HIDE DEF db
  <2>4. \A j \in 1 .. Len(da) : db[j] \in Block
    BY <2>1, <2>2
  <2> QED  BY <2>2, <2>3, <2>4
<1>15. pu \in Seq(Nat) /\ pu \in [1 .. 8 -> Nat] /\ \A i \in 1 .. 8 : pu[i] = pt[i] + 1
  <2>1. \A i \in 1 .. 8 : pt[i] + 1 \in Nat
    BY <1>5, SMTT(20)
  <2> QED  BY <2>1
<1> HIDE DEF db, pu, At, call
<1>16. ASSUME NEW i \in 1 .. 8
       PROVE  /\ FirstLeaf(i) <= pu[i] /\ pu[i] <= FirstLeaf(i + 1)
              /\ Tiles(Column(Tail(st), i), pu[i], FirstLeaf(i + 1))
              /\ \A j \in FirstLeaf(i) .. pu[i] - 1 : Written(seen[p], db, last, j)
  <2>1. /\ pt[i] \in Nat /\ FirstLeaf(i) \in Nat /\ FirstLeaf(i + 1) \in Nat /\ pu[i] = pt[i] + 1
        /\ FirstLeaf(i) <= pt[i] /\ pt[i] < FirstLeaf(i + 1) /\ FirstLeaf(i + 1) <= Pow(Stop)
        /\ Pow(Stop) \in Nat
    <3>1. pt[i] \in Nat
      BY <1>5
    <3>2. Pow(Stop) \in Nat
      BY <1>7
    <3>3. pu[i] = pt[i] + 1
      BY <1>15
    <3> QED  BY <3>1, <3>2, <3>3, <1>8, <1>10
  <2>2. FirstLeaf(i) <= pu[i] /\ pu[i] <= FirstLeaf(i + 1)
    BY <2>1
  <2>3. Tiles(Column(Tail(st), i), pu[i], FirstLeaf(i + 1))
    BY <1>10, <2>1
  <2>4. ASSUME NEW j \in FirstLeaf(i) .. pu[i] - 1
        PROVE  Written(seen[p], db, last, j)
    <3>1. CASE j = pt[i]
      <4>1. db[j + 1] = LeafOf(last, call[i].node) /\ LeafNo(call[i].at) = j
        BY <1>10, <1>12, <3>1
      <4> QED  BY <1>9, <4>1 DEF Written
    <3>2. CASE j # pt[i]
      <4>1. j \in FirstLeaf(i) .. pt[i] - 1 /\ j \in Nat /\ j < FirstLeaf(i + 1) /\ FirstLeaf(i) <= j
            /\ j + 1 \in 1 .. Pow(Stop)
        BY <2>1, <3>2
      <4>2. Written(seen[p], da, last, j)
        BY <1>5, <4>1
      <4>3. \A k \in 1 .. 8 : pt[k] # j
        BY <1>10, <1>11, <3>2, <4>1
      <4>4. db[j + 1] = da[j + 1]
        BY <1>4, <1>5, <1>13, <4>1, <4>3
      <4> QED  BY <4>2, <4>4 DEF Written
    <3> QED  BY <3>1, <3>2
  <2> QED  BY <2>2, <2>3, <2>4
<1>17. \A k \in 1 .. Len(Tail(st)) : Len(Tail(st)[k]) = 8
  <2>1. Len(Tail(st)) = Len(st) - 1 /\ \A k \in 1 .. Len(st) - 1 : Tail(st)[k] = st[k + 1]
    BY <1>2, <1>3
  <2>2. \A k \in 1 .. Len(st) - 1 : k + 1 \in 1 .. Len(st)
    BY <1>3
  <2> QED  BY <1>5, <2>1, <2>2
<1>18. FullOf("EvalFull8", Tail(st), db, pu, seen[p], last)
  BY <1>5, <1>14, <1>15, <1>16, <1>17 DEF FullOf
<1>19. UNCHANGED genvars /\ stack' = [stack EXCEPT ![p] = Tail(st)]
       /\ fn' = [fn EXCEPT ![p] = "EvalFull8"]
  BY <1>1, <1>4
<1> QED  BY <1>4, <1>6, <1>14, <1>15, <1>18, <1>19, FullBecomes

LEMMA SeqOfFunction ==
    ASSUME NEW X, NEW n \in Nat, NEW f \in [1 .. n -> X]
    PROVE  f \in Seq(X) /\ Len(f) = n
OBVIOUS

LEMMA CallFull ==
    ASSUME IInv, FullInv, NEW p \in Party, EvalFullCall(p)
    PROVE  FullInv'
<1> DEFINE r == Place(<<>>, root[p])
           st == << <<r>> >>
<1>1. /\ fn[p] = "none" /\ fn' = [fn EXCEPT ![p] = "EvalFull"]
      /\ stack' = [stack EXCEPT ![p] = st] /\ seen' = [seen EXCEPT ![p] = {r}]
      /\ UNCHANGED <<genvars, data, ptr>>
  BY DEF EvalFullCall
<1>2. /\ data[p] \in Seq(Block) /\ ptr[p] \in Seq(Nat) /\ data[p] = <<>>
      /\ data' = [data EXCEPT ![p] = data[p]] /\ ptr' = [ptr EXCEPT ![p] = ptr[p]]
  BY <1>1, FullStands DEF FullOf
<1>3. Column(st, 1) = << <<>> >>
  <2>1. r.at = <<>>
    BY DEF Place
  <2> HIDE DEF r
  <2> QED  BY <2>1 DEF Column
<1> HIDE DEF st, r
<1>4. Tiles(Column(st, 1), Len(data[p]), Pow(Stop)) /\ Len(data[p]) = 0
  BY <1>2, <1>3, TilesBegin
<1>5. FullOf("EvalFull", st, data[p], ptr[p], {r}, last)
  BY <1>4 DEF FullOf
<1>6. UNCHANGED genvars
  BY <1>1
<1> QED  BY <1>1, <1>2, <1>5, <1>6, FullBecomes

LEMMA ReturnFull ==
    ASSUME IInv, FullInv, NEW p \in Party, EvalFullReturn(p) \/ EvalFull8Return(p)
    PROVE  FullInv'
<1>1. PICK f \in {"EvalFull", "EvalFull8"}, g \in {"EvalFull returned", "EvalFull8 returned"} :
          /\ fn[p] = f /\ stack[p] = <<>> /\ fn' = [fn EXCEPT ![p] = g]
          /\ f = "EvalFull" <=> g = "EvalFull returned"
          /\ UNCHANGED <<genvars, stack, data, ptr, seen>>
  BY DEF EvalFullReturn, EvalFull8Return
<1>2. /\ data[p] \in Seq(Block) /\ ptr[p] \in Seq(Nat)
      /\ data' = [data EXCEPT ![p] = data[p]] /\ ptr' = [ptr EXCEPT ![p] = ptr[p]]
      /\ stack' = [stack EXCEPT ![p] = stack[p]] /\ seen' = [seen EXCEPT ![p] = seen[p]]
      /\ FullOf(f, stack[p], data[p], ptr[p], seen[p], last)
  BY <1>1, FullStands, StandsExcept
<1>3. FullOf(g, stack[p], data[p], ptr[p], seen[p], last)
  <2>1. CASE f = "EvalFull"
    BY <1>1, <1>2, <2>1 DEF FullOf
  <2>2. CASE f = "EvalFull8"
    BY <1>1, <1>2, <2>2 DEF FullOf
  <2> QED  BY <2>1, <2>2
<1>4. fn' = [fn EXCEPT ![p] = g] /\ UNCHANGED genvars
  BY <1>1
<1> QED  BY <1>2, <1>3, <1>4, FullBecomes

LEMMA TopSides ==
    \A i \in 1 .. 8 :
        /\ Top[i][1] \in Side /\ Top[i][2] \in Side /\ Top[i][3] \in Side
        /\ 4 * Turn(Top[i][1]) + 2 * Turn(Top[i][2]) + Turn(Top[i][3]) = i - 1
<1> TAKE i \in 1 .. 8
<1>1. CASE i = 1 \/ i = 2
  BY <1>1 DEF Top, Turn, Side
<1>2. CASE i = 3 \/ i = 4
  BY <1>2 DEF Top, Turn, Side
<1>3. CASE i = 5 \/ i = 6
  BY <1>3 DEF Top, Turn, Side
<1>4. CASE i = 7 \/ i = 8
  BY <1>4 DEF Top, Turn, Side
<1> QED  BY <1>1, <1>2, <1>3, <1>4

LEMMA SpanOfTop ==
    ASSUME Stop >= 3, NEW i \in 1 .. 8, NEW q,
           q = Append(Append(Append(<<>>, Top[i][1]), Top[i][2]), Top[i][3])
    PROVE  Lo(q) = FirstLeaf(i) /\ Hi(q) = FirstLeaf(i + 1)
<1> DEFINE q1 == Append(<<>>, Top[i][1])
           q2 == Append(q1, Top[i][2])
<1>1. /\ <<>> \in Seq(Side) /\ q1 \in Seq(Side) /\ q2 \in Seq(Side)
      /\ q = Append(q2, Top[i][3]) /\ Len(q) = 3
  BY TopSides
<1> HIDE DEF q1, q2
<1>2. /\ Top[i][1] \in Side /\ Top[i][2] \in Side /\ Top[i][3] \in Side
      /\ 4 * Turn(Top[i][1]) + 2 * Turn(Top[i][2]) + Turn(Top[i][3]) = i - 1
  BY TopSides
<1>3. LeafNo(q1) = 2 * LeafNo(<<>>) + Turn(Top[i][1])
  BY <1>1, <1>2, LeafNoOfChild DEF q1
<1>4. LeafNo(q2) = 2 * LeafNo(q1) + Turn(Top[i][2])
  BY <1>1, <1>2, LeafNoOfChild DEF q2
<1>5. LeafNo(q) = 2 * LeafNo(q2) + Turn(Top[i][3])
  BY <1>1, <1>2, LeafNoOfChild
<1>6. \A d : Turn(d) \in Nat
  BY DEF Turn
<1>7. LeafNo(q) = i - 1
  BY <1>2, <1>3, <1>4, <1>5, <1>6, LeafNoOfRoot
<1>8. PICK w \in Nat : /\ w >= 1 /\ 2^(Stop - 3) = w
                       /\ \A k \in 1 .. 9 : FirstLeaf(k) = (k - 1) * w
  BY Eighths
<1>9. i \in 1 .. 9 /\ i + 1 \in 1 .. 9 /\ (i + 1) - 1 = i /\ i - 1 \in Nat /\ i = (i - 1) + 1
  OBVIOUS
<1>10. Lo(q) = (i - 1) * w /\ Hi(q) = (i - 1) * w + w
  BY <1>1, <1>7, <1>8 DEF Lo, Hi, Pow
<1>11. ((i - 1) + 1) * w = (i - 1) * w + 1 * w /\ 1 * w = w
  BY <1>9, Distributes
<1>12. FirstLeaf(i) = (i - 1) * w /\ FirstLeaf(i + 1) = i * w
  BY <1>8, <1>9
<1> QED  BY <1>9, <1>10, <1>11, <1>12

LEMMA Call8Full ==
    ASSUME IInv, FullInv, NEW p \in Party, EvalFull8Call(p)
    PROVE  FullInv'
<1> DEFINE r == Place(<<>>, root[p])
           one(q)   == Child(r, q[1])
           two(q)   == Child(one(q), q[2])
           three(q) == Child(two(q), q[3])
           c == [i \in 1 .. 8 |-> three(Top[i])]
           S == {r} \cup UNION {{one(Top[i]), two(Top[i]), three(Top[i])} : i \in 1 .. 8}
           st == <<c>>
           da == [j \in 1 .. Pow(Stop) |-> {}]
           pt == [i \in 1 .. 8 |-> FirstLeaf(i)]
<1>1. /\ Stop >= 3 /\ fn' = [fn EXCEPT ![p] = "EvalFull8"]
      /\ data' = [data EXCEPT ![p] = da] /\ ptr' = [ptr EXCEPT ![p] = pt]
      /\ stack' = [stack EXCEPT ![p] = st] /\ seen' = [seen EXCEPT ![p] = S]
      /\ UNCHANGED genvars
  BY DEF EvalFull8Call, Pow
<1>2. \A i \in 1 .. 8 : c[i].at = Append(Append(Append(<<>>, Top[i][1]), Top[i][2]), Top[i][3])
  BY DEF Child, Place
<1>3. st \in Seq({c}) /\ Len(st) = 1 /\ st[1] = c /\ Len(c) = 8
  <2>1. Len(c) = 8
    OBVIOUS
  <2> HIDE DEF c
  <2> QED  BY <2>1
<1> HIDE DEF c, st, S
<1>4. PICK w \in Nat : /\ w >= 1 /\ Pow(Stop) = 8 * w
                       /\ \A i \in 1 .. 9 : FirstLeaf(i) = (i - 1) * w
  BY <1>1, Eighths
<1>5. \A i \in 1 .. 9 : FirstLeaf(i) \in Nat
  <2> TAKE i \in 1 .. 9
  <2>1. i - 1 \in Nat
    OBVIOUS
  <2>2. (i - 1) * w \in Nat
    BY <2>1
  <2> QED  BY <1>4, <2>2
<1>6. pt \in Seq(Nat) /\ pt \in [1 .. 8 -> Nat] /\ \A i \in 1 .. 8 : pt[i] = FirstLeaf(i)
  <2>1. \A i \in 1 .. 8 : FirstLeaf(i) \in Nat
    BY <1>5
  <2>2. pt \in [1 .. 8 -> Nat]
    BY <2>1
  <2>3. \A i \in 1 .. 8 : pt[i] = FirstLeaf(i)
    OBVIOUS
  <2> HIDE DEF pt
  <2>4. pt \in Seq(Nat)
    BY <2>2, SeqOfFunction
  <2> QED  BY <2>2, <2>3, <2>4
<1>7. da \in Seq(Block) /\ Len(da) = Pow(Stop)
  <2>1. Pow(Stop) \in Nat /\ {} \in Block
    BY <1>4 DEF Block
  <2>2. da \in [1 .. Pow(Stop) -> Block]
    BY <2>1
  <2> HIDE DEF da
  <2> QED  BY <2>1, <2>2, SeqOfFunction
<1> HIDE DEF da, pt
<1>8. ASSUME NEW i \in 1 .. 8
      PROVE  /\ FirstLeaf(i) <= pt[i] /\ pt[i] <= FirstLeaf(i + 1)
             /\ Tiles(Column(st, i), pt[i], FirstLeaf(i + 1))
             /\ \A j \in FirstLeaf(i) .. pt[i] - 1 : Written(S, da, last, j)
  <2> DEFINE q == Append(Append(Append(<<>>, Top[i][1]), Top[i][2]), Top[i][3])
  <2>1. c[i].at = q /\ Lo(q) = FirstLeaf(i) /\ Hi(q) = FirstLeaf(i + 1)
    BY <1>1, <1>2, SpanOfTop
  <2> HIDE DEF q
  <2>2. pt[i] = FirstLeaf(i) /\ FirstLeaf(i) \in Nat /\ FirstLeaf(i + 1) \in Nat
    <3>1. i \in 1 .. 9 /\ i + 1 \in 1 .. 9
      OBVIOUS
    <3> QED  BY <1>5, <1>6, <3>1
  <2>3. Column(st, i) = [k \in 1 .. 1 |-> st[k][i].at]
    BY <1>3 DEF Column
  <2>4. Len(Column(st, i)) = 1 /\ Column(st, i)[1] = q
    BY <1>3, <2>1, <2>3
  <2>5. Tiles(Column(st, i), pt[i], FirstLeaf(i + 1))
    <3> DEFINE a == Column(st, i)
    <3> HIDE DEF a
    <3>1. Len(a) = 1 /\ a[1] = q
      BY <2>4 DEF a
    <3>2. Tiles(a, pt[i], FirstLeaf(i + 1))
      BY <2>1, <2>2, <3>1 DEF Tiles
    <3> QED  BY <3>2 DEF a
  <2>6. FirstLeaf(i) <= FirstLeaf(i + 1)
    <3>1. i \in 1 .. 9 /\ i + 1 \in 1 .. 9 /\ i - 1 \in Nat /\ (i + 1) - 1 = (i - 1) + 1
      OBVIOUS
    <3>2. ((i - 1) + 1) * w = (i - 1) * w + 1 * w /\ (i - 1) * w \in Nat /\ 1 * w \in Nat
      BY <3>1, Distributes
    <3>3. FirstLeaf(i) = (i - 1) * w /\ FirstLeaf(i + 1) = ((i - 1) + 1) * w
      BY <1>4, <3>1
    <3>4. PICK x \in Nat, y \in Nat : x = (i - 1) * w /\ y = 1 * w
      BY <3>2
    <3> QED  BY <3>2, <3>3, <3>4
  <2>7. \A j \in FirstLeaf(i) .. pt[i] - 1 : FALSE
    BY <2>2
  <2> QED  BY <2>2, <2>5, <2>6, <2>7
<1>9. \A k \in 1 .. Len(st) : Len(st[k]) = 8
  BY <1>3
<1>10. FullOf("EvalFull8", st, da, pt, S, last)
  BY <1>1, <1>6, <1>7, <1>8, <1>9 DEF FullOf
<1> QED  BY <1>1, <1>6, <1>7, <1>10, FullBecomes

\* An evaluation at one point writes nothing.
LEMMA EvalFullInv ==
    ASSUME IInv, FullInv, NEW p \in Party, EvalCall(p) \/ EvalLevel(p) \/ EvalReturn(p)
    PROVE  FullInv'
<1>1. \E f \in {"Eval", "Eval returned"} : \E S :
          /\ fn' = [fn EXCEPT ![p] = f] /\ seen' = [seen EXCEPT ![p] = S]
          /\ UNCHANGED <<genvars, stack, data, ptr>>
  <2>1. CASE EvalCall(p)
    BY <2>1 DEF EvalCall
  <2>2. CASE EvalLevel(p)
    <3>1. fn[p] = "Eval" /\ UNCHANGED <<genvars, fn, stack, data, ptr>>
      BY <2>2 DEF EvalLevel
    <3>2. fn' = [fn EXCEPT ![p] = "Eval"]
      BY <3>1, StandsExcept
    <3> QED  BY <2>2, <3>1, <3>2 DEF EvalLevel
  <2>3. CASE EvalReturn(p)
    <3>1. fn' = [fn EXCEPT ![p] = "Eval returned"] /\ UNCHANGED <<genvars, stack, data, ptr, seen>>
      BY <2>3 DEF EvalReturn
    <3>2. seen' = [seen EXCEPT ![p] = seen[p]]
      BY <3>1, StandsExcept
    <3> QED  BY <3>1, <3>2
  <2> QED  BY <2>1, <2>2, <2>3
<1>2. PICK f \in {"Eval", "Eval returned"} : \E S :
          /\ fn' = [fn EXCEPT ![p] = f] /\ seen' = [seen EXCEPT ![p] = S]
          /\ UNCHANGED <<genvars, stack, data, ptr>>
  BY <1>1
<1>3. PICK S : seen' = [seen EXCEPT ![p] = S]
  BY <1>2
<1>4. /\ data[p] \in Seq(Block) /\ ptr[p] \in Seq(Nat)
      /\ data' = [data EXCEPT ![p] = data[p]] /\ ptr' = [ptr EXCEPT ![p] = ptr[p]]
      /\ stack' = [stack EXCEPT ![p] = stack[p]]
  BY <1>2, FullStands, StandsExcept
<1>5. FullOf(f, stack[p], data[p], ptr[p], S, last)
  BY <1>2 DEF FullOf
<1> QED  BY <1>2, <1>4, <1>5, <1>3, FullBecomes

LEMMA InitFull == Init => FullInv
<1> SUFFICES ASSUME Init PROVE FullInv
  OBVIOUS
<1>1. /\ fn = [p \in Party |-> "none"] /\ data = [p \in Party |-> <<>>]
      /\ ptr = [p \in Party |-> <<>>]
  BY DEF Init
<1> QED  BY <1>1 DEF FullInv, FullOf

LEMMA NextFull ==
    ASSUME IInv, FullInv, [Next]_vars
    PROVE  FullInv'
<1>1. CASE GenLevel \/ GenReturn
  <2>1. pc = "gen" /\ UNCHANGED evars
    BY <1>1 DEF GenLevel, GenReturn
  <2>2. \A p \in Party : fn[p] = "none"
    BY <2>1 DEF IInv, CallInv
  <2> QED  BY <2>1, <2>2 DEF FullInv, FullOf, evars
<1>2. ASSUME NEW p \in Party,
             \/ EvalCall(p) \/ EvalLevel(p) \/ EvalReturn(p)
             \/ EvalFullCall(p) \/ EvalFullDescend(p)
             \/ EvalFullLeaf(p) \/ EvalFullReturn(p)
             \/ EvalFull8Call(p) \/ EvalFull8Descend(p)
             \/ EvalFull8Leaf(p) \/ EvalFull8Return(p)
      PROVE  FullInv'
  <2>1. CASE EvalFullDescend(p) \/ EvalFull8Descend(p)
    BY <2>1, DescendFull DEF EvalFullDescend, EvalFull8Descend
  <2> QED  BY <1>2, <2>1, EvalFullInv, CallFull, LeafFull, ReturnFull, Call8Full, Leaf8Full
<1>3. CASE UNCHANGED vars
  BY <1>3 DEF FullInv, FullOf, vars, evars, genvars
<1> QED BY <1>1, <1>2, <1>3 DEF Next

LEMMA FullInvariant == Spec => [](IInv /\ FullInv)
<1>1. Init => IInv /\ FullInv
  BY InitIInv, InitFull
<1>2. IInv /\ FullInv /\ [Next]_vars => IInv' /\ FullInv'
  BY NextIInv, NextFull
<1> QED BY <1>1, <1>2, PTL DEF Spec

-----------------------------------------------------------------------------
(* The ends of the eighths, as numbers                                       *)

LEMMA EighthOfNat ==
    ASSUME NEW w \in Nat, NEW i \in 1 .. 8, NEW t \in Nat
    PROVE  /\ (i - 1) * w <= t /\ t <= i * w =>
                 8 * t \in (i - 1) * (8 * w) .. i * (8 * w)
           /\ t = i * w <=> 8 * t = i * (8 * w)
<1>1. /\ (i - 1) * w \in Nat /\ i * w \in Nat
      /\ (i - 1) * (8 * w) = 8 * ((i - 1) * w) /\ i * (8 * w) = 8 * (i * w)
  <2>1. i \in Nat /\ i - 1 \in Nat
    OBVIOUS
  <2> QED  BY <2>1
<1>2. PICK x \in Nat, y \in Nat : x = (i - 1) * w /\ y = i * w
  BY <1>1
<1>3. /\ x <= t /\ t <= y => 8 * t \in 8 * x .. 8 * y
      /\ t = y <=> 8 * t = 8 * y
  OBVIOUS
<1> QED  BY <1>1, <1>2, <1>3

LEMMA EighthEnds ==
    ASSUME Stop >= 3, NEW i \in 1 .. 8, NEW t \in Nat
    PROVE  /\ FirstLeaf(i) <= t /\ t <= FirstLeaf(i + 1) =>
                 8 * t \in (i - 1) * 2^Stop .. i * 2^Stop
           /\ t = FirstLeaf(i + 1) <=> 8 * t = i * 2^Stop
<1>1. PICK w \in Nat : /\ w >= 1 /\ Pow(Stop) = 8 * w
                       /\ \A k \in 1 .. 9 : FirstLeaf(k) = (k - 1) * w
  BY Eighths
<1>2. i \in 1 .. 9 /\ i + 1 \in 1 .. 9 /\ (i + 1) - 1 = i
  OBVIOUS
<1>3. FirstLeaf(i) = (i - 1) * w /\ FirstLeaf(i + 1) = i * w
  BY <1>1, <1>2
<1>4. 2^Stop = 8 * w
  BY <1>1 DEF Pow
<1> QED  BY <1>3, <1>4, EighthOfNat

LEMMA BelowPow ==
    ASSUME NEW j \in Nat, j < Pow(Stop)
    PROVE  j \in 0 .. Pow(Stop) - 1
BY PowDoubles, StopType

\* Every leaf is in one of the eighths.
LEMMA InAnEighth ==
    ASSUME Stop >= 3, NEW j \in Nat, j < Pow(Stop)
    PROVE  \E i \in 1 .. 8 : j \in FirstLeaf(i) .. FirstLeaf(i + 1) - 1
<1>1. PICK w \in Nat : /\ w >= 1 /\ Pow(Stop) = 8 * w
                       /\ \A k \in 1 .. 9 : FirstLeaf(k) = (k - 1) * w
  BY Eighths
<1>2. /\ FirstLeaf(1) = 0 /\ FirstLeaf(2) = w /\ FirstLeaf(3) = 2 * w /\ FirstLeaf(4) = 3 * w
      /\ FirstLeaf(5) = 4 * w /\ FirstLeaf(6) = 5 * w /\ FirstLeaf(7) = 6 * w
      /\ FirstLeaf(8) = 7 * w /\ FirstLeaf(9) = 8 * w
  <2>1. \A m \in 1 .. 9 : FirstLeaf(m) = (m - 1) * w
    BY <1>1
  <2> QED  BY <1>1, <2>1
<1>3. PICK i \in 1 .. 8 : (i - 1) * w <= j /\ j < i * w
  BY <1>1
<1>4. FirstLeaf(i) \in Nat /\ FirstLeaf(i + 1) \in Nat /\ FirstLeaf(i) <= j /\ j < FirstLeaf(i + 1)
  <2>1. FirstLeaf(i) = (i - 1) * w /\ FirstLeaf(i + 1) = i * w
    <3>1. i \in 1 .. 9 /\ i + 1 \in 1 .. 9 /\ (i + 1) - 1 = i
      OBVIOUS
    <3> QED  BY <1>1, <3>1
  <2>2. (i - 1) * w \in Nat /\ i * w \in Nat
    <3>1. i \in Nat /\ i - 1 \in Nat
      OBVIOUS
    <3> QED  BY <3>1
  <2> QED  BY <1>3, <2>1, <2>2
<1> QED  BY <1>4

(* What the full evaluations return                                         *)

LEMMA FullPlaces ==
    ASSUME IInv, FullInv
    PROVE  EveryLeafInItsPlace
<1> SUFFICES ASSUME NEW p \in Party
    PROVE  /\ fn[p] \in {"EvalFull8", "EvalFull8 returned"} =>
                  \A i \in 1 .. 8 :
                      /\ 8 * ptr[p][i] \in (i - 1) * 2^Stop .. i * 2^Stop
                      /\ fn[p] = "EvalFull8 returned" => 8 * ptr[p][i] = i * 2^Stop
           /\ fn[p] \in {"EvalFull returned", "EvalFull8 returned"} => Len(data[p]) = 2^Stop
  BY DEF EveryLeafInItsPlace
<1>1. FullOf(fn[p], stack[p], data[p], ptr[p], seen[p], last)
  BY DEF FullInv
<1>2. \A i : stack[p] = <<>> => Column(stack[p], i) = <<>>
  BY DEF Column
<1>3. \A i, lo, hi : (stack[p] = <<>> /\ Tiles(Column(stack[p], i), lo, hi)) => lo = hi
  <2> TAKE i, lo, hi
  <2> HAVE stack[p] = <<>> /\ Tiles(Column(stack[p], i), lo, hi)
  <2>1. Tiles(<<>>, lo, hi)
    BY <1>2
  <2>2. Len(<<>>) = 0
    OBVIOUS
  <2> QED  BY <2>1, <2>2 DEF Tiles
<1>4. ASSUME fn[p] \in {"EvalFull8", "EvalFull8 returned"}, NEW i \in 1 .. 8
      PROVE  /\ 8 * ptr[p][i] \in (i - 1) * 2^Stop .. i * 2^Stop
             /\ fn[p] = "EvalFull8 returned" => 8 * ptr[p][i] = i * 2^Stop
  <2>1. /\ Stop >= 3 /\ ptr[p] \in [1 .. 8 -> Nat]
        /\ FirstLeaf(i) <= ptr[p][i] /\ ptr[p][i] <= FirstLeaf(i + 1)
        /\ Tiles(Column(stack[p], i), ptr[p][i], FirstLeaf(i + 1))
        /\ fn[p] = "EvalFull8 returned" => stack[p] = <<>>
    BY <1>1, <1>4 DEF FullOf
  <2>2. fn[p] = "EvalFull8 returned" => ptr[p][i] = FirstLeaf(i + 1)
    BY <2>1, <1>3
  <2>3. ptr[p][i] \in Nat
    BY <2>1
  <2> QED  BY <2>1, <2>2, <2>3, EighthEnds
<1>5. ASSUME fn[p] \in {"EvalFull returned", "EvalFull8 returned"}
      PROVE  Len(data[p]) = 2^Stop
  <2>1. CASE fn[p] = "EvalFull returned"
    <3>1. stack[p] = <<>> /\ Tiles(Column(stack[p], 1), Len(data[p]), Pow(Stop))
      BY <1>1, <2>1 DEF FullOf
    <3> QED  BY <1>3, <3>1 DEF Pow
  <2>2. CASE fn[p] = "EvalFull8 returned"
    BY <1>1, <2>2 DEF FullOf, Pow
  <2> QED  BY <1>5, <2>1, <2>2
<1> QED  BY <1>4, <1>5

\* Each leaf that a full evaluation has returned is the leaf of a node that it computed.
LEMMA AllWritten ==
    ASSUME IInv, FullInv, NEW p \in Party, fn[p] \in {"EvalFull returned", "EvalFull8 returned"},
           NEW j \in Nat, j < Pow(Stop)
    PROVE  Written(seen[p], data[p], last, j)
<1>1. FullOf(fn[p], stack[p], data[p], ptr[p], seen[p], last) /\ stack[p] = <<>>
  BY DEF FullInv, FullOf
<1>2. CASE fn[p] = "EvalFull returned"
  <2>1. Len(data[p]) = Pow(Stop)
    BY <1>2, FullPlaces DEF EveryLeafInItsPlace, Pow
  <2>2. j \in 0 .. Pow(Stop) - 1
    BY BelowPow
  <2>3. j \in 0 .. Len(data[p]) - 1
    BY <2>1, <2>2
  <2> QED  BY <1>1, <1>2, <2>3 DEF FullOf
<1>3. CASE fn[p] = "EvalFull8 returned"
  <2>1. /\ Stop >= 3 /\ ptr[p] \in [1 .. 8 -> Nat]
        /\ \A i \in 1 .. 8 : \A k \in FirstLeaf(i) .. ptr[p][i] - 1 : Written(seen[p], data[p], last, k)
    BY <1>1, <1>3 DEF FullOf
  <2>2. PICK i \in 1 .. 8 : j \in FirstLeaf(i) .. FirstLeaf(i + 1) - 1
    BY <2>1, InAnEighth
  <2>3. ptr[p][i] \in Nat /\ 8 * ptr[p][i] = i * 2^Stop
    BY <1>3, <2>1, FullPlaces DEF EveryLeafInItsPlace
  <2>4. ptr[p][i] = FirstLeaf(i + 1)
    BY <2>1, <2>3, EighthEnds
  <2> QED  BY <2>1, <2>2, <2>4
<1> QED  BY <1>2, <1>3

\* A server that has returned has an answer for every place that it was asked: the bit
\* of the leaf at the end of the path, at a node that it computed.
LEMMA ReturnedLeaf ==
    ASSUME IInv, FullInv, NEW p \in Party, Returned(p), NEW x \in Asked(p)
    PROVE  /\ x \in Index
           /\ \E e \in seen[p] : /\ Len(e.at) = Stop /\ e.at = x.path
                                 /\ Answer(p, x) <=> x.off \in Leaf(e.node)
<1>1. /\ arg[p] \in Index /\ seen[p] \in SUBSET Places
      /\ CallOf(fn[p], arg[p], here[p], ret[p], stack[p], seen[p], last)
  BY StandsExcept
<1>2. CASE fn[p] = "Eval returned"
  <2>1. x = arg[p] /\ (Answer(p, x) <=> ret[p])
    BY <1>2 DEF Asked, Answer
  <2> DEFINE e == here[p]
  <2>2. /\ e \in seen[p] /\ e \in Places /\ Len(e.at) = Stop
        /\ \A i \in 1 .. Stop : e.at[i] = x.path[i]
        /\ ret[p] <=> x.off \in Leaf(e.node)
    BY <1>1, <1>2, <2>1 DEF CallOf, LeafOf, Leaf
  <2>3. e.at \in Seq(Side) /\ x.path \in [1 .. Stop -> Side] /\ x \in Index
    BY <1>1, <2>1, <2>2 DEF Places, Index
  <2> HIDE DEF e
  <2>4. e.at = x.path
    BY <2>2, <2>3, SameSeq
  <2> QED  BY <2>1, <2>2, <2>3, <2>4
<1>3. CASE fn[p] \in {"EvalFull returned", "EvalFull8 returned"}
  <2>1. x \in Index /\ (Answer(p, x) <=> x.off \in data[p][LeafNo(x.path) + 1])
    BY <1>3 DEF Asked, Answer
  <2>2. x.path \in [1 .. Stop -> Side] /\ x.path \in Seq(Side) /\ Len(x.path) = Stop
    <3>1. x.path \in [1 .. Stop -> Side]
      BY <2>1 DEF Index
    <3> QED  BY <3>1, StopType, SeqOfFunction
  <2>3. LeafNo(x.path) \in Nat /\ LeafNo(x.path) < Pow(Stop)
    <3>1. LeafNo(x.path) \in Nat
      BY <2>2, LeafNoOfChild DEF Side
    <3>2. LeafNo(x.path) < Pow(Len(x.path))
      BY <2>2, LeafNoBelow, StopType
    <3> QED  BY <2>2, <3>1, <3>2
  <2>5. PICK e \in seen[p] : /\ Len(e.at) = Stop /\ LeafNo(e.at) = LeafNo(x.path)
                             /\ data[p][LeafNo(x.path) + 1] = LeafOf(last, e.node)
    BY <1>3, <2>3, AllWritten DEF Written
  <2>6. e.at \in Seq(Side)
    BY <1>1 DEF Places
  <2>7. \A k \in 1 .. Stop : e.at[k] = x.path[k]
    BY <2>2, <2>5, <2>6, LeafNoInjective, StopType
  <2>8. e.at = x.path
    BY <2>2, <2>5, <2>6, <2>7, SameSeq
  <2> QED  BY <2>1, <2>5, <2>8 DEF LeafOf, Leaf
<1> QED  BY <1>2, <1>3 DEF Returned

LEMMA SharesDiffer ==
    ASSUME IInv, FullInv
    PROVE  ServersShareThePoint
<1> SUFFICES ASSUME Returned(0), Returned(1), NEW x \in Asked(0) \cap Asked(1)
             PROVE  (Answer(0, x) # Answer(1, x)) <=> x = alpha
  BY DEF ServersShareThePoint
<1>1. 0 \in Party /\ 1 \in Party
  BY DEF Party
<1>2. x \in Index /\ alpha \in Index
  BY <1>1, ReturnedLeaf DEF IInv, GenInv
<1>3. PICK e \in seen[0] : Len(e.at) = Stop /\ e.at = x.path /\ (Answer(0, x) <=> x.off \in Leaf(e.node))
  BY <1>1, ReturnedLeaf
<1>4. PICK f \in seen[1] : Len(f.at) = Stop /\ f.at = x.path /\ (Answer(1, x) <=> x.off \in Leaf(f.node))
  BY <1>1, ReturnedLeaf
<1>5. Leaf(e.node) ## Leaf(f.node) = (IF x.path = alpha.path THEN {alpha.off} ELSE {})
  BY <1>3, <1>4, IInvLeaves
<1>6. ~(x.off \in Leaf(e.node) <=> x.off \in Leaf(f.node))
         <=> x.off \in (Leaf(e.node) ## Leaf(f.node))
  BY DEF ##
<1>7. x.off \in (Leaf(e.node) ## Leaf(f.node)) <=> (x.path = alpha.path /\ x.off = alpha.off)
  BY <1>5
<1>8. (x.path = alpha.path /\ x.off = alpha.off) <=> x = alpha
  <2>1. x = [path |-> x.path, off |-> x.off] /\ alpha = [path |-> alpha.path, off |-> alpha.off]
    BY <1>2 DEF Index
  <2> QED BY <2>1
<1>9. Answer(0, x) \in BOOLEAN /\ Answer(1, x) \in BOOLEAN
  <2> SUFFICES ASSUME NEW p \in Party PROVE Answer(p, x) \in BOOLEAN
    BY <1>1
  <2>1. CASE fn[p] = "Eval returned"
    <3>1. ret[p] \in BOOLEAN /\ Answer(p, x) = ret[p]
      BY <2>1, StandsExcept DEF Answer
    <3> QED  BY <3>1
  <2>2. CASE fn[p] # "Eval returned"
    <3>1. Answer(p, x) = (x.off \in data[p][LeafNo(x.path) + 1])
      BY <2>2 DEF Answer
    <3> QED  BY <3>1
  <2> QED  BY <2>1, <2>2
<1>10. (Answer(0, x) # Answer(1, x)) <=> ~(Answer(0, x) <=> Answer(1, x))
  BY <1>9
<1> QED  BY <1>3, <1>4, <1>6, <1>7, <1>8, <1>10, Zenon

-----------------------------------------------------------------------------

\* Every variable has its type: correction words and nodes are what the generators give, and
\* no evaluation leaves the tree (dpf.cpp:61-426).
THEOREM DpfTypes == Spec => []TypeOK
<1>1. IInv => TypeOK
  BY DEF IInv, GenInv, SeenInv, CallInv, TypeOK, Words
<1> QED BY DpfInvariant, <1>1, PTL

\* At every node that both servers compute, in whatever order and by whichever
\* evaluation, they are in the same state off the path to the point, and in Gen's
\* two states, with different bits, on it (dpf.cpp:102-139 against 159-186, 218-234
\* and 269-285).
THEOREM DpfFallsTogether == Spec => []ServersFallTogether
<1>1. IInv => ServersFallTogether
  BY IInvFallTogether
<1> QED BY DpfInvariant, <1>1, PTL

\* The packed leaves that both servers compute differ at the point and nowhere
\* else (dpf.cpp:142-144 against 188-199, 203-216 and 256-266).
THEOREM DpfLeavesDifferAtThePoint == Spec => []LeavesDifferAtThePoint
<1>1. IInv => LeavesDifferAtThePoint
  BY IInvLeaves DEF LeavesDifferAtThePoint
<1> QED BY DpfInvariant, <1>1, PTL

\* What two calls of Eval return is a share of the point function (dpf.cpp:152-200).
THEOREM DpfEvalsShareThePoint == Spec => []EvalsShareThePoint
<1>1. IInv => EvalsShareThePoint
  BY IInvEvals
<1> QED BY DpfInvariant, <1>1, PTL

\* Each pointer of EvalFull8 stays in its eighth and ends where the next begins, and a
\* full evaluation returns a leaf for every path (dpf.cpp:203-237, 248-299).
THEOREM DpfEveryLeafInItsPlace == Spec => []EveryLeafInItsPlace
<1>1. IInv /\ FullInv => EveryLeafInItsPlace
  BY FullPlaces
<1> QED BY FullInvariant, <1>1, PTL

\* Whichever of the three evaluations each server ran, what they returned differs at
\* the point and nowhere else (dpf.cpp:152, 241, 290).
THEOREM DpfServersShareThePoint == Spec => []ServersShareThePoint
<1>1. IInv /\ FullInv => ServersShareThePoint
  BY SharesDiffer
<1> QED BY FullInvariant, <1>1, PTL
=============================================================================
