---------------------------- MODULE PuncPrfProofs ----------------------------
(***************************************************************************)
(* The puncturable function for trees of every height: the key punctured   *)
(* at a point gives what the whole key gives at every other point, gives   *)
(* nothing away at that point, and the evaluation of all points at once    *)
(* gives the same again.  The argument is that each loop, wherever it is,  *)
(* holds the label of the path to the bits it has looked at.               *)
(***************************************************************************)
EXTENDS PuncPrf, SequenceTheorems, TLAPS

\* The label on level l above leaf n in a tree of height h: the l topmost of h bits.
Path(h, n, l) == [j \in 1 .. l |-> (n \div Pow[h - j]) % 2]

\* What Punc has taken off punc_x are the bits of the levels above.
PuncInv ==
    pc = "Punc" =>
        /\ i \in 1 .. lgn + 1
        /\ punc_number < Pow[lgn - (i - 1)] /\ punc_x = bitvec + punc_number
        /\ \E q \in Nat : bitvec = Pow[lgn - (i - 1)] * q
        /\ node_key = Path(lgn, punc_x, i - 1)

\* The key of a level is the label beside the path.
KeysInv ==
    \A l \in 1 .. Len(keys) :
        keys[l] = Append(Path(lgn, punc_x, l - 1), 1 - ((punc_x \div Pow[lgn - l]) % 2))

EvalPuncInv ==
    /\ pc # "Punc" => bitvec = punc_x
    /\ pc = "EvalPunc" => /\ i \in 1 .. lgn + 1
                          /\ Path(lgn, x, i - 1) = Path(lgn, punc_x, i - 1)
    /\ pc = "EvalPuncDown" => /\ i \in 1 .. lgn + 1 /\ node_key = Path(lgn, x, i - 1)
                              /\ x # punc_x
    /\ punc_res # NotYet => punc_res = IF x = punc_x THEN Punctured ELSE Path(lgn, x, lgn)

EvalInv ==
    /\ pc = "Eval" => i \in 1 .. lgn + 1 /\ node_key = Path(lgn, x, i - 1)
    /\ pc \in {"Eval", "BreadthSpine", "BreadthLevel", "done"} => punc_res # NotYet
    /\ pc \in {"Punc", "EvalPunc", "EvalPuncDown", "Eval"} => eval_res = NotYet
    /\ pc \in {"BreadthSpine", "BreadthLevel", "done"} => eval_res = Path(lgn, x, lgn)

\* The labels of a whole level, and the first of the level below.
BreadthInv ==
    /\ pc = "BreadthSpine" => i \in 0 .. subheight /\ node_key = Path(i, 0, i)
    /\ pc \in {"BreadthLevel", "done"} =>
        /\ i \in subheight .. lgn /\ Len(prev_nodes) = Pow[i - subheight]
        /\ \A n \in 1 .. Len(prev_nodes) : prev_nodes[n] = Path(i, n - 1, i)
        /\ \E c \in Nat : Len(cur_nodes) = 2 * c
        /\ \A n \in 1 .. Len(cur_nodes) : cur_nodes[n] = Path(i + 1, n - 1, i + 1)
    /\ pc = "done" => i = lgn

IInv == TypeOK /\ PuncInv /\ KeysInv /\ EvalPuncInv /\ EvalInv /\ BreadthInv
-----------------------------------------------------------------------------
(* Quotients and paths *)

LEMMA DivDef ==
    ASSUME NEW n \in Nat, NEW p \in Nat \ {0}
    PROVE  n \div p \in Nat /\ n % p \in 0 .. p - 1 /\ n = p * (n \div p) + (n % p)
OBVIOUS

LEMMA MulMono ==
    ASSUME NEW p \in Nat \ {0}, NEW a \in Nat, NEW b \in Nat, a < b
    PROVE  p * a + p <= p * b
<1> DEFINE d == b - a - 1
<1>1. d \in Nat /\ b = a + 1 + d  OBVIOUS
<1>2. p * d \in Nat  OBVIOUS
<1>3. p * (a + 1 + d) = p * a + p + p * d  OBVIOUS
<1> QED BY <1>1, <1>2, <1>3

LEMMA DivUnique ==
    ASSUME NEW n \in Nat, NEW p \in Nat \ {0}, NEW q \in Nat, NEW r \in 0 .. p - 1,
           n = p * q + r
    PROVE  n \div p = q /\ n % p = r
<1> DEFINE a == n \div p
           b == n % p
<1>1. a \in Nat /\ b \in 0 .. p - 1 /\ n = p * a + b  BY DivDef
<1> HIDE DEF a, b
<1> p * a \in Nat /\ p * q \in Nat  BY <1>1
<1>2. ~ a < q
  <2> SUFFICES ASSUME a < q PROVE FALSE  OBVIOUS
  <2>1. p * a + p <= p * q  BY <1>1, MulMono
  <2> QED BY <1>1, <2>1
<1>3. ~ q < a
  <2> SUFFICES ASSUME q < a PROVE FALSE  OBVIOUS
  <2>1. p * q + p <= p * a  BY <1>1, MulMono
  <2> QED BY <1>1, <2>1
<1>4. a = q  BY <1>1, <1>2, <1>3
<1>5. b = r  BY <1>1, <1>4
<1> QED BY <1>4, <1>5 DEF a, b

LEMMA HalveBoth ==
    ASSUME NEW m \in Nat, NEW p \in Nat \ {0}, NEW b \in {0, 1}
    PROVE  (2 * m + b) \div (2 * p) = m \div p
<1> DEFINE q == m \div p
           r == m % p
<1>1. q \in Nat /\ r \in 0 .. p - 1 /\ m = p * q + r  BY DivDef
<1> HIDE DEF q, r
<1>2. 2 * m + b = (2 * p) * q + (2 * r + b)  BY <1>1
<1>3. 2 * r + b \in 0 .. (2 * p) - 1  BY <1>1
<1>4. 2 * p \in Nat \ {0} /\ 2 * m + b \in Nat  OBVIOUS
<1>5. (2 * m + b) \div (2 * p) = q  BY <1>1, <1>2, <1>3, <1>4, DivUnique
<1> QED BY <1>5 DEF q

\* The bit that Punc finds on a level, from what it has taken off above.
LEMMA TopBit ==
    ASSUME NEW h \in Nat \ {0}, NEW q \in Nat, NEW r \in 0 .. h - 1, NEW b \in {0, 1}
    PROVE  (((2 * h) * q + h * b + r) \div h) % 2 = b
<1> DEFINE n == (2 * h) * q + h * b + r
<1>0. h * q \in Nat /\ h * b \in Nat  OBVIOUS
<1>1. n = h * (2 * q + b) + r /\ n \in Nat /\ 2 * q + b \in Nat  BY <1>0
<1>2. n \div h = 2 * q + b  BY <1>1, DivUnique
<1>3. (2 * q + b) % 2 = b  OBVIOUS
<1> QED BY <1>2, <1>3

LEMMA MaxLgnType == MaxLgn \in Nat \ {0}
BY PowAssumption DEF PowAssumption

LEMMA PowType ==
    ASSUME NEW k \in 0 .. MaxLgn
    PROVE  Pow[k] \in Nat \ {0} /\ (k < MaxLgn => Pow[k + 1] = 2 * Pow[k])
BY PowAssumption DEF PowAssumption

LEMMA BitType ==
    ASSUME NEW k \in 0 .. MaxLgn, NEW n \in Nat
    PROVE  (n \div Pow[k]) % 2 \in {0, 1}
<1>1. Pow[k] \in Nat \ {0}  BY PowType
<1>2. n \div Pow[k] \in Nat  BY <1>1, DivDef
<1> QED BY <1>2

LEMMA PathType ==
    ASSUME NEW h \in 0 .. MaxLgn, NEW l \in 0 .. h, NEW n \in Nat
    PROVE  Path(h, n, l) \in Label /\ Len(Path(h, n, l)) = l
           /\ \A j \in 1 .. l : Path(h, n, l)[j] = (n \div Pow[h - j]) % 2
<1>1. ASSUME NEW j \in 1 .. l
      PROVE  (n \div Pow[h - j]) % 2 \in {0, 1}
  <2>1. h - j \in 0 .. MaxLgn  BY MaxLgnType
  <2> QED BY <2>1, BitType
<1> DEFINE f == Path(h, n, l)
<1>2. f \in [1 .. l -> {0, 1}] /\ \A j \in 1 .. l : f[j] = (n \div Pow[h - j]) % 2
  BY <1>1 DEF Path
<1> HIDE DEF f
<1>3. f \in Seq({0, 1}) /\ DOMAIN f = 1 .. l
  BY <1>2, SeqDef
<1>4. Len(f) = l
  BY <1>3, LenProperties
<1> QED BY <1>2, <1>3, <1>4 DEF f, Label

\* A sequence of bits is what its length and its entries say.
LEMMA Extended ==
    ASSUME NEW s \in Label, NEW t \in Label, NEW b \in {0, 1}, Len(t) = Len(s) + 1,
           \A j \in 1 .. Len(s) : t[j] = s[j], t[Len(s) + 1] = b
    PROVE  t = Append(s, b)
<1> DEFINE u == Append(s, b)
<1>1. s \in Seq({0, 1}) /\ t \in Seq({0, 1})
  BY DEF Label
<1>2. u \in Seq({0, 1}) /\ Len(u) = Len(s) + 1 /\ u[Len(s) + 1] = b
      /\ \A j \in 1 .. Len(s) : u[j] = s[j]
  BY <1>1
<1> HIDE DEF u
<1>3. ASSUME NEW j \in 1 .. Len(t)
      PROVE  t[j] = u[j]
  <2>1. Len(s) \in Nat
    BY <1>1
  <2>2. j \in 1 .. Len(s) \/ j = Len(s) + 1
    BY <2>1
  <2> QED BY <1>2, <2>2
<1> QED BY <1>1, <1>2, <1>3, SeqEqual DEF u

\* One level down: the path takes up the next bit.
LEMMA PathGrows ==
    ASSUME NEW h \in 0 .. MaxLgn, NEW l \in 1 .. h, NEW n \in Nat
    PROVE  Path(h, n, l) = Append(Path(h, n, l - 1), (n \div Pow[h - l]) % 2)
<1> DEFINE s == Path(h, n, l - 1)
           t == Path(h, n, l)
           b == (n \div Pow[h - l]) % 2
<1>1. l - 1 \in 0 .. h /\ l \in 0 .. h /\ h - l \in 0 .. MaxLgn /\ l \in Nat /\ h \in Nat
  BY MaxLgnType
<1>2. s \in Label /\ Len(s) = l - 1 /\ \A j \in 1 .. l - 1 : s[j] = (n \div Pow[h - j]) % 2
  BY <1>1, PathType
<1>3. t \in Label /\ Len(t) = l /\ \A j \in 1 .. l : t[j] = (n \div Pow[h - j]) % 2
  BY <1>1, PathType
<1>4. b \in {0, 1}
  BY <1>1, BitType
<1>5. t[l] = b
  BY <1>1, <1>3
<1> HIDE DEF s, t, b
<1>6. \A j \in 1 .. Len(s) : t[j] = s[j]
  BY <1>1, <1>2, <1>3
<1>7. Len(t) = Len(s) + 1 /\ t[Len(s) + 1] = b
  BY <1>1, <1>2, <1>3, <1>5
<1>8. t = Append(s, b)
  BY <1>2, <1>3, <1>4, <1>6, <1>7, Extended
<1> QED BY <1>8 DEF s, t, b

\* The two labels that the m-th label of level l gives.
LEMMA PathChild ==
    ASSUME NEW l \in 0 .. MaxLgn - 1, NEW m \in Nat, NEW b \in {0, 1}
    PROVE  Path(l + 1, 2 * m + b, l + 1) = Append(Path(l, m, l), b)
<1> DEFINE s == Path(l, m, l)
           n == 2 * m + b
           t == Path(l + 1, n, l + 1)
<1>1. /\ l \in 0 .. MaxLgn /\ l + 1 \in 0 .. MaxLgn /\ l \in 0 .. l /\ l + 1 \in 0 .. l + 1
      /\ n \in Nat /\ l \in Nat /\ MaxLgn \in Nat
  BY PowAssumption DEF PowAssumption
<1>2. s \in Label /\ Len(s) = l /\ \A j \in 1 .. l : s[j] = (m \div Pow[l - j]) % 2
  BY <1>1, PathType
<1>3. t \in Label /\ Len(t) = l + 1
      /\ \A j \in 1 .. l + 1 : t[j] = (n \div Pow[(l + 1) - j]) % 2
  BY <1>1, PathType
<1> HIDE DEF s, t
<1>4. ASSUME NEW j \in 1 .. Len(s)
      PROVE  t[j] = s[j]
  <2>1. j \in 1 .. l /\ j \in 1 .. l + 1 /\ l - j \in 0 .. MaxLgn /\ l - j < MaxLgn
        /\ (l - j) + 1 = (l + 1) - j
    BY <1>1, <1>2
  <2>2. Pow[(l + 1) - j] = 2 * Pow[l - j] /\ Pow[l - j] \in Nat \ {0}
    BY <2>1, PowType
  <2>3. n \div Pow[(l + 1) - j] = m \div Pow[l - j]
    BY <2>2, HalveBoth
  <2> QED BY <1>2, <1>3, <2>1, <2>3
<1>5. t[l + 1] = b
  <2>1. (l + 1) - (l + 1) = 0 /\ l + 1 \in 1 .. l + 1
    BY <1>1
  <2>2. Pow[0] = 1
    BY PowAssumption DEF PowAssumption
  <2>3. t[l + 1] = (n \div 1) % 2
    BY <1>3, <2>1, <2>2
  <2>4. n \div 1 = n /\ n % 2 = b
    BY <1>1
  <2> QED BY <2>3, <2>4
<1> HIDE DEF n
<1>6. t = Append(s, b)
  BY <1>2, <1>3, <1>4, <1>5, Extended
<1> QED BY <1>6 DEF s, t, n

LEMMA NoPath ==
    ASSUME NEW h, NEW n
    PROVE  Path(h, n, 0) = Root
BY DEF Path, Root

\* The results that stand for no leaf are not labels.
LEMMA NoLabel ==
    ASSUME NEW s \in Label
    PROVE  s # NotYet /\ s # Punctured
<1>1. s \in Seq({0, 1})
  BY DEF Label
<1>2. ASSUME NEW v \in {-1, -2}, s = <<v>>
      PROVE  FALSE
  <2>1. Len(s) = 1 /\ s[1] = v
    BY <1>2
  <2>2. s[1] \in {0, 1}
    BY <1>1, <2>1
  <2> QED BY <2>1, <2>2
<1> QED BY <1>2 DEF NotYet, Punctured

LEMMA Differ == NotYet # Punctured
<1>1. <<-2>>[1] # <<-1>>[1]
  OBVIOUS
<1> QED BY <1>1 DEF NotYet, Punctured
-----------------------------------------------------------------------------
(* The invariant holds at the start and after every action *)

LEMMA Facts ==
    ASSUME TypeOK
    PROVE  /\ MaxLgn \in Nat /\ lgn \in Nat /\ lgn \in 1 .. MaxLgn
           /\ x \in Nat /\ punc_x \in Nat
           /\ subheight \in Nat /\ subheight <= lgn - subheight
<1>1. MaxLgn \in Nat /\ lgn \in Nat /\ lgn \in 1 .. MaxLgn
  BY MaxLgnType DEF TypeOK
<1>2. Pow[lgn] \in Nat
  BY <1>1, PowType
<1>3. x \in Nat /\ punc_x \in Nat
  BY <1>2 DEF TypeOK
<1> QED BY <1>1, <1>3 DEF subheight

LEMMA AppendType ==
    ASSUME NEW s \in Label, NEW b \in {0, 1}
    PROVE  Append(s, b) \in Label /\ Root \in Label
BY DEF Label, Root

LEMMA ChildType ==
    ASSUME NEW s \in Label, NEW b \in {0, 1}
    PROVE  Child(s, b) = Append(s, b) /\ Append(s, b) \in Label
BY AppendType DEF Child, PRG

LEMMA InitInv == Init => IInv
<1> SUFFICES ASSUME Init PROVE IInv
  OBVIOUS
<1> USE DEF Init
<1>1. TypeOK
  <2>1. Root \in Label /\ keys \in Seq(Label) /\ Len(keys) = 0 /\ prev_nodes \in Seq(Label)
        /\ cur_nodes \in Seq(Label)
    BY DEF Label, Root
  <2>2. MaxLgn \in Nat /\ lgn \in Nat
    BY MaxLgnType
  <2>3. Pow[lgn] \in Nat
    BY <2>2, PowType
  <2>4. punc_number \in Nat
    BY <2>3
  <2> QED BY <2>1, <2>2, <2>4 DEF TypeOK
<1>2. PuncInv
  <2>1. lgn - (i - 1) = lgn /\ i - 1 = 0 /\ i \in 1 .. lgn + 1
    BY <1>1, Facts
  <2>2. Pow[lgn] \in Nat
    BY <1>1, Facts, PowType
  <2>3. punc_number < Pow[lgn] /\ punc_x = bitvec + punc_number
    BY <2>2
  <2>4. bitvec = Pow[lgn] * 0 /\ 0 \in Nat
    BY <2>2
  <2>5. node_key = Path(lgn, punc_x, 0)
    BY NoPath
  <2> QED BY <2>1, <2>3, <2>4, <2>5 DEF PuncInv
<1>3. KeysInv
  BY DEF KeysInv
<1>4. EvalPuncInv /\ EvalInv /\ BreadthInv
  BY DEF EvalPuncInv, EvalInv, BreadthInv
<1> QED BY <1>1, <1>2, <1>3, <1>4 DEF IInv

\* The bit that one turn of Punc finds, and what it leaves.
LEMMA PuncTurn ==
    ASSUME IInv, pc = "Punc", i <= lgn, NEW b \in {0, 1}, NEW r \in Nat, r < Half,
           punc_number = Half * b + r
    PROVE  /\ i \in 1 .. lgn /\ Half \in Nat \ {0} /\ lgn - ((i + 1) - 1) = lgn - i
           /\ (punc_x \div Pow[lgn - i]) % 2 = b
           /\ Append(node_key, b) = Path(lgn, punc_x, (i + 1) - 1)
           /\ node_key = Path(lgn, punc_x, i - 1) /\ node_key \in Label
           /\ \E q \in Nat : bitvec + Half * b = Half * q
           /\ punc_x = (bitvec + Half * b) + r
<1>1. TypeOK /\ PuncInv
  BY DEF IInv
<1>2. i \in 1 .. lgn /\ lgn - i \in 0 .. MaxLgn /\ lgn - i < MaxLgn
      /\ lgn - (i - 1) = (lgn - i) + 1 /\ i \in Nat
      /\ lgn - ((i + 1) - 1) = lgn - i /\ (i + 1) - 1 = i /\ lgn \in 0 .. MaxLgn
      /\ punc_x \in Nat /\ bitvec \in Nat
  <2>1. MaxLgn \in Nat /\ lgn \in Nat /\ lgn \in 1 .. MaxLgn /\ punc_x \in Nat
    BY <1>1, Facts
  <2>2. i \in 1 .. lgn + 1
    BY <1>1 DEF PuncInv
  <2>3. bitvec \in Nat
    BY <1>1 DEF TypeOK
  <2> QED BY <2>1, <2>2, <2>3
<1>3. Half \in Nat \ {0} /\ Pow[lgn - (i - 1)] = 2 * Half
  BY <1>2, PowType DEF Half
<1>4. PICK q \in Nat : bitvec = (2 * Half) * q
  BY <1>1, <1>3 DEF PuncInv
<1>5. punc_x = bitvec + punc_number /\ node_key = Path(lgn, punc_x, i - 1)
  BY <1>1 DEF PuncInv
<1>6. punc_x = (2 * Half) * q + Half * b + r
  <2>1. Half * b \in Nat /\ (2 * Half) * q \in Nat
    BY <1>3
  <2> QED BY <1>4, <1>5, <2>1
<1>7. (punc_x \div Half) % 2 = b
  <2>1. r \in 0 .. Half - 1
    BY <1>3
  <2> QED BY <1>3, <1>6, <2>1, TopBit
<1>8. Path(lgn, punc_x, i) = Append(Path(lgn, punc_x, i - 1), (punc_x \div Pow[lgn - i]) % 2)
  BY <1>2, PathGrows
<1>9. bitvec + Half * b = Half * (2 * q + b) /\ 2 * q + b \in Nat
  BY <1>3, <1>4
<1>10. punc_x = (bitvec + Half * b) + r
  <2>1. Half * b \in Nat
    BY <1>3
  <2> QED BY <1>2, <1>5, <2>1
<1>11. node_key \in Label
  BY <1>1 DEF TypeOK
<1>12. (punc_x \div Pow[lgn - i]) % 2 = b
  BY <1>7 DEF Half
<1>13. Append(node_key, b) = Path(lgn, punc_x, (i + 1) - 1)
  BY <1>2, <1>5, <1>8, <1>12
<1> QED BY <1>2, <1>3, <1>5, <1>9, <1>10, <1>11, <1>12, <1>13

\* One more key: the others stay.
LEMMA OneMore ==
    ASSUME NEW S, NEW s \in Seq(S), NEW k \in S
    PROVE  /\ Append(s, k) \in Seq(S) /\ Len(Append(s, k)) = Len(s) + 1
           /\ \A l \in 1 .. Len(s) : Append(s, k)[l] = s[l]
           /\ Append(s, k)[Len(s) + 1] = k
OBVIOUS

\* Both branches of the loop of Punc: they differ in the bit.
LEMMA PuncStep ==
    ASSUME IInv, pc = "Punc", i <= lgn, NEW b \in {0, 1}, NEW r \in Nat, r < Half,
           punc_number = Half * b + r, punc_number' = r,
           keys' = Append(keys, Append(node_key, 1 - b)),
           node_key' = Append(node_key, b), bitvec' = bitvec + Half * b, i' = i + 1,
           UNCHANGED <<args, pc, punc_res, eval_res, prev_nodes, cur_nodes>>
    PROVE  IInv'
<1> DEFINE k == Append(node_key, 1 - b)
<1>0. TypeOK /\ KeysInv /\ EvalPuncInv /\ EvalInv /\ BreadthInv /\ UNCHANGED args
  BY DEF IInv
<1>1. i \in 1 .. lgn /\ Half \in Nat \ {0} /\ lgn - ((i + 1) - 1) = lgn - i
      /\ (punc_x \div Pow[lgn - i]) % 2 = b
      /\ Append(node_key, b) = Path(lgn, punc_x, (i + 1) - 1)
      /\ node_key = Path(lgn, punc_x, i - 1) /\ node_key \in Label
      /\ (\E q \in Nat : bitvec + Half * b = Half * q)
      /\ punc_x = (bitvec + Half * b) + r
  BY PuncTurn
<1>2. 1 - b \in {0, 1} /\ lgn \in Nat /\ i \in Nat
  BY <1>0, <1>1, Facts
<1>3. k \in Label /\ Append(node_key, b) \in Label
  BY <1>1, <1>2, AppendType
<1> HIDE DEF k
<1>4. keys \in Seq(Label) /\ Len(keys) = i - 1
  BY <1>0 DEF TypeOK
<1>5. keys' \in Seq(Label) /\ Len(keys') = i /\ keys'[i] = k
      /\ \A l \in 1 .. Len(keys) : keys'[l] = keys[l]
  <2>1. keys' = Append(keys, k)
    BY DEF k
  <2>2. (i - 1) + 1 = i
    BY <1>2
  <2>3. Append(keys, k) \in Seq(Label) /\ Len(Append(keys, k)) = Len(keys) + 1
        /\ (\A l \in 1 .. Len(keys) : Append(keys, k)[l] = keys[l])
        /\ Append(keys, k)[Len(keys) + 1] = k
    BY <1>3, <1>4, OneMore
  <2> QED BY <1>4, <2>1, <2>2, <2>3
<1>6. UNCHANGED <<lgn, x, punc_x>>
  BY <1>0 DEF args
<1>7. TypeOK'
  <2>1. Half * b \in Nat /\ bitvec \in Nat
    BY <1>0, <1>1 DEF TypeOK
  <2>2. i' \in 0 .. lgn + 1 /\ i' - 1 = i /\ bitvec' \in Nat
    BY <1>1, <1>2, <2>1
  <2> QED BY <1>0, <1>3, <1>5, <1>6, <2>2 DEF TypeOK
<1>8. PuncInv'
  <2>1. i' \in 1 .. lgn + 1 /\ Pow[lgn - (i' - 1)] = Half
    BY <1>1, <1>2 DEF Half
  <2>2. (\E q \in Nat : bitvec' = Half * q) /\ punc_x = bitvec' + punc_number'
        /\ node_key' = Path(lgn, punc_x, i' - 1) /\ punc_number' < Half
    BY <1>1
  <2> QED BY <1>6, <2>1, <2>2 DEF PuncInv
<1>9. KeysInv'
  <2> SUFFICES ASSUME NEW l \in 1 .. Len(keys')
      PROVE  keys'[l] = Append(Path(lgn, punc_x, l - 1), 1 - ((punc_x \div Pow[lgn - l]) % 2))
    BY <1>6 DEF KeysInv
  <2>1. l \in 1 .. Len(keys) \/ l = i
    BY <1>1, <1>2, <1>4, <1>5
  <2>2. CASE l \in 1 .. Len(keys)
    BY <1>0, <1>5, <2>2 DEF KeysInv
  <2>3. CASE l = i
    BY <1>1, <1>5, <2>3 DEF k
  <2> QED BY <2>1, <2>2, <2>3
<1>10. EvalPuncInv' /\ EvalInv' /\ BreadthInv'
  BY <1>0, <1>6 DEF EvalPuncInv, EvalInv, BreadthInv
<1> QED BY <1>7, <1>8, <1>9, <1>10 DEF IInv

LEMMA PuncRightInv == ASSUME IInv, PuncRight PROVE IInv'
<1> DEFINE r == punc_number - Half
<1>0. TypeOK /\ PuncInv
  BY DEF IInv
<1>1. pc = "Punc" /\ i <= lgn /\ Half <= punc_number
  BY DEF PuncRight
<1>2. Half \in Nat \ {0} /\ Pow[lgn - (i - 1)] = 2 * Half
  <2>1. lgn - i \in 0 .. MaxLgn /\ lgn - i < MaxLgn /\ lgn - (i - 1) = (lgn - i) + 1
    BY <1>0, <1>1, Facts DEF PuncInv
  <2> QED BY <2>1, PowType DEF Half
<1>3. punc_number \in Nat /\ punc_number < 2 * Half
  BY <1>0, <1>1, <1>2 DEF PuncInv, TypeOK
<1>4. r \in Nat /\ r < Half /\ punc_number = Half * 1 + r /\ Half * 1 = Half /\ 1 - 1 = 0
  BY <1>1, <1>2, <1>3
<1>5. punc_number' = r /\ keys' = Append(keys, Append(node_key, 1 - 1))
      /\ node_key' = Append(node_key, 1) /\ bitvec' = bitvec + Half * 1 /\ i' = i + 1
      /\ UNCHANGED <<args, pc, punc_res, eval_res, prev_nodes, cur_nodes>>
  BY <1>4 DEF PuncRight, PRG
<1> HIDE DEF r
<1> QED BY <1>1, <1>4, <1>5, PuncStep

LEMMA PuncLeftInv == ASSUME IInv, PuncLeft PROVE IInv'
<1>0. TypeOK /\ PuncInv
  BY DEF IInv
<1>1. pc = "Punc" /\ i <= lgn /\ punc_number < Half
  BY DEF PuncLeft
<1>2. Half \in Nat \ {0}
  <2>1. lgn - i \in 0 .. MaxLgn
    BY <1>0, <1>1, Facts DEF PuncInv
  <2> QED BY <2>1, PowType DEF Half
<1>3. punc_number \in Nat /\ bitvec \in Nat
  BY <1>0 DEF TypeOK
<1>4. punc_number = Half * 0 + punc_number /\ bitvec + Half * 0 = bitvec /\ 1 - 0 = 1
  BY <1>2, <1>3
<1>5. punc_number' = punc_number /\ keys' = Append(keys, Append(node_key, 1 - 0))
      /\ node_key' = Append(node_key, 0) /\ bitvec' = bitvec + Half * 0 /\ i' = i + 1
      /\ UNCHANGED <<args, pc, punc_res, eval_res, prev_nodes, cur_nodes>>
  BY <1>4 DEF PuncLeft, PRG
<1> QED BY <1>1, <1>3, <1>4, <1>5, PuncStep

\* What every action after Punc keeps: the arguments, the keys and what is known of them.
LEMMA KeysStay ==
    ASSUME IInv, pc # "Punc", pc' # "Punc", UNCHANGED <<args, punc_number, keys, bitvec>>
    PROVE  /\ UNCHANGED <<lgn, x, punc_x>> /\ bitvec' = punc_x /\ PuncInv' /\ KeysInv'
           /\ punc_number' \in Nat /\ bitvec' \in Nat
           /\ keys' \in Seq(Label) /\ Len(keys') = lgn
           /\ lgn \in 1 .. MaxLgn /\ x \in 0 .. Pow[lgn] - 1 /\ punc_x \in 0 .. Pow[lgn] - 1
<1>1. UNCHANGED <<lgn, x, punc_x>>
  BY DEF args
<1>2. KeysInv'
  BY <1>1 DEF IInv, KeysInv
<1>3. PuncInv'
  BY DEF PuncInv
<1>4. bitvec' = punc_x
  BY DEF IInv, EvalPuncInv
<1>5. /\ punc_number' \in Nat /\ bitvec' \in Nat
      /\ keys' \in Seq(Label) /\ Len(keys') = lgn
      /\ lgn \in 1 .. MaxLgn /\ x \in 0 .. Pow[lgn] - 1 /\ punc_x \in 0 .. Pow[lgn] - 1
  BY DEF IInv, TypeOK
<1> QED BY <1>1, <1>2, <1>3, <1>4, <1>5

LEMMA PuncReturnInv == ASSUME IInv, PuncReturn PROVE IInv'
<1>0. TypeOK /\ PuncInv /\ KeysInv /\ EvalPuncInv /\ EvalInv /\ BreadthInv
  BY DEF IInv
<1>1. pc = "Punc" /\ i > lgn /\ pc' = "EvalPunc" /\ i' = 1
      /\ UNCHANGED <<args, node_key, punc_number, keys, bitvec, punc_res, eval_res, prev_nodes,
                     cur_nodes>>
  BY DEF PuncReturn
<1>2. UNCHANGED <<lgn, x, punc_x>>
  BY <1>1 DEF args
<1>3. lgn \in Nat /\ i \in 1 .. lgn + 1
  BY <1>0, <1>1, Facts DEF PuncInv
<1>4. i = lgn + 1 /\ i - 1 = lgn /\ lgn - (i - 1) = 0 /\ 1 \in 1 .. lgn + 1 /\ 1 - 1 = 0
      /\ 1 \in 0 .. lgn + 1
  BY <1>1, <1>3
<1>5. Pow[lgn - (i - 1)] = 1
  BY <1>4, PowAssumption DEF PowAssumption
<1>6. bitvec = punc_x
  <2>1. punc_number < 1 /\ punc_x = bitvec + punc_number
    BY <1>0, <1>1, <1>5 DEF PuncInv
  <2>2. punc_number \in Nat /\ bitvec \in Nat
    BY <1>0 DEF TypeOK
  <2> QED BY <2>1, <2>2
<1>7. TypeOK'
  <2>1. Len(keys) = lgn
    BY <1>0, <1>1, <1>4 DEF TypeOK
  <2> QED BY <1>0, <1>1, <1>2, <1>4, <2>1 DEF TypeOK
<1>8. PuncInv'
  BY <1>1 DEF PuncInv
<1>9. KeysInv'
  BY <1>0, <1>1, <1>2 DEF KeysInv
<1>10. EvalPuncInv'
  <2>1. Path(lgn, x, i' - 1) = Path(lgn, punc_x, i' - 1)
    BY <1>1, <1>4, NoPath
  <2>2. punc_res = NotYet \/ punc_res = IF x = punc_x THEN Punctured ELSE Path(lgn, x, lgn)
    BY <1>0 DEF EvalPuncInv
  <2> QED BY <1>1, <1>2, <1>4, <1>6, <2>1, <2>2 DEF EvalPuncInv
<1>11. EvalInv' /\ BreadthInv'
  BY <1>0, <1>1, <1>2 DEF EvalInv, BreadthInv
<1> QED BY <1>7, <1>8, <1>9, <1>10, <1>11 DEF IInv

LEMMA EvalPuncReturnsInv ==
    ASSUME IInv, pc \in {"EvalPunc", "EvalPuncDown"}, NEW res, EvalPuncReturns(res),
           res = IF x = punc_x THEN Punctured ELSE Path(lgn, x, lgn),
           res \in Label \cup {Punctured}
    PROVE  IInv'
<1>0. TypeOK /\ EvalPuncInv /\ EvalInv /\ BreadthInv
  BY DEF IInv
<1>1. punc_res' = res /\ pc' = "Eval" /\ i' = 1 /\ node_key' = Root
      /\ UNCHANGED <<args, punc_number, keys, bitvec, eval_res, prev_nodes, cur_nodes>>
  BY DEF EvalPuncReturns
<1>2. pc # "Punc" /\ pc' # "Punc"
  BY <1>1
<1>3. /\ UNCHANGED <<lgn, x, punc_x>> /\ bitvec' = punc_x /\ PuncInv' /\ KeysInv'
      /\ punc_number' \in Nat /\ bitvec' \in Nat
      /\ keys' \in Seq(Label) /\ Len(keys') = lgn
      /\ lgn \in 1 .. MaxLgn /\ x \in 0 .. Pow[lgn] - 1 /\ punc_x \in 0 .. Pow[lgn] - 1
  BY <1>1, <1>2, KeysStay
<1>4. 1 \in 0 .. lgn + 1 /\ 1 \in 1 .. lgn + 1 /\ 1 - 1 = 0
  BY <1>0, Facts
<1>5. Root \in Label
  BY DEF Root, Label
<1>6. TypeOK'
  <2>1. eval_res \in Label \cup {NotYet} /\ prev_nodes \in Seq(Label) /\ cur_nodes \in Seq(Label)
    BY <1>0 DEF TypeOK
  <2> QED BY <1>1, <1>3, <1>4, <1>5, <2>1 DEF TypeOK
<1>7. EvalPuncInv'
  BY <1>1, <1>3 DEF EvalPuncInv
<1>8. EvalInv'
  <2>1. res # NotYet
    BY NoLabel, Differ
  <2>2. node_key' = Path(lgn, x, i' - 1)
    BY <1>1, <1>4, NoPath
  <2>3. eval_res' = NotYet
    BY <1>0, <1>1 DEF EvalInv
  <2> QED BY <1>1, <1>3, <1>4, <2>1, <2>2, <2>3 DEF EvalInv
<1>9. BreadthInv'
  BY <1>1 DEF BreadthInv
<1> QED BY <1>3, <1>6, <1>7, <1>8, <1>9 DEF IInv

LEMMA EvalPuncPuncturedInv == ASSUME IInv, EvalPuncPunctured PROVE IInv'
<1>1. pc = "EvalPunc" /\ x = bitvec /\ EvalPuncReturns(Punctured)
  BY DEF EvalPuncPunctured
<1>2. x = punc_x
  BY <1>1 DEF IInv, EvalPuncInv
<1> QED BY <1>1, <1>2, EvalPuncReturnsInv

LEMMA EvalPuncReturnInv == ASSUME IInv, EvalPuncReturn PROVE IInv'
<1>0. TypeOK /\ EvalPuncInv
  BY DEF IInv
<1>1. pc = "EvalPuncDown" /\ i > lgn /\ EvalPuncReturns(node_key)
  BY DEF EvalPuncReturn
<1>2. i \in 1 .. lgn + 1 /\ node_key = Path(lgn, x, i - 1) /\ x # punc_x /\ lgn \in Nat
  BY <1>0, <1>1, Facts DEF EvalPuncInv
<1>3. i - 1 = lgn
  BY <1>1, <1>2
<1>4. node_key \in Label
  BY <1>0 DEF TypeOK
<1> QED BY <1>1, <1>2, <1>3, <1>4, EvalPuncReturnsInv

\* The levels of x and of the point that one turn of a descent compares.
LEMMA Level ==
    ASSUME IInv, pc \in {"EvalPunc", "EvalPuncDown", "Eval"}, i <= lgn
    PROVE  /\ i \in 1 .. lgn /\ i + 1 \in 1 .. lgn + 1 /\ i + 1 \in 0 .. lgn + 1
           /\ (i + 1) - 1 = i
           /\ Bit(x, i) \in {0, 1} /\ Bit(punc_x, i) \in {0, 1}
           /\ Path(lgn, x, i) = Append(Path(lgn, x, i - 1), Bit(x, i))
           /\ Path(lgn, punc_x, i) = Append(Path(lgn, punc_x, i - 1), Bit(punc_x, i))
<1>0. TypeOK /\ EvalPuncInv /\ EvalInv
  BY DEF IInv
<1>1. MaxLgn \in Nat /\ lgn \in Nat /\ lgn \in 1 .. MaxLgn /\ x \in Nat /\ punc_x \in Nat
  BY <1>0, Facts
<1>2. i \in 1 .. lgn + 1
  BY <1>0 DEF EvalPuncInv, EvalInv
<1>3. i \in 1 .. lgn /\ lgn - i \in 0 .. MaxLgn /\ lgn \in 0 .. MaxLgn
      /\ i + 1 \in 1 .. lgn + 1 /\ i + 1 \in 0 .. lgn + 1 /\ (i + 1) - 1 = i
  BY <1>1, <1>2
<1>4. Bit(x, i) \in {0, 1} /\ Bit(punc_x, i) \in {0, 1}
  BY <1>1, <1>3, BitType DEF Bit
<1>5. Path(lgn, x, i) = Append(Path(lgn, x, i - 1), Bit(x, i))
      /\ Path(lgn, punc_x, i) = Append(Path(lgn, punc_x, i - 1), Bit(punc_x, i))
  BY <1>1, <1>3, PathGrows DEF Bit
<1> QED BY <1>3, <1>4, <1>5

LEMMA EvalPuncSameBitInv == ASSUME IInv, EvalPuncSameBit PROVE IInv'
<1>0. TypeOK /\ EvalPuncInv /\ EvalInv /\ BreadthInv
  BY DEF IInv
<1>1. pc = "EvalPunc" /\ i <= lgn /\ Bit(x, i) = Bit(bitvec, i) /\ i' = i + 1
      /\ UNCHANGED <<args, pc, node_key, punc_number, keys, bitvec, punc_res, eval_res,
                     prev_nodes, cur_nodes>>
  BY DEF EvalPuncSameBit
<1>2. pc # "Punc" /\ pc' # "Punc"
  BY <1>1
<1>3. /\ UNCHANGED <<lgn, x, punc_x>> /\ bitvec' = punc_x /\ PuncInv' /\ KeysInv'
      /\ punc_number' \in Nat /\ bitvec' \in Nat
      /\ keys' \in Seq(Label) /\ Len(keys') = lgn
      /\ lgn \in 1 .. MaxLgn /\ x \in 0 .. Pow[lgn] - 1 /\ punc_x \in 0 .. Pow[lgn] - 1
  BY <1>1, <1>2, KeysStay
<1>4. /\ i \in 1 .. lgn /\ i + 1 \in 1 .. lgn + 1 /\ i + 1 \in 0 .. lgn + 1
      /\ (i + 1) - 1 = i
      /\ Path(lgn, x, i) = Append(Path(lgn, x, i - 1), Bit(x, i))
      /\ Path(lgn, punc_x, i) = Append(Path(lgn, punc_x, i - 1), Bit(punc_x, i))
  BY <1>1, Level
<1>5. TypeOK'
  BY <1>0, <1>1, <1>3, <1>4 DEF TypeOK
<1>6. EvalPuncInv'
  <2>1. bitvec = punc_x /\ Path(lgn, x, i - 1) = Path(lgn, punc_x, i - 1)
    BY <1>0, <1>1 DEF EvalPuncInv
  <2>2. Path(lgn, x, i) = Path(lgn, punc_x, i)
    BY <1>1, <1>4, <2>1
  <2>3. punc_res # NotYet => punc_res = IF x = punc_x THEN Punctured ELSE Path(lgn, x, lgn)
    BY <1>0 DEF EvalPuncInv
  <2> QED BY <1>1, <1>3, <1>4, <2>2, <2>3 DEF EvalPuncInv
<1>7. EvalInv' /\ BreadthInv'
  BY <1>0, <1>1, <1>3 DEF EvalInv, BreadthInv
<1> QED BY <1>3, <1>5, <1>6, <1>7 DEF IInv

\* A label of EvalPunc that is the path to x, one level down.
LEMMA EvalPuncDescends ==
    ASSUME IInv, pc \in {"EvalPunc", "EvalPuncDown"}, i <= lgn, x # punc_x,
           node_key' = Path(lgn, x, i), i' = i + 1, pc' = "EvalPuncDown",
           UNCHANGED <<args, punc_number, keys, bitvec, punc_res, eval_res, prev_nodes, cur_nodes>>
    PROVE  IInv'
<1>0. TypeOK /\ EvalPuncInv /\ EvalInv /\ BreadthInv
  BY DEF IInv
<1>2. pc # "Punc" /\ pc' # "Punc"
  OBVIOUS
<1>3. /\ UNCHANGED <<lgn, x, punc_x>> /\ bitvec' = punc_x /\ PuncInv' /\ KeysInv'
      /\ punc_number' \in Nat /\ bitvec' \in Nat
      /\ keys' \in Seq(Label) /\ Len(keys') = lgn
      /\ lgn \in 1 .. MaxLgn /\ x \in 0 .. Pow[lgn] - 1 /\ punc_x \in 0 .. Pow[lgn] - 1
  BY <1>2, KeysStay
<1>4. i \in 1 .. lgn /\ i + 1 \in 1 .. lgn + 1 /\ i + 1 \in 0 .. lgn + 1 /\ (i + 1) - 1 = i
  BY Level
<1>5. node_key' \in Label
  <2>1. lgn \in 0 .. MaxLgn /\ i \in 0 .. lgn /\ x \in Nat
    BY <1>0, <1>4, Facts
  <2> QED BY <2>1, PathType
<1>6. TypeOK'
  <2>1. punc_res \in Label \cup {NotYet, Punctured} /\ eval_res \in Label \cup {NotYet}
        /\ prev_nodes \in Seq(Label) /\ cur_nodes \in Seq(Label)
    BY <1>0 DEF TypeOK
  <2> QED BY <1>3, <1>4, <1>5, <2>1 DEF TypeOK
<1>7. EvalPuncInv'
  <2>1. punc_res # NotYet => punc_res = IF x = punc_x THEN Punctured ELSE Path(lgn, x, lgn)
    BY <1>0 DEF EvalPuncInv
  <2> QED BY <1>3, <1>4, <2>1 DEF EvalPuncInv
<1>8. EvalInv' /\ BreadthInv'
  BY <1>0, <1>3 DEF EvalInv, BreadthInv
<1> QED BY <1>3, <1>6, <1>7, <1>8 DEF IInv

LEMMA EvalPuncTakeKeyInv == ASSUME IInv, EvalPuncTakeKey PROVE IInv'
<1>0. TypeOK /\ KeysInv /\ EvalPuncInv
  BY DEF IInv
<1>1. pc = "EvalPunc" /\ x # bitvec /\ i <= lgn /\ Bit(x, i) # Bit(bitvec, i)
      /\ node_key' = keys[i] /\ pc' = "EvalPuncDown" /\ i' = i + 1
      /\ UNCHANGED <<args, punc_number, keys, bitvec, punc_res, eval_res, prev_nodes, cur_nodes>>
  BY DEF EvalPuncTakeKey
<1>2. bitvec = punc_x /\ Path(lgn, x, i - 1) = Path(lgn, punc_x, i - 1)
  BY <1>0, <1>1 DEF EvalPuncInv
<1>3. i \in 1 .. lgn /\ Bit(x, i) \in {0, 1} /\ Bit(punc_x, i) \in {0, 1}
      /\ Path(lgn, x, i) = Append(Path(lgn, x, i - 1), Bit(x, i))
  BY <1>1, Level
<1>4. Bit(x, i) = 1 - Bit(punc_x, i)
  BY <1>1, <1>2, <1>3
<1>5. keys[i] = Append(Path(lgn, punc_x, i - 1), 1 - Bit(punc_x, i))
  <2>1. i \in 1 .. Len(keys)
    BY <1>0, <1>1, <1>3 DEF TypeOK
  <2> QED BY <1>0, <2>1 DEF KeysInv, Bit
<1>6. node_key' = Path(lgn, x, i)
  BY <1>1, <1>2, <1>3, <1>4, <1>5
<1> QED BY <1>1, <1>2, <1>6, EvalPuncDescends

LEMMA EvalPuncDownInv == ASSUME IInv, EvalPuncDown PROVE IInv'
<1>1. pc = "EvalPuncDown" /\ i <= lgn /\ node_key' = Child(node_key, Bit(x, i)) /\ i' = i + 1
      /\ UNCHANGED <<args, pc, punc_number, keys, bitvec, punc_res, eval_res, prev_nodes,
                     cur_nodes>>
  BY DEF EvalPuncDown
<1>2. node_key = Path(lgn, x, i - 1) /\ x # punc_x /\ node_key \in Label
  BY <1>1 DEF IInv, EvalPuncInv, TypeOK
<1>3. Bit(x, i) \in {0, 1} /\ Path(lgn, x, i) = Append(Path(lgn, x, i - 1), Bit(x, i))
  BY <1>1, Level
<1>4. node_key' = Path(lgn, x, i)
  BY <1>1, <1>2, <1>3, ChildType
<1> QED BY <1>1, <1>2, <1>4, EvalPuncDescends

\* What every action after EvalPunc keeps as well: the result of EvalPunc.
LEMMA ResultStays ==
    ASSUME IInv, pc \in {"Eval", "BreadthSpine", "BreadthLevel", "done"},
           pc' \in {"Eval", "BreadthSpine", "BreadthLevel", "done"},
           UNCHANGED <<args, punc_number, keys, bitvec, punc_res>>
    PROVE  /\ UNCHANGED <<lgn, x, punc_x>> /\ PuncInv' /\ KeysInv' /\ EvalPuncInv'
           /\ punc_res' # NotYet /\ punc_res' \in Label \cup {NotYet, Punctured}
           /\ punc_number' \in Nat /\ bitvec' \in Nat
           /\ keys' \in Seq(Label) /\ Len(keys') = lgn
           /\ lgn \in 1 .. MaxLgn /\ x \in 0 .. Pow[lgn] - 1 /\ punc_x \in 0 .. Pow[lgn] - 1
<1>1. pc # "Punc" /\ pc' # "Punc"
  OBVIOUS
<1>2. /\ UNCHANGED <<lgn, x, punc_x>> /\ bitvec' = punc_x /\ PuncInv' /\ KeysInv'
      /\ punc_number' \in Nat /\ bitvec' \in Nat
      /\ keys' \in Seq(Label) /\ Len(keys') = lgn
      /\ lgn \in 1 .. MaxLgn /\ x \in 0 .. Pow[lgn] - 1 /\ punc_x \in 0 .. Pow[lgn] - 1
  BY <1>1, KeysStay
<1>3. punc_res # NotYet
  BY DEF IInv, EvalInv
<1>4. EvalPuncInv'
  BY <1>2 DEF IInv, EvalPuncInv
<1>5. punc_res \in Label \cup {NotYet, Punctured}
  BY DEF IInv, TypeOK
<1> QED BY <1>2, <1>3, <1>4, <1>5

LEMMA EvalDownInv == ASSUME IInv, EvalDown PROVE IInv'
<1>0. TypeOK /\ EvalInv /\ BreadthInv
  BY DEF IInv
<1>1. pc = "Eval" /\ i <= lgn /\ node_key' = Child(node_key, Bit(x, i)) /\ i' = i + 1
      /\ UNCHANGED <<args, pc, punc_number, keys, bitvec, punc_res, eval_res, prev_nodes,
                     cur_nodes>>
  BY DEF EvalDown
<1>2. /\ UNCHANGED <<lgn, x, punc_x>> /\ PuncInv' /\ KeysInv' /\ EvalPuncInv'
      /\ punc_res' # NotYet /\ punc_res' \in Label \cup {NotYet, Punctured}
      /\ punc_number' \in Nat /\ bitvec' \in Nat
      /\ keys' \in Seq(Label) /\ Len(keys') = lgn
      /\ lgn \in 1 .. MaxLgn /\ x \in 0 .. Pow[lgn] - 1 /\ punc_x \in 0 .. Pow[lgn] - 1
  BY <1>1, ResultStays
<1>3. i + 1 \in 1 .. lgn + 1 /\ i + 1 \in 0 .. lgn + 1 /\ (i + 1) - 1 = i
      /\ Bit(x, i) \in {0, 1} /\ Path(lgn, x, i) = Append(Path(lgn, x, i - 1), Bit(x, i))
  BY <1>1, Level
<1>4. node_key = Path(lgn, x, i - 1) /\ node_key \in Label
  BY <1>0, <1>1 DEF EvalInv, TypeOK
<1>5. node_key' = Path(lgn, x, i) /\ node_key' \in Label
  BY <1>1, <1>3, <1>4, ChildType
<1>6. TypeOK'
  <2>1. eval_res \in Label \cup {NotYet} /\ prev_nodes \in Seq(Label) /\ cur_nodes \in Seq(Label)
    BY <1>0 DEF TypeOK
  <2> QED BY <1>1, <1>2, <1>3, <1>5, <2>1 DEF TypeOK
<1>7. EvalInv'
  <2>1. eval_res = NotYet
    BY <1>0, <1>1 DEF EvalInv
  <2> QED BY <1>1, <1>2, <1>3, <1>5, <2>1 DEF EvalInv
<1>8. BreadthInv'
  BY <1>1 DEF BreadthInv
<1> QED BY <1>2, <1>6, <1>7, <1>8 DEF IInv

LEMMA EvalReturnInv == ASSUME IInv, EvalReturn PROVE IInv'
<1>0. TypeOK /\ EvalInv
  BY DEF IInv
<1>1. pc = "Eval" /\ i > lgn /\ eval_res' = node_key /\ pc' = "BreadthSpine" /\ i' = 0
      /\ node_key' = Root
      /\ UNCHANGED <<args, punc_number, keys, bitvec, punc_res, prev_nodes, cur_nodes>>
  BY DEF EvalReturn
<1>2. /\ UNCHANGED <<lgn, x, punc_x>> /\ PuncInv' /\ KeysInv' /\ EvalPuncInv'
      /\ punc_res' # NotYet /\ punc_res' \in Label \cup {NotYet, Punctured}
      /\ punc_number' \in Nat /\ bitvec' \in Nat
      /\ keys' \in Seq(Label) /\ Len(keys') = lgn
      /\ lgn \in 1 .. MaxLgn /\ x \in 0 .. Pow[lgn] - 1 /\ punc_x \in 0 .. Pow[lgn] - 1
  BY <1>1, ResultStays
<1>3. i \in 1 .. lgn + 1 /\ node_key = Path(lgn, x, i - 1) /\ node_key \in Label
  BY <1>0, <1>1 DEF EvalInv, TypeOK
<1>4. lgn \in Nat /\ subheight \in Nat
  BY <1>0, Facts
<1>5. i - 1 = lgn /\ 0 \in 0 .. subheight /\ 0 \in 0 .. lgn + 1
  BY <1>1, <1>3, <1>4
<1>6. Root \in Label /\ Root = Path(0, 0, 0)
  <2>1. Root \in Label
    BY DEF Root, Label
  <2> QED BY <2>1, NoPath
<1>7. TypeOK'
  <2>1. prev_nodes \in Seq(Label) /\ cur_nodes \in Seq(Label)
    BY <1>0 DEF TypeOK
  <2> QED BY <1>1, <1>2, <1>3, <1>5, <1>6, <2>1 DEF TypeOK
<1>8. EvalInv'
  BY <1>1, <1>2, <1>3, <1>5 DEF EvalInv
<1>9. BreadthInv'
  <2>1. subheight' = subheight
    BY <1>2 DEF subheight
  <2> QED BY <1>1, <1>5, <1>6, <2>1 DEF BreadthInv
<1> QED BY <1>2, <1>7, <1>8, <1>9 DEF IInv

\* What every action of BreadthEval keeps.
LEMMA BreadthStays ==
    ASSUME IInv, pc \in {"BreadthSpine", "BreadthLevel"},
           pc' \in {"BreadthSpine", "BreadthLevel", "done"},
           UNCHANGED <<args, punc_number, keys, bitvec, punc_res, eval_res>>,
           i' \in 0 .. lgn + 1, node_key' \in Label, prev_nodes' \in Seq(Label),
           cur_nodes' \in Seq(Label), BreadthInv'
    PROVE  IInv'
<1>1. /\ UNCHANGED <<lgn, x, punc_x>> /\ PuncInv' /\ KeysInv' /\ EvalPuncInv'
      /\ punc_res' # NotYet /\ punc_res' \in Label \cup {NotYet, Punctured}
      /\ punc_number' \in Nat /\ bitvec' \in Nat
      /\ keys' \in Seq(Label) /\ Len(keys') = lgn
      /\ lgn \in 1 .. MaxLgn /\ x \in 0 .. Pow[lgn] - 1 /\ punc_x \in 0 .. Pow[lgn] - 1
  BY ResultStays
<1>2. eval_res = Path(lgn, x, lgn) /\ eval_res \in Label \cup {NotYet}
  BY DEF IInv, EvalInv, TypeOK
<1>3. TypeOK'
  BY <1>1, <1>2 DEF TypeOK
<1>4. EvalInv'
  BY <1>1, <1>2 DEF EvalInv
<1> QED BY <1>1, <1>3, <1>4 DEF IInv

LEMMA BreadthSpineInv == ASSUME IInv, BreadthSpine PROVE IInv'
<1>0. TypeOK /\ BreadthInv
  BY DEF IInv
<1>1. pc = "BreadthSpine" /\ i < subheight /\ node_key' = PRG(node_key).left /\ i' = i + 1
      /\ UNCHANGED <<args, pc, punc_number, keys, bitvec, punc_res, eval_res, prev_nodes,
                     cur_nodes>>
  BY DEF BreadthSpine
<1>2. MaxLgn \in Nat /\ lgn \in 1 .. MaxLgn /\ subheight \in Nat /\ subheight <= lgn - subheight
  BY <1>0, Facts
<1>3. i \in 0 .. subheight /\ node_key = Path(i, 0, i) /\ node_key \in Label
      /\ prev_nodes \in Seq(Label) /\ cur_nodes \in Seq(Label)
  BY <1>0, <1>1 DEF BreadthInv, TypeOK
<1>4. i \in 0 .. MaxLgn - 1 /\ i + 1 \in 0 .. subheight /\ i + 1 \in 0 .. lgn + 1
  BY <1>1, <1>2, <1>3
<1>5. Path(i + 1, 0, i + 1) = Append(Path(i, 0, i), 0)
  <2>1. 2 * 0 + 0 = 0
    OBVIOUS
  <2>2. Path(i + 1, 2 * 0 + 0, i + 1) = Append(Path(i, 0, i), 0)
    BY <1>4, PathChild
  <2> QED BY <2>1, <2>2
<1>6. node_key' = Path(i', 0, i') /\ node_key' \in Label
  <2>1. node_key' = Append(node_key, 0)
    BY <1>1 DEF PRG
  <2> QED BY <1>1, <1>3, <1>5, <2>1, AppendType
<1>7. BreadthInv'
  <2>1. subheight' = subheight
    BY <1>1 DEF subheight, args
  <2> QED BY <1>1, <1>4, <1>6, <2>1 DEF BreadthInv
<1> QED BY <1>1, <1>3, <1>4, <1>6, <1>7, BreadthStays

LEMMA BreadthStartInv == ASSUME IInv, BreadthStart PROVE IInv'
<1>0. TypeOK /\ BreadthInv
  BY DEF IInv
<1>1. pc = "BreadthSpine" /\ i = subheight /\ prev_nodes' = <<node_key>> /\ cur_nodes' = <<>>
      /\ pc' = "BreadthLevel"
      /\ UNCHANGED <<args, i, node_key, punc_number, keys, bitvec, punc_res, eval_res>>
  BY DEF BreadthStart
<1>2. lgn \in Nat /\ subheight \in Nat /\ subheight <= lgn - subheight
  BY <1>0, Facts
<1>3. node_key = Path(i, 0, i) /\ node_key \in Label
  BY <1>0, <1>1 DEF BreadthInv, TypeOK
<1>4. i - subheight = 0 /\ i \in subheight .. lgn /\ i \in 0 .. lgn + 1
  BY <1>1, <1>2
<1>5. Pow[0] = 1
  BY PowAssumption DEF PowAssumption
<1>6. prev_nodes' \in Seq(Label) /\ Len(prev_nodes') = 1 /\ prev_nodes'[1] = node_key
      /\ cur_nodes' \in Seq(Label) /\ Len(cur_nodes') = 2 * 0
  BY <1>1, <1>3
<1>7. BreadthInv'
  <2>1. subheight' = subheight
    BY <1>1 DEF subheight, args
  <2>2. \A n \in 1 .. Len(prev_nodes') : prev_nodes'[n] = Path(i, n - 1, i)
    <3> SUFFICES ASSUME NEW n \in 1 .. Len(prev_nodes')
        PROVE  prev_nodes'[n] = Path(i, n - 1, i)
      OBVIOUS
    <3>1. n = 1 /\ n - 1 = 0
      BY <1>6
    <3> QED BY <1>3, <1>6, <3>1
  <2>3. \A n \in 1 .. Len(cur_nodes') : cur_nodes'[n] = Path(i + 1, n - 1, i + 1)
    BY <1>6
  <2>4. \E c \in Nat : Len(cur_nodes') = 2 * c
    BY <1>6
  <2>5. pc' = "BreadthLevel" /\ i' = i /\ lgn' = lgn
    BY <1>1 DEF args
  <2>6. Len(prev_nodes') = Pow[i - subheight]
    BY <1>4, <1>5, <1>6
  <2> QED BY <1>4, <2>1, <2>2, <2>3, <2>4, <2>5, <2>6 DEF BreadthInv
<1> QED BY <1>1, <1>3, <1>4, <1>6, <1>7, BreadthStays

\* Two more labels: the others stay.
LEMMA TwoMore ==
    ASSUME NEW S, NEW s \in Seq(S), NEW a \in S, NEW b \in S
    PROVE  /\ s \o <<a, b>> \in Seq(S) /\ Len(s \o <<a, b>>) = Len(s) + 2
           /\ \A l \in 1 .. Len(s) : (s \o <<a, b>>)[l] = s[l]
           /\ (s \o <<a, b>>)[Len(s) + 1] = a /\ (s \o <<a, b>>)[Len(s) + 2] = b
<1>1. <<a, b>> \in Seq(S) /\ Len(<<a, b>>) = 2 /\ <<a, b>>[1] = a /\ <<a, b>>[2] = b
  OBVIOUS
<1> DEFINE t == <<a, b>>
<1>2. t \in Seq(S) /\ Len(t) = 2 /\ t[1] = a /\ t[2] = b
  BY <1>1
<1> HIDE DEF t
<1>3. /\ s \o t \in Seq(S) /\ Len(s \o t) = Len(s) + Len(t)
      /\ \A l \in 1 .. Len(s) + Len(t) :
           (s \o t)[l] = IF l <= Len(s) THEN s[l] ELSE t[l - Len(s)]
  BY <1>2, ConcatProperties
<1>4. Len(s) \in Nat
  OBVIOUS
<1>5. \A l \in 1 .. Len(s) : (s \o t)[l] = s[l]
  BY <1>2, <1>3, <1>4
<1>6. (s \o t)[Len(s) + 1] = a /\ (s \o t)[Len(s) + 2] = b
  BY <1>2, <1>3, <1>4
<1> QED BY <1>2, <1>3, <1>5, <1>6 DEF t

LEMMA BreadthExpandInv == ASSUME IInv, BreadthExpand PROVE IInv'
<1> DEFINE b == Len(cur_nodes) \div 2 + 1
           left == PRG(prev_nodes[b]).left
           right == PRG(prev_nodes[b]).right
<1>0. TypeOK /\ BreadthInv
  BY DEF IInv
<1>1. pc = "BreadthLevel" /\ i < lgn /\ LevelIsComplete /\ b <= Pow[i - subheight]
      /\ cur_nodes' = cur_nodes \o <<left, right>>
      /\ UNCHANGED <<args, pc, i, node_key, punc_number, keys, bitvec, punc_res, eval_res,
                     prev_nodes>>
  BY DEF BreadthExpand
<1>2. MaxLgn \in Nat /\ lgn \in Nat /\ lgn \in 1 .. MaxLgn /\ subheight \in Nat
      /\ subheight <= lgn - subheight
  BY <1>0, Facts
<1>3. /\ i \in subheight .. lgn /\ Len(prev_nodes) = Pow[i - subheight]
      /\ \A n \in 1 .. Len(prev_nodes) : prev_nodes[n] = Path(i, n - 1, i)
      /\ \E c \in Nat : Len(cur_nodes) = 2 * c
      /\ \A n \in 1 .. Len(cur_nodes) : cur_nodes[n] = Path(i + 1, n - 1, i + 1)
  BY <1>0, <1>1 DEF BreadthInv
<1>4. prev_nodes \in Seq(Label) /\ cur_nodes \in Seq(Label) /\ node_key \in Label
      /\ i \in 0 .. lgn + 1
  BY <1>0 DEF TypeOK
<1>5. PICK c \in Nat : Len(cur_nodes) = 2 * c
  BY <1>3
<1>6. b = c + 1 /\ b - 1 = c
  BY <1>5
<1> HIDE DEF b
<1>7. b \in 1 .. Len(prev_nodes)
  <2>1. Len(prev_nodes) \in Nat
    BY <1>4
  <2> QED BY <1>1, <1>3, <1>6, <2>1
<1>8. prev_nodes[b] = Path(i, c, i) /\ prev_nodes[b] \in Label
  BY <1>3, <1>4, <1>6, <1>7, ElementOfSeq
<1>9. left = Append(Path(i, c, i), 0) /\ right = Append(Path(i, c, i), 1)
  BY <1>8 DEF PRG
<1>10. left \in Label /\ right \in Label
  BY <1>8, <1>9, AppendType
<1>11. left = Path(i + 1, 2 * c + 0, i + 1) /\ right = Path(i + 1, 2 * c + 1, i + 1)
  <2>1. i \in 0 .. MaxLgn - 1
    BY <1>1, <1>2, <1>3
  <2> QED BY <1>9, <2>1, PathChild
<1> HIDE DEF left, right
<1>12. /\ cur_nodes' \in Seq(Label) /\ Len(cur_nodes') = Len(cur_nodes) + 2
       /\ \A l \in 1 .. Len(cur_nodes) : cur_nodes'[l] = cur_nodes[l]
       /\ cur_nodes'[Len(cur_nodes) + 1] = left /\ cur_nodes'[Len(cur_nodes) + 2] = right
  <2>1. /\ cur_nodes \o <<left, right>> \in Seq(Label)
        /\ Len(cur_nodes \o <<left, right>>) = Len(cur_nodes) + 2
        /\ \A l \in 1 .. Len(cur_nodes) : (cur_nodes \o <<left, right>>)[l] = cur_nodes[l]
        /\ (cur_nodes \o <<left, right>>)[Len(cur_nodes) + 1] = left
        /\ (cur_nodes \o <<left, right>>)[Len(cur_nodes) + 2] = right
    BY <1>4, <1>10, TwoMore
  <2> QED BY <1>1, <2>1
<1>13. ASSUME NEW n \in 1 .. Len(cur_nodes')
       PROVE  cur_nodes'[n] = Path(i + 1, n - 1, i + 1)
  <2>1. Len(cur_nodes') = 2 * c + 2 /\ Len(cur_nodes) = 2 * c
    BY <1>5, <1>12
  <2>2. n \in 1 .. Len(cur_nodes) \/ n = 2 * c + 1 \/ n = 2 * c + 2
    BY <2>1
  <2>3. CASE n \in 1 .. Len(cur_nodes)
    BY <1>3, <1>12, <2>3
  <2>4. CASE n = 2 * c + 1
    <3>1. n - 1 = 2 * c + 0
      BY <2>4
    <3>2. cur_nodes'[n] = left
      BY <1>12, <2>1, <2>4
    <3> QED BY <1>11, <3>1, <3>2
  <2>5. CASE n = 2 * c + 2
    <3>1. n - 1 = 2 * c + 1
      BY <2>5
    <3>2. cur_nodes'[n] = right
      BY <1>12, <2>1, <2>5
    <3> QED BY <1>11, <3>1, <3>2
  <2> QED BY <2>2, <2>3, <2>4, <2>5
<1>14. BreadthInv'
  <2>1. subheight' = subheight /\ lgn' = lgn
    BY <1>1 DEF subheight, args
  <2>2. c + 1 \in Nat /\ Len(cur_nodes') = 2 * (c + 1)
    BY <1>5, <1>12
  <2>3. \E d \in Nat : Len(cur_nodes') = 2 * d
    BY <2>2
  <2> QED BY <1>1, <1>3, <1>13, <2>1, <2>3 DEF BreadthInv
<1> QED BY <1>1, <1>4, <1>12, <1>14, BreadthStays

LEMMA BreadthNextLevelInv == ASSUME IInv, BreadthNextLevel PROVE IInv'
<1>0. TypeOK /\ BreadthInv
  BY DEF IInv
<1>1. pc = "BreadthLevel" /\ i < lgn /\ Len(cur_nodes) = 2 * Pow[i - subheight]
      /\ prev_nodes' = cur_nodes /\ cur_nodes' = <<>> /\ i' = i + 1
      /\ UNCHANGED <<args, pc, node_key, punc_number, keys, bitvec, punc_res, eval_res>>
  BY DEF BreadthNextLevel
<1>2. MaxLgn \in Nat /\ lgn \in Nat /\ lgn \in 1 .. MaxLgn /\ subheight \in Nat
  BY <1>0, Facts
<1>3. i \in subheight .. lgn
      /\ \A n \in 1 .. Len(cur_nodes) : cur_nodes[n] = Path(i + 1, n - 1, i + 1)
  BY <1>0, <1>1 DEF BreadthInv
<1>4. cur_nodes \in Seq(Label) /\ node_key \in Label
  BY <1>0 DEF TypeOK
<1>5. i + 1 \in subheight .. lgn /\ i + 1 \in 0 .. lgn + 1 /\ i - subheight \in 0 .. MaxLgn
      /\ i - subheight < MaxLgn /\ (i + 1) - subheight = (i - subheight) + 1
  BY <1>1, <1>2, <1>3
<1>6. Pow[(i + 1) - subheight] = 2 * Pow[i - subheight]
  BY <1>5, PowType
<1>7. cur_nodes' \in Seq(Label) /\ Len(cur_nodes') = 2 * 0
  BY <1>1
<1>8. BreadthInv'
  <2>1. subheight' = subheight /\ lgn' = lgn
    BY <1>1 DEF subheight, args
  <2>2. \A n \in 1 .. Len(cur_nodes') : cur_nodes'[n] = Path(i' + 1, n - 1, i' + 1)
    BY <1>7
  <2>3. \E c \in Nat : Len(cur_nodes') = 2 * c
    BY <1>7
  <2> QED BY <1>1, <1>3, <1>5, <1>6, <2>1, <2>2, <2>3 DEF BreadthInv
<1> QED BY <1>1, <1>4, <1>5, <1>7, <1>8, BreadthStays

LEMMA BreadthReturnInv == ASSUME IInv, BreadthReturn PROVE IInv'
<1>0. TypeOK /\ BreadthInv
  BY DEF IInv
<1>1. pc = "BreadthLevel" /\ i = lgn /\ pc' = "done"
      /\ UNCHANGED <<args, i, node_key, punc_number, keys, bitvec, punc_res, eval_res,
                     prev_nodes, cur_nodes>>
  BY DEF BreadthReturn
<1>2. i \in 0 .. lgn + 1 /\ node_key \in Label /\ prev_nodes \in Seq(Label)
      /\ cur_nodes \in Seq(Label)
  BY <1>0 DEF TypeOK
<1>3. BreadthInv'
  <2>1. subheight' = subheight /\ lgn' = lgn
    BY <1>1 DEF subheight, args
  <2> QED BY <1>0, <1>1, <2>1 DEF BreadthInv
<1> QED BY <1>1, <1>2, <1>3, BreadthStays

LEMMA StutterInv == ASSUME IInv, UNCHANGED vars PROVE IInv'
<1>1. UNCHANGED <<lgn, x, punc_x, pc, i, node_key, punc_number, keys, bitvec, punc_res, eval_res,
                  prev_nodes, cur_nodes>>
  BY DEF vars, args
<1>2. subheight' = subheight
  BY <1>1 DEF subheight
<1>3. TypeOK' /\ PuncInv' /\ KeysInv'
  BY <1>1 DEF IInv, TypeOK, PuncInv, KeysInv
<1>4. EvalPuncInv' /\ EvalInv'
  BY <1>1 DEF IInv, EvalPuncInv, EvalInv
<1>5. BreadthInv'
  BY <1>1, <1>2 DEF IInv, BreadthInv
<1> QED BY <1>3, <1>4, <1>5 DEF IInv

\* Every loop holds the path to the bits that it has looked at.
THEOREM Inductive == Spec => []IInv
<1>1. IInv /\ [Next]_vars => IInv'
  <2> SUFFICES ASSUME IInv, [Next]_vars PROVE IInv'
    OBVIOUS
  <2>1. CASE PuncRight         BY <2>1, PuncRightInv
  <2>2. CASE PuncLeft          BY <2>2, PuncLeftInv
  <2>3. CASE PuncReturn        BY <2>3, PuncReturnInv
  <2>4. CASE EvalPuncPunctured BY <2>4, EvalPuncPuncturedInv
  <2>5. CASE EvalPuncSameBit   BY <2>5, EvalPuncSameBitInv
  <2>6. CASE EvalPuncTakeKey   BY <2>6, EvalPuncTakeKeyInv
  <2>7. CASE EvalPuncDown      BY <2>7, EvalPuncDownInv
  <2>8. CASE EvalPuncReturn    BY <2>8, EvalPuncReturnInv
  <2>9. CASE EvalDown          BY <2>9, EvalDownInv
  <2>10. CASE EvalReturn       BY <2>10, EvalReturnInv
  <2>11. CASE BreadthSpine     BY <2>11, BreadthSpineInv
  <2>12. CASE BreadthStart     BY <2>12, BreadthStartInv
  <2>13. CASE BreadthExpand    BY <2>13, BreadthExpandInv
  <2>14. CASE BreadthNextLevel BY <2>14, BreadthNextLevelInv
  <2>15. CASE BreadthReturn    BY <2>15, BreadthReturnInv
  <2>16. CASE UNCHANGED vars   BY <2>16, StutterInv
  <2> QED BY <2>1, <2>2, <2>3, <2>4, <2>5, <2>6, <2>7, <2>8, <2>9, <2>10, <2>11, <2>12, <2>13,
             <2>14, <2>15, <2>16 DEF Next
<1> QED BY InitInv, <1>1, PTL DEF Spec
-----------------------------------------------------------------------------
(* Theorems *)

\* For trees of every height, the server's evaluation of a punctured key gives what the
\* client's evaluation of the whole key gives, and nothing at the punctured point.
THEOREM PuncturedKeyAgrees == Spec => []PuncturedAgrees
<1>1. IInv => PuncturedAgrees
  <2> SUFFICES ASSUME IInv, eval_res # NotYet
      PROVE  punc_res = IF x = punc_x THEN Punctured ELSE eval_res
    BY DEF PuncturedAgrees
  <2>1. pc \in {"BreadthSpine", "BreadthLevel", "done"}
    BY DEF IInv, TypeOK, EvalInv
  <2>2. eval_res = Path(lgn, x, lgn) /\ punc_res # NotYet
    BY <2>1 DEF IInv, EvalInv
  <2> QED BY <2>2 DEF IInv, EvalPuncInv
<1> QED BY Inductive, <1>1, PTL

\* For trees of every height, no key that the server is given lies on the path to the
\* punctured point: each of them differs from it in its last bit.
THEOREM KeysKeepThePointHidden == Spec => []KeysAvoidThePoint
<1>1. IInv => KeysAvoidThePoint
  <2> SUFFICES ASSUME IInv, NEW n \in 1 .. Len(keys)
      PROVE  \E l \in 1 .. Len(keys[n]) : keys[n][l] # Bit(punc_x, l)
    BY DEF KeysAvoidThePoint
  <2>0. TypeOK /\ KeysInv /\ PuncInv
    BY DEF IInv
  <2>1. MaxLgn \in Nat /\ lgn \in Nat /\ lgn \in 1 .. MaxLgn /\ punc_x \in Nat
    BY <2>0, Facts
  <2>2. n \in 1 .. lgn
    <3>1. CASE pc = "Punc"
      <4>1. i \in 1 .. lgn + 1 /\ Len(keys) = i - 1
        BY <2>0, <3>1 DEF TypeOK, PuncInv
      <4> QED BY <2>1, <4>1
    <3>2. CASE pc # "Punc"
      BY <2>0, <3>2 DEF TypeOK
    <3> QED BY <3>1, <3>2
  <2>3. lgn \in 0 .. MaxLgn /\ n - 1 \in 0 .. lgn /\ lgn - n \in 0 .. MaxLgn /\ (n - 1) + 1 = n
        /\ n \in Nat
    BY <2>1, <2>2
  <2>4. Path(lgn, punc_x, n - 1) \in Label /\ Len(Path(lgn, punc_x, n - 1)) = n - 1
    BY <2>1, <2>3, PathType
  <2>5. Bit(punc_x, n) \in {0, 1}
    BY <2>1, <2>3, BitType DEF Bit
  <2>6. keys[n] = Append(Path(lgn, punc_x, n - 1), 1 - Bit(punc_x, n))
    BY <2>0 DEF KeysInv, Bit
  <2>7. Len(keys[n]) = n /\ keys[n][n] = 1 - Bit(punc_x, n)
    <3> DEFINE s == Path(lgn, punc_x, n - 1)
               b == 1 - Bit(punc_x, n)
    <3>1. s \in Seq({0, 1}) /\ Len(s) = n - 1 /\ b \in {0, 1}
      BY <2>4, <2>5 DEF Label
    <3> HIDE DEF s, b
    <3>2. Len(Append(s, b)) = Len(s) + 1 /\ Append(s, b)[Len(s) + 1] = b
      BY <3>1
    <3>3. Len(Append(s, b)) = n /\ Append(s, b)[n] = b
      BY <2>3, <3>1, <3>2
    <3> QED BY <2>6, <3>3 DEF s, b
  <2>8. 1 - Bit(punc_x, n) # Bit(punc_x, n) /\ n \in 1 .. n
    BY <2>2, <2>5
  <2> QED BY <2>7, <2>8
<1> QED BY Inductive, <1>1, PTL

\* For trees of every height, even and odd, the evaluation of the leftmost leaves all at
\* once never meets a level of the wrong size and agrees with the evaluation of one.
THEOREM BreadthFirstAgrees == Spec => []BreadthAgrees
<1>1. IInv => BreadthAgrees
  <2> SUFFICES ASSUME IInv PROVE BreadthAgrees
    OBVIOUS
  <2>0. TypeOK /\ BreadthInv /\ EvalInv
    BY DEF IInv
  <2>1. pc = "BreadthLevel" /\ i < lgn => LevelIsComplete
    BY <2>0 DEF BreadthInv, LevelIsComplete
  <2> SUFFICES ASSUME pc = "done"
      PROVE  /\ Pow[subheight] <= Len(prev_nodes)
             /\ x < Pow[subheight] => prev_nodes[x + 1] = eval_res
    BY <2>1 DEF BreadthAgrees
  <2>2. MaxLgn \in Nat /\ lgn \in Nat /\ lgn \in 1 .. MaxLgn /\ subheight \in Nat
        /\ subheight <= lgn - subheight /\ x \in Nat
    BY <2>0, Facts
  <2>3. i = lgn /\ Len(prev_nodes) = Pow[lgn - subheight]
        /\ \A n \in 1 .. Len(prev_nodes) : prev_nodes[n] = Path(lgn, n - 1, lgn)
    BY <2>0 DEF BreadthInv
  <2>4. Pow[subheight] <= Pow[lgn - subheight] /\ Pow[subheight] \in Nat
        /\ Pow[lgn - subheight] \in Nat
    <3>1. lgn - subheight = subheight \/ lgn - subheight = subheight + 1
      BY <2>2 DEF subheight
    <3>2. subheight \in 0 .. MaxLgn /\ lgn - subheight \in 0 .. MaxLgn
          /\ (lgn - subheight = subheight + 1 => subheight < MaxLgn)
      BY <2>2
    <3>3. Pow[subheight] \in Nat \ {0} /\ Pow[lgn - subheight] \in Nat
          /\ (subheight < MaxLgn => Pow[subheight + 1] = 2 * Pow[subheight])
      BY <3>2, PowType
    <3> QED BY <3>1, <3>2, <3>3
  <2>5. ASSUME x < Pow[subheight]
        PROVE  prev_nodes[x + 1] = eval_res
    <3>1. x + 1 \in 1 .. Len(prev_nodes) /\ (x + 1) - 1 = x
      BY <2>2, <2>3, <2>4, <2>5
    <3>2. prev_nodes[x + 1] = Path(lgn, x, lgn)
      BY <2>3, <3>1
    <3>3. eval_res = Path(lgn, x, lgn)
      BY <2>0 DEF EvalInv
    <3> QED BY <3>2, <3>3
  <2> QED BY <2>3, <2>4, <2>5
<1> QED BY Inductive, <1>1, PTL
=============================================================================
