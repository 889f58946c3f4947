------------------------------- MODULE MCDpf --------------------------------
(* Generators on seeds of two bits that are neither injective nor constant.   *)
EXTENDS Dpf

MCSeedBits == {1, 2}

MCPrg ==
    [L |-> [s \in SUBSET MCSeedBits |->
        CASE s = {}  -> [s |-> {2}, t |-> TRUE]
          [] s = {1} -> [s |-> {}, t |-> FALSE]
          [] s = {2} -> [s |-> {1, 2}, t |-> FALSE]
          [] OTHER   -> [s |-> {1}, t |-> FALSE]],
     R |-> [s \in SUBSET MCSeedBits |->
        CASE s = {}  -> [s |-> {1}, t |-> FALSE]
          [] s = {1} -> [s |-> {1, 2}, t |-> TRUE]
          [] s = {2} -> [s |-> {2}, t |-> TRUE]
          [] OTHER   -> [s |-> {1}, t |-> TRUE]]]

\* The output of a leaf is as wide as Offsets; every bit of it depends on the seed.
MCConvert == [s \in SUBSET MCSeedBits |->
                 {j \in Offsets : IF 1 \in s THEN (2 \in s) = (j % 2 = 0) ELSE j > 0 /\ 2 \in s}]

\* Seeds that are equal, that differ in one bit, in both.
MCDraws == {[p \in Party |-> IF p = 0 THEN s[1] ELSE s[2]] :
               s \in {<<{}, {}>>, <<{1}, {1, 2}>>, <<{2}, {1}>>}}

\* A constraint: server 1 begins when server 0 has returned.  Neither reads what the
\* other writes, and whatever both have computed is still there at the end.
OneAfterTheOther == fn[1] = "none" \/ Returned(0)
=============================================================================
