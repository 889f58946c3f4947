------------------------------ MODULE MCAdprp -------------------------------
(***************************************************************************)
(* Values of the parameters of Adprp for TLC.                              *)
(***************************************************************************)
EXTENDS Adprp

MCKey == 0 .. 7

\* Some function of the key, the tweak and the block for every bit of the output.
MCRoundFunc == [k \in Key |-> [t \in 1 .. ROUNDS |-> [b \in SUBSET (0 .. 2) |->
    {x \in 0 .. 1 : ((k + 3) * (t + x) * (Value(b) + t) + k * x) % 7 < 3}]]]
=============================================================================
