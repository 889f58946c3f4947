------------------------------ MODULE MCIncPir ------------------------------
(***************************************************************************)
(* Values of the parameters of IncPir for TLC.                             *)
(***************************************************************************)
EXTENDS IncPir, TLC

CONSTANTS k1, k2

MCKey  == {k1, k2}
MCKey1 == {k1}

\* Two permutations of 0..r-1 that differ for every range above 1.
MCPrp == [k \in Key |-> [r \in 1 .. MaxDb |-> [x \in 0 .. r - 1 |->
            IF k = k1 THEN (x + 1) % r ELSE IF r <= 2 THEN x ELSE r - 1 - x]]]

\* With two keys, the key derived for slot 0 is not the set key, that for slot 1 is.
MCKdf == [k \in Key |-> [b \in 0 .. 255 |->
            IF b % 2 = 1 \/ k2 \notin Key THEN k ELSE IF k = k1 THEN k2 ELSE k1]]

Underflowed(s) == \E i \in DOMAIN sets[s].aux : sets[s].aux[i].cnt > MaxDb

\* A constraint, so that a run can afford more batches. From five rows on, only the first
\* key is followed, with hints that are sound or spoilt by an underflow, not by a query or
\* a refresh; with the sixth row only batches; and with the seventh row only what follows
\* an underflow, whose next batch makes the server throw.
SpoiltOnlyWhenSmall ==
    \/ dblen <= 4
    \/ /\ \A s \in SetNos : sets[s].sk = k1 /\ (sound[s] \/ Underflowed(s))
       /\ dblen > 5 => pc \in {"ready", "update", "aborted"}
       /\ dblen > 6 => dbrange >= 6 /\ \E s \in SetNos : Underflowed(s)
=============================================================================
