------------------------------- MODULE MCCkPir -------------------------------
(***************************************************************************)
(* Values of the parameters of CkPir for TLC: a database of 5 blocks, so   *)
(* lgn = 2, 4 points, 2 elements.  setsize is 8, as -g 6 gives it: a       *)
(* refresh draws inside the set, outside of it, and outside of the tree.   *)
(* One of the keys has a collision.                                        *)
(***************************************************************************)
EXTENDS CkPir

CONSTANTS k1, k2

MCKey == {k1, k2}
MCPrf == [k \in MCKey |-> [x \in 0 .. 3 |-> IF k = k1 THEN (3 * x) % 4 ELSE 1]]
=============================================================================
