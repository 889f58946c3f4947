------------------------------ MODULE MCPuncPrf ------------------------------
(***************************************************************************)
(* Values of the parameters of PuncPrf for TLC.                            *)
(***************************************************************************)
EXTENDS PuncPrf

MCPow == [n \in 0 .. MaxLgn |-> 2 ^ n]
=============================================================================
