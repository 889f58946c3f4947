------------------------------ MODULE HintStore ------------------------------
(***************************************************************************)
(* What a client with hints promises, whatever describes its sets: a good  *)
(* set has a hint, a set of blocks of the database.  A query is answered   *)
(* with the block asked for if it used a good set whose hint includes it,  *)
(* the set is then used up until another set that includes the block takes *)
(* its place, and a hint follows the database by trading old blocks for    *)
(* new ones.  IncPir implements this specification with descriptions,      *)
(* parities and messages.                                                  *)
(***************************************************************************)
EXTENDS Naturals

CONSTANTS SetNos   \* the numbers of the sets

VARIABLES len,     \* the database is 0 .. len - 1
          phase,   \* what the client is in the middle of
          good,    \* the sets whose hints may be relied on
          hint,    \* the blocks of each good set
          asked,   \* the block asked for last
          used,    \* the set that the question used
          exact,   \* the question was asked of a good set that includes the block
          answer   \* the blocks that the last answer consists of

vars == <<len, phase, good, hint, asked, used, exact, answer>>

Blocks == 0 .. len - 1

Init ==
    /\ len \in Nat
    /\ phase = "setup"
    /\ good = {}
    /\ hint = [s \in SetNos |-> {}]
    /\ asked \in Nat /\ used \in SetNos
    /\ exact = FALSE
    /\ answer = {}

\* The hints of all sets in place of s keep what they say.
Keeps(S) == \A s \in S : hint'[s] = hint[s]

Setup ==
    /\ phase = "setup" /\ phase' = "idle"
    /\ good' \subseteq SetNos
    /\ \A s \in good' : hint'[s] \subseteq Blocks
    /\ UNCHANGED <<len, asked, used, exact, answer>>

Ask ==
    /\ phase = "idle" /\ phase' = "asked"
    /\ asked' \in Blocks /\ used' \in SetNos
    /\ exact' => used' \in good /\ asked' \in hint[used']
    /\ UNCHANGED <<len, good, hint, answer>>

Answer ==
    /\ phase = "asked" /\ phase' = "idle"
    /\ exact => answer' = {asked}
    /\ UNCHANGED <<len, good, hint, asked, used, exact>>

\* The set that was used gives up its hint, and gets one that includes the block
\* it was used for: a good one only if the answer was that block.
Drop ==
    /\ phase = "idle" /\ phase' = "replacing"
    /\ good' = good \ {used} /\ Keeps(good')
    /\ UNCHANGED <<len, asked, used, exact, answer>>

Replace ==
    /\ phase = "replacing" /\ phase' = "idle"
    /\ good' \in {good, good \cup {used}} /\ Keeps(good' \ {used})
    /\ used \in good' => /\ answer = {asked}
                         /\ asked \in hint'[used] /\ hint'[used] \subseteq Blocks
    /\ UNCHANGED <<len, asked, used, exact, answer>>

\* The database has grown; the hints of some sets are lost, the others stay as
\* they are until they take blocks of the new part in for old ones.
Announce ==
    /\ phase = "idle" /\ phase' = "growing"
    /\ len' \in Nat /\ len < len'
    /\ good' \subseteq good /\ Keeps(good')
    /\ UNCHANGED <<asked, used, exact, answer>>

Absorb ==
    /\ phase = "growing" /\ phase' = "idle"
    /\ \E old \in 1 .. len - 1 : \A s \in good :
        /\ hint[s] \subseteq 0 .. old - 1
        /\ hint'[s] \subseteq Blocks
        /\ hint'[s] \cap (0 .. old - 1) \subseteq hint[s]
    /\ UNCHANGED <<len, good, asked, used, exact, answer>>

Next == Setup \/ Ask \/ Answer \/ Drop \/ Replace \/ Announce \/ Absorb

Spec == Init /\ [][Next]_vars
=============================================================================
