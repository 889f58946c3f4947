------------------------------ MODULE MCClients ------------------------------
(***************************************************************************)
(* The threads of one client (SharedClient) and the conversions that their *)
(* messages go through (Serial), checked in one run.  The two share no     *)
(* state: a behaviour is one of either, and the other one stays where it   *)
(* is.                                                                     *)
(***************************************************************************)
EXTENDS SharedClient, Serial

VARIABLE part   \* which of the two the behaviour is about

\* Blocks with bits on both sides of the borders of fields; keys with every byte
\* different, and with the highest bytes that four of them may have in the
\* integers of TLC.
MCBlocks == {{}, {0, 63, 64, 15935, 15936, 15999}, {1, 8000, 8063}}

MCKeys == {[j \in 1 .. KeyLen |-> j], [j \in 1 .. KeyLen |-> IF j % 4 = 1 THEN 127 ELSE 255]}

\* One of the initial states of SharedClient.
Parked == mode = "online" /\ sets = [s \in SetNos |-> {0, 1}]

MCInit ==
    /\ Init /\ SerialInit
    /\ part \in {"threads", "messages"}
    /\ part = "messages" => Parked

\* Nothing follows a message that has been read; everything else goes on.
MessageRead == part = "messages" /\ stage = "received" /\ UNCHANGED <<vars, serialvars, part>>

MCNext ==
    \/ part = "threads"  /\ Next       /\ UNCHANGED <<serialvars, part>>
    \/ part = "messages" /\ SerialNext /\ UNCHANGED <<vars, part>>
    \/ MessageRead

MCSpec == MCInit /\ [][MCNext]_<<vars, serialvars, part>>
=============================================================================
