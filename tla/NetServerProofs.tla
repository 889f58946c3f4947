---------------------------- MODULE NetServerProofs ----------------------------
(***************************************************************************)
(* The accept loops of NetServer, for any number of threads and runs: what *)
(* a server may do as long as no client is lost, and what it leaks when    *)
(* one is.  The argument: while nothing is lost, the turn counter is the   *)
(* number of replies of the phase, a request out of phase would have to be *)
(* sent before all requests of the phase are answered, and the client      *)
(* sends none before.                                                      *)
(***************************************************************************)
EXTENDS NetServer, FiniteSetTheorems, TLAPS

\* The loops that count their turns.
Turning == phase # "serve"
Working == pc \in {"recv", "send"}

Shape ==
    /\ mode \in Modes
    /\ pc \in {"accept", "recv", "send", "spin", "aborted", "killed", "finished"}
    /\ phase \in {"serve", "offline", "add"}
    /\ phase = "serve" <=> FirstPhase(mode) = "serve"
    /\ phase = "add" => mode = "run_offline"
    /\ added <=> phase = "add"
    /\ added \in BOOLEAN
    /\ i \in 0 .. Load /\ handled \in Nat
    /\ Turning /\ Working => i < Load
    /\ cur \in Conns \cup {None} /\ open \subseteq Conns
    /\ Working => cur \in Conns
    /\ pc = "accept" => cur = None
    /\ pc = "send" => Answers(Type(cur))
    /\ backlog \in Seq(Conns)
    /\ run \in 1 .. MaxRuns /\ up \in BOOLEAN
    /\ conn \in [Conns -> {"idle", "connected", "sent", "answered", "done",
                           "cut", "gone", "stalled"}]
    /\ kills \in Nat /\ fails \in Nat

Waiting(c) == conn[c] \in {"connected", "sent"}
Answered   == {c \in Conns : conn[c] \in {"answered", "done"}}

\* What holds of the connections as long as nothing is lost.
Calm ==
    /\ up
    /\ \A c \in Conns : conn[c] \in {"idle", "connected", "sent", "answered", "done"}
    /\ \A k \in 1 .. Len(backlog) : Waiting(backlog[k]) /\ backlog[k] # cur
    /\ \A k, l \in 1 .. Len(backlog) : backlog[k] = backlog[l] => k = l
    /\ pc = "recv" => Waiting(cur)
    /\ pc = "send" => conn[cur] = "sent"
    /\ \A c \in Conns : conn[c] # "idle" =>
          /\ c[1] <= run /\ c[2] \in Reqs
          /\ \A q \in Reqs : IsScript(q) /\ q < c[2] => conn[<<c[1], q>>] = "done"
    /\ \A g \in 1 .. run - 1 : Complete(g)

\* Every turn of a counting loop is a reply.
TurnsAreReplies ==
    Turning => handled = i + (IF pc = "send" THEN 1 ELSE 0)

IInv == /\ Shape
        /\ LeaksOnlyFailedReceives
        /\ Undisturbed => Calm /\ TurnsAreReplies
        /\ ThroughputExact
        /\ AddsBetweenThePhases
        /\ FailsOnlyAfterALoss
-----------------------------------------------------------------------------
(* Facts about the constants. *)

\* A program has no more requests than the model has connections for it.
LEMMA ScriptFits ==
    ASSUME Shape
    PROVE  /\ Len(Script(mode)) \in Nat
           /\ Len(Script(mode)) + Load <= MaxReqs
           /\ Reqs \subseteq 1 .. MaxReqs
           /\ mode = "run_offline" => Len(Script(mode)) = Load
<1> Load \in Nat \ {0} BY NetAssumption
<1>1. /\ Len(Script(mode)) \in Nat
      /\ Len(Script(mode)) <= Load + 2
      /\ mode = "run_offline" => Len(Script(mode)) = Load
  <2>1. CASE mode = "run_offline"  BY <2>1 DEF Script
  <2>2. CASE mode = "run_refresh"  BY <2>2 DEF Script
  <2>3. CASE mode \in {"run", "ck_online"}  BY <2>3 DEF Script
  <2>4. CASE mode \in {"baseline", "ck_offline", "dpf"}  BY <2>4 DEF Script
  <2> QED BY <2>1, <2>2, <2>3, <2>4, NetAssumption DEF Shape
<1> QED BY <1>1 DEF MaxReqs, Reqs

\* There are finitely many connections, and None is not one of them.
LEMMA ConnsFinite == IsFiniteSet(Conns) /\ None \notin Conns
<1>1. IsFiniteSet(1 .. MaxRuns) /\ IsFiniteSet(1 .. MaxReqs)
  BY SMTT(60), FS_Interval, NetAssumption DEF MaxReqs
<1>2. IsFiniteSet((1 .. MaxRuns) \X (1 .. MaxReqs))  BY <1>1, FS_Product
<1> QED BY <1>2 DEF Conns, None

\* The types of a mode: what its program sends and what its loop answers.
LEMMA TypesOfModes ==
    ASSUME Shape, NEW c \in Conns, c[2] \in Reqs
    PROVE  /\ mode \notin {"run_offline"} => Answers(Type(c))
           /\ mode = "run_offline" =>
                Type(c) = IF c[2] <= Load THEN "OFFLINE" ELSE "ADD"
<1> Load \in Nat \ {0} BY NetAssumption
<1> c[2] \in Nat BY DEF Conns, MaxReqs
<1> DEFINE t == Type(c)
<1>0. t = IF c[2] <= Len(Script(mode)) THEN Script(mode)[c[2]] ELSE Burst(mode)
  BY DEF Type, IsScript
<1> HIDE DEF t
<1>1. CASE mode = "run_offline"
  <2>1. /\ Script(mode) = [k \in 1 .. Load |-> "OFFLINE"] /\ Len(Script(mode)) = Load
        /\ Burst(mode) = "ADD"
    BY <1>1, ScriptFits DEF Script, Burst
  <2>2. c[2] \in 1 .. Load + Load  BY <2>1 DEF Reqs
  <2>3. t = IF c[2] <= Load THEN "OFFLINE" ELSE "ADD"  BY <1>0, <2>1, <2>2
  <2> QED BY <1>1, <2>3 DEF t
<1>2. CASE mode = "run_refresh"
  <2>1. Script(mode) = <<"OFFLINE", "ONLINE">> /\ Burst(mode) = "REFRESH"
    BY <1>2 DEF Script, Burst
  <2>2. t \in {"OFFLINE", "ONLINE", "REFRESH"}  BY <1>0, <2>1 DEF Reqs
  <2>3. Answers(t)  BY <1>2, <2>2 DEF Answers, Shape, FirstPhase
  <2> QED BY <1>2, <2>3 DEF t
<1>3. CASE mode = "run"
  <2>3. Answers(t)  BY <1>3 DEF Answers, Shape, FirstPhase
  <2> QED BY <1>3, <2>3 DEF t
<1>4. CASE mode = "ck_online"
  <2>1. Script(mode) = <<"OFFLINE">> /\ Burst(mode) = "ONLINE"
    BY <1>4 DEF Script, Burst
  <2>2. t \in {"OFFLINE", "ONLINE"}  BY <1>0, <2>1 DEF Reqs
  <2>3. Answers(t)  BY <1>4, <2>2 DEF Answers, CkAnswers, Shape, FirstPhase
  <2> QED BY <1>4, <2>3 DEF t
<1>5. CASE mode \in {"baseline", "ck_offline", "dpf"}
  <2>1. Script(mode) = <<>> /\ Burst(mode) = IF mode = "dpf" THEN "QUERY" ELSE "OFFLINE"
    BY <1>5 DEF Script, Burst
  <2>2. c[2] \in 1 .. Load  BY <2>1 DEF Reqs
  <2>3. t = IF mode = "dpf" THEN "QUERY" ELSE "OFFLINE"  BY <1>0, <2>1, <2>2
  <2>4. CASE mode = "dpf"
    <3>1. phase = "offline" /\ DpfAnswers(t)
      BY <2>3, <2>4 DEF DpfAnswers, Shape, FirstPhase
    <3>2. Answers(t)  BY <2>4, <3>1 DEF Answers
    <3> QED BY <2>4, <3>2 DEF t
  <2>5. CASE mode = "ck_offline"
    <3>1. phase = "serve" /\ CkAnswers(t)
      BY <2>3, <2>5 DEF CkAnswers, Shape, FirstPhase
    <3>2. Answers(t)  BY <2>5, <3>1 DEF Answers
    <3> QED BY <2>5, <3>2 DEF t
  <2>6. CASE mode = "baseline"
    <3>1. phase = "offline" /\ t = "OFFLINE"
      BY <2>3, <2>6 DEF Shape, FirstPhase
    <3>2. Answers(t)  BY <2>6, <3>1 DEF Answers
    <3> QED BY <2>6, <3>2 DEF t
  <2> QED BY <1>5, <2>4, <2>5, <2>6
<1>6. mode \in {"run", "run_refresh", "run_offline", "baseline", "ck_online", "ck_offline", "dpf"}
  BY NetAssumption DEF Shape
<1> QED BY <1>1, <1>2, <1>3, <1>4, <1>5, <1>6

\* What a loop answers depends on the loop only.
LEMMA AnswersStay ==
    ASSUME mode' = mode, phase' = phase, cur' = cur
    PROVE  Answers(Type(cur))' <=> Answers(Type(cur))
BY DEF Answers, Type, IsScript
-----------------------------------------------------------------------------
(* The shape of the state, which every step keeps. *)

LEMMA InitShape == Init => Shape
<1> SUFFICES ASSUME Init PROVE Shape OBVIOUS
<1> Load \in Nat \ {0} BY NetAssumption
<1>1. 1 \in 1 .. MaxRuns BY NetAssumption
<1>2. phase = FirstPhase(mode) /\ phase \in {"serve", "offline"} /\ pc = "accept"
      /\ added = FALSE
  BY DEF Init, FirstPhase
<1>3. added \in BOOLEAN /\ (added <=> phase = "add")
  BY <1>2
<1> QED BY <1>1, <1>2, <1>3, NetAssumption DEF Init, Shape, Turning, Working

LEMMA ClientShape ==
    ASSUME Shape,
           Kill \/ StartAgain \/ \E r \in 1 .. MaxReqs : ThreadStep(r)
    PROVE  Shape'
<1> Load \in Nat \ {0} /\ MaxRuns \in Nat BY NetAssumption
<1>1. ASSUME NEW r \in 1 .. MaxReqs, Connect(r) PROVE Shape'
  <2>1. <<run, r>> \in Conns BY <1>1 DEF Conns, Shape
  <2>2. conn' \in [Conns -> {"idle", "connected", "sent", "answered", "done",
                           "cut", "gone", "stalled"}]
    BY <1>1 DEF Connect, Set, Shape
  <2>3. backlog' \in Seq(Conns) BY <1>1, <2>1 DEF Connect, Shape
  <2> QED BY <1>1, <2>2, <2>3, AnswersStay DEF Connect, server, Shape, Turning, Working
<1>2. ASSUME NEW r \in 1 .. MaxReqs, SendRequest(r) \/ TakeReply(r) PROVE Shape'
  <2>1. conn' \in [Conns -> {"idle", "connected", "sent", "answered", "done",
                           "cut", "gone", "stalled"}]
    BY <1>2 DEF SendRequest, TakeReply, Set, Shape
  <2> QED BY <1>2, <2>1, AnswersStay DEF SendRequest, TakeReply, server, Shape, Turning, Working
<1>3. ASSUME Kill \/ \E r \in 1 .. MaxReqs : TimeOut(r) PROVE Shape'
  <2>1. conn' \in [Conns -> {"idle", "connected", "sent", "answered", "done",
                           "cut", "gone", "stalled"}]
    BY <1>3 DEF Kill, TimeOut, EndRun, Shape
  <2>2. /\ up' = FALSE /\ kills' \in {kills, kills + 1}
        /\ UNCHANGED <<mode, server, backlog, run, fails>>
    BY <1>3 DEF Kill, TimeOut, EndRun
  <2>3. UNCHANGED <<mode, pc, phase, i, cur, open, handled, added, backlog, run, fails>>
    BY <2>2 DEF server
  <2>4. kills' \in Nat  BY <2>2 DEF Shape
  <2>5. up' \in BOOLEAN  BY <2>2
  <2>6. Answers(Type(cur))' <=> Answers(Type(cur))  BY <2>3, AnswersStay
  <2> QED BY <2>1, <2>3, <2>4, <2>5, <2>6 DEF Shape, Turning, Working
<1>4. CASE StartAgain
  <2>1. run' \in 1 .. MaxRuns /\ up' \in BOOLEAN
    BY <1>4 DEF StartAgain, Shape
  <2> QED BY <1>4, <2>1, AnswersStay DEF StartAgain, server, Shape, Turning, Working
<1> QED BY <1>1, <1>2, <1>3, <1>4 DEF ThreadStep

LEMMA ServerShape ==
    ASSUME Shape, ServerStep
    PROVE  Shape'
<1> Load \in Nat \ {0} BY NetAssumption
<1> USE DEF Shape, client, Turning, Working
<1>1. CASE Accept
  <2>1. cur' \in Conns /\ backlog' \in Seq(Conns) BY <1>1 DEF Accept
  <2> QED BY <1>1, <2>1 DEF Accept, MoreTurns
<1>2. CASE Answer
  BY <1>2, AnswersStay DEF Answer, RequestIsWhole
<1>3. CASE Reject \/ EndOfFile \/ ReplyKills \/ Finish
  BY <1>3, AnswersStay DEF Reject, EndOfFile, ReplyKills, Finish, RequestIsWhole
<1>4. CASE ReceiveFails
  <2>1. conn' \in [Conns -> {"idle", "connected", "sent", "answered", "done",
                           "cut", "gone", "stalled"}]
    BY <1>4 DEF ReceiveFails
  <2>2. i' \in 0 .. Load BY <1>4 DEF ReceiveFails, NextTurn
  <2> QED BY <1>4, <2>1, <2>2 DEF ReceiveFails
<1>5. CASE Reply
  <2>1. conn' \in [Conns -> {"idle", "connected", "sent", "answered", "done",
                           "cut", "gone", "stalled"}]
    BY <1>5 DEF Reply
  <2>2. i' \in 0 .. Load BY <1>5 DEF Reply, NextTurn
  <2> QED BY <1>5, <2>1, <2>2 DEF Reply
<1>6. CASE AddElements
  BY <1>6 DEF AddElements, FirstPhase
<1> QED BY <1>1, <1>2, <1>3, <1>4, <1>5, <1>6 DEF ServerStep
-----------------------------------------------------------------------------
(* The properties, for a state in which nothing is lost. *)

MeasuredType == IF mode = "run_offline" /\ phase = "offline" THEN "OFFLINE" ELSE Burst(mode)
Measured == {c \in Conns : /\ conn[c] \in {"answered", "done"} \/ (c = cur /\ pc = "send")
                           /\ Type(c) = MeasuredType}

Counts == handled = Cardinality(Measured)

Adds == mode = "run_offline" =>
            /\ added => \A r \in 1 .. Load : <<1, r>> \in Answered
            /\ ~ added => \A c \in Answered : Type(c) = "OFFLINE"

Alive == pc \notin {"aborted", "killed", "spin"}

Peace == Calm /\ TurnsAreReplies /\ Counts /\ Adds /\ Alive

\* IInv says the same of an undisturbed state, property by property.
LEMMA PeaceIsIInv ==
    IInv <=> Shape /\ LeaksOnlyFailedReceives /\ (Undisturbed => Peace)
<1>1. ThroughputExact <=> (Undisturbed => Counts)
  BY DEF ThroughputExact, Counts, Measured, MeasuredType
<1>2. AddsBetweenThePhases <=> (Undisturbed => Adds)
  BY DEF AddsBetweenThePhases, Adds, Answered
<1>3. Shape => (FailsOnlyAfterALoss <=> (Undisturbed => Alive))
  BY DEF FailsOnlyAfterALoss, Alive, Shape
<1> QED BY <1>1, <1>2, <1>3 DEF IInv, Peace
-----------------------------------------------------------------------------
(* Leaks. *)

LEMMA LeakStep ==
    ASSUME Shape, LeaksOnlyFailedReceives, [Next]_vars
    PROVE  LeaksOnlyFailedReceives'
<1> IsFiniteSet(open) BY ConnsFinite, FS_Subset DEF Shape
<1> IsFiniteSet(open \ {cur}) BY FS_RemoveElement
<1> Cardinality(open \ {cur}) \in Nat BY FS_CardinalityType
<1>1. CASE UNCHANGED <<open, cur>> /\ fails' \in Nat /\ fails' >= fails
  BY <1>1 DEF LeaksOnlyFailedReceives, Shape
<1>2. CASE Accept
  <2>1. cur = None /\ None \notin open BY <1>2, ConnsFinite DEF Accept, Shape
  <2>2. open' \ {cur'} \subseteq open \ {cur}  BY <1>2, <2>1 DEF Accept
  <2>3. Cardinality(open' \ {cur'}) <= Cardinality(open \ {cur})
    BY <2>2, FS_Subset
  <2>4. Cardinality(open' \ {cur'}) \in Nat  BY <2>2, FS_Subset, FS_CardinalityType
  <2>5. fails' = fails BY <1>2 DEF Accept
  <2> QED BY <2>3, <2>4, <2>5 DEF LeaksOnlyFailedReceives, Shape
<1>3. CASE ReceiveFails
  <2>1. open' \ {cur'} = open /\ fails' = fails + 1
    BY <1>3, ConnsFinite DEF ReceiveFails, Shape
  <2>2. open \subseteq (open \ {cur}) \cup {cur} OBVIOUS
  <2>3. Cardinality((open \ {cur}) \cup {cur}) <= Cardinality(open \ {cur}) + 1
        /\ IsFiniteSet((open \ {cur}) \cup {cur})
    BY SMTT(60), FS_AddElement
  <2>4. Cardinality(open) <= Cardinality((open \ {cur}) \cup {cur})
    BY <2>2, <2>3, FS_Subset
  <2>5. Cardinality(open) \in Nat /\ Cardinality((open \ {cur}) \cup {cur}) \in Nat
    BY <2>3, FS_CardinalityType
  <2>6. Cardinality(open) <= fails + 1
    BY <2>3, <2>4, <2>5 DEF LeaksOnlyFailedReceives, Shape
  <2> QED BY <2>1, <2>6 DEF LeaksOnlyFailedReceives
<1>4. CASE Reply
  <2>1. open' \ {cur'} = open \ {cur} /\ fails' = fails
    BY <1>4, ConnsFinite DEF Reply, Shape
  <2> QED BY <2>1 DEF LeaksOnlyFailedReceives
<1>5. CASE Answer \/ Reject \/ EndOfFile \/ ReplyKills \/ AddElements \/ Finish
  BY <1>5, <1>1 DEF Answer, Reject, EndOfFile, ReplyKills, AddElements, Finish, Shape
<1>6. CASE Kill \/ StartAgain \/ \E r \in 1 .. MaxReqs : ThreadStep(r)
  <2>1. UNCHANGED server /\ fails' = fails
    BY <1>6 DEF Kill, StartAgain, ThreadStep, Connect, SendRequest, TakeReply, TimeOut
  <2> QED BY <2>1, <1>1 DEF server, Shape
<1>7. CASE UNCHANGED vars
  BY <1>7, <1>1 DEF vars, server, Shape
<1> QED BY <1>2, <1>3, <1>4, <1>5, <1>6, <1>7 DEF Next, ServerStep
-----------------------------------------------------------------------------
(* Counting.  The requests of one phase of one run are Load connections in a row. *)

Row(g, n) == {<<g, n + k>> : k \in 1 .. Load}

LEMMA RowCardinality ==
    ASSUME NEW g, NEW n \in Nat
    PROVE  IsFiniteSet(Row(g, n)) /\ Cardinality(Row(g, n)) = Load
<1> DEFINE f == [k \in 1 .. Load |-> <<g, n + k>>]
<1> Load \in Nat \ {0} BY NetAssumption
<1>1. f \in [1 .. Load -> Row(g, n)]  BY DEF Row
<1>2. \A a, b \in 1 .. Load : f[a] = f[b] => a = b  OBVIOUS
<1>3. \A t \in Row(g, n) : \E k \in 1 .. Load : f[k] = t  BY DEF Row
<1>4. f \in Bijection(1 .. Load, Row(g, n))
  BY <1>1, <1>2, <1>3 DEF Bijection, Injection, Surjection, IsInjective
<1>5. IsFiniteSet(1 .. Load) /\ Cardinality(1 .. Load) = Load  BY FS_Interval
<1> QED BY <1>4, <1>5, FS_Bijection DEF ExistsBijection

\* A row that has been answered is counted in full.
LEMMA RowIsCounted ==
    ASSUME Shape, Counts, NEW g, NEW n \in Nat, Row(g, n) \subseteq Measured
    PROVE  handled >= Load
<1>1. IsFiniteSet(Measured)  BY ConnsFinite, FS_Subset DEF Measured
<1>2. Load <= Cardinality(Measured)  BY <1>1, RowCardinality, FS_Subset
<1> QED BY <1>2, NetAssumption DEF Counts, Shape

\* As many answers as the row has requests, none outside of it: the row is answered.
LEMMA RowIsFull ==
    ASSUME Shape, Counts, NEW g, NEW n \in Nat, Measured \subseteq Row(g, n), handled = Load
    PROVE  Measured = Row(g, n)
BY ZenonT(60), RowCardinality, FS_Subset DEF Counts
-----------------------------------------------------------------------------
(* The steps of an undisturbed server and its clients. *)

\* A connection that the server works on or is waiting for is one of a request.
LEMMA RequestsAreSent ==
    ASSUME Shape, Calm, NEW c \in Conns, conn[c] # "idle"
    PROVE  /\ c[1] \in 1 .. run /\ c[2] \in Reqs /\ c = <<c[1], c[2]>>
           /\ mode = "run_offline" => c[2] \in 1 .. Load + Load
<1>1. c[1] \in 1 .. MaxRuns /\ c = <<c[1], c[2]>>  BY DEF Conns
<1>2. c[1] <= run /\ c[2] \in Reqs  BY DEF Calm
<1>3. MaxRuns \in Nat /\ run \in Nat BY NetAssumption DEF Shape
<1>4. c[1] \in 1 .. run BY <1>1, <1>2, <1>3
<1> QED BY <1>1, <1>2, <1>4, ScriptFits DEF Reqs

\* run_offline meets no request of the wrong phase.
LEMMA NothingToReject ==
    ASSUME Shape, Peace
    PROVE  ~ Reject
<1> SUFFICES ASSUME Reject PROVE FALSE OBVIOUS
<1> USE DEF Peace
<1> Load \in Nat \ {0} BY NetAssumption
<1>1. cur \in Conns /\ conn[cur] = "sent" /\ pc = "recv" /\ ~ Answers(Type(cur))
  BY DEF Reject, RequestIsWhole, Shape, Working, Calm, Waiting
<1>2. /\ cur[1] \in 1 .. run /\ cur[2] \in Reqs /\ cur = <<cur[1], cur[2]>>
      /\ mode = "run_offline" => cur[2] \in 1 .. Load + Load
  BY <1>1, RequestsAreSent
<1>3. mode = "run_offline"  BY <1>1, <1>2, TypesOfModes
<1>4. Type(cur) = IF cur[2] <= Load THEN "OFFLINE" ELSE "ADD"
  BY <1>1, <1>2, <1>3, TypesOfModes
<1>5. Turning /\ i < Load /\ handled = i /\ i \in Nat
  BY <1>1, <1>3 DEF Shape, Turning, Working, FirstPhase, TurnsAreReplies
<1>6. Reqs = 1 .. Load + Load /\ Len(Script(mode)) = Load
  BY <1>3, ScriptFits DEF Reqs
<1>6a. Load + Load <= MaxReqs BY DEF MaxReqs
<1>7. \A g \in 1 .. run : \A r \in 1 .. Load + Load :
         /\ <<g, r>> \in Conns /\ <<g, r>>[1] = g /\ <<g, r>>[2] = r
         /\ Type(<<g, r>>) = IF r <= Load THEN "OFFLINE" ELSE "ADD"
  <2> TAKE g \in 1 .. run
  <2> TAKE r \in 1 .. Load + Load
  <2>1. <<g, r>> \in Conns /\ <<g, r>>[2] = r /\ <<g, r>>[1] = g
    BY <1>6a, NetAssumption DEF Conns, Shape, MaxReqs
  <2> QED BY <2>1, <1>3, <1>6, TypesOfModes
<1>8. CASE phase = "offline"
  <2>1. Type(cur) # "OFFLINE"  BY <1>1, <1>3, <1>8 DEF Answers
  <2>2. cur[2] > Load  BY <1>2, <1>3, <1>4, <2>1
  <2>3. \A r \in 1 .. Load : conn[<<cur[1], r>>] = "done"
    BY <1>1, <1>2, <1>6, <2>2 DEF Calm, IsScript
  <2>4. Row(cur[1], 0) \subseteq Measured
    <3> SUFFICES ASSUME NEW k \in 1 .. Load PROVE <<cur[1], k>> \in Measured
      BY DEF Row
    <3>1. conn[<<cur[1], k>>] = "done" BY <2>3
    <3>2. <<cur[1], k>> \in Conns /\ Type(<<cur[1], k>>) = "OFFLINE" BY <1>2, <1>7
    <3> QED BY <3>1, <3>2, <1>3, <1>8 DEF Measured, MeasuredType
  <2>5. handled >= Load  BY <2>4, RowIsCounted
  <2> QED BY <1>5, <2>5
<1>9. CASE phase = "add"
  <2>1. Type(cur) # "ADD"  BY <1>1, <1>3, <1>9 DEF Answers
  <2>2. cur[2] \in 1 .. Load  BY <1>2, <1>3, <1>4, <2>1
  <2>3. cur[1] # 1
    <3> SUFFICES ASSUME cur[1] = 1 PROVE FALSE OBVIOUS
    <3>1. cur \in Answered  BY <1>2, <1>3, <1>9, <2>2 DEF Adds, Shape
    <3> QED BY <3>1, <1>1 DEF Answered
  <2>4. Complete(1) /\ 1 \in 1 .. run  BY <1>2, <2>3 DEF Calm, Shape
  <2>5. Row(1, Load) \subseteq Measured
    <3> SUFFICES ASSUME NEW k \in 1 .. Load PROVE <<1, Load + k>> \in Measured
      BY DEF Row
    <3>1. Load + k \in 1 .. Load + Load /\ ~ Load + k <= Load  OBVIOUS
    <3>2. conn[<<1, Load + k>>] = "done" BY <3>1, <2>4, <1>6 DEF Complete
    <3>3. <<1, Load + k>> \in Conns /\ Type(<<1, Load + k>>) = "ADD"
      BY <2>4, <1>7, <3>1
    <3>4. MeasuredType = "ADD" BY <1>3, <1>9 DEF MeasuredType, Burst
    <3> QED BY <3>2, <3>3, <3>4 DEF Measured
  <2>6. handled >= Load  BY <2>5, RowIsCounted
  <2> QED BY <1>5, <2>6
<1> QED BY <1>3, <1>8, <1>9 DEF Shape, FirstPhase

\* The steps that are possible without a loss.
PeacefulStep ==
    \/ \E r \in 1 .. MaxReqs : Connect(r) \/ SendRequest(r) \/ TakeReply(r)
    \/ StartAgain
    \/ Accept \/ Answer \/ Reply \/ AddElements \/ Finish
    \/ UNCHANGED vars

LEMMA LossesStay ==
    ASSUME Shape, Undisturbed => Peace, [Next]_vars, Undisturbed'
    PROVE  Peace /\ PeacefulStep
<1>1. CASE Kill \/ ReceiveFails
  BY <1>1 DEF Kill, ReceiveFails, Undisturbed, Shape
<1>2. CASE UNCHANGED vars
  BY <1>2 DEF vars, Undisturbed, PeacefulStep
<1>3. CASE StartAgain \/ (ServerStep /\ ~ ReceiveFails)
           \/ \E r \in 1 .. MaxReqs : ThreadStep(r)
  <2>1. UNCHANGED <<kills, fails>>
    BY <1>3 DEF StartAgain, ServerStep, Accept, Answer, Reject, EndOfFile, Reply, ReplyKills,
      AddElements, Finish, ThreadStep, Connect, SendRequest, TakeReply, TimeOut
  <2>2. Peace  BY <2>1 DEF Undisturbed
  <2>3. \A r \in 1 .. MaxReqs : ~ TimeOut(r)
    <3> SUFFICES ASSUME NEW r \in 1 .. MaxReqs, TimeOut(r) PROVE FALSE OBVIOUS
    <3>1. <<run, r>> \in Conns BY DEF Conns, Shape
    <3> QED BY <3>1, <2>2 DEF TimeOut, Peace, Calm
  <2>4. ~ EndOfFile  BY <2>2 DEF EndOfFile, Peace, Calm, Shape, Working
  <2>5. ~ ReplyKills  BY <2>2 DEF ReplyKills, Peace, Calm
  <2>6. ~ Reject  BY <2>2, NothingToReject
  <2> QED BY <1>3, <2>2, <2>3, <2>4, <2>5, <2>6 DEF ServerStep, ThreadStep, PeacefulStep
<1> QED BY <1>1, <1>2, <1>3 DEF Next

LEMMA AliveStep ==
    ASSUME Peace, PeacefulStep
    PROVE  Alive'
BY DEF Peace, PeacefulStep, Alive, Connect, SendRequest, TakeReply, StartAgain, Accept, Answer,
    Reply, AddElements, Finish, vars, server

LEMMA TurnsStep ==
    ASSUME Shape, Peace, PeacefulStep
    PROVE  TurnsAreReplies'
<1> USE DEF Peace, TurnsAreReplies, Turning, Shape
<1>1. CASE Answer
  BY <1>1 DEF Answer, RequestIsWhole, Counted
<1>2. CASE Reply
  BY <1>2 DEF Reply, NextTurn
<1>3. CASE AddElements
  BY <1>3 DEF AddElements
<1>4. CASE Accept \/ Finish
  BY <1>4 DEF Accept, Finish
<1>5. CASE UNCHANGED server
  BY <1>5 DEF server
<1>6. ASSUME NEW r \in 1 .. MaxReqs, Connect(r) \/ SendRequest(r) \/ TakeReply(r)
      PROVE UNCHANGED server
  BY <1>6 DEF Connect, SendRequest, TakeReply
<1> QED BY <1>1, <1>2, <1>3, <1>4, <1>5, <1>6 DEF PeacefulStep, StartAgain, vars

\* What a step does to the answered connections.
LEMMA AnsweredStep ==
    ASSUME Shape, Peace, PeacefulStep
    PROVE  \/ Reply /\ Answered' = Answered \cup {cur} /\ cur \in Conns \ Answered
           \/ ~ Reply /\ Answered' = Answered
<1>1. CASE Reply
  BY <1>1 DEF Reply, Answered, Shape, Working, Peace, Calm
<1>2. ASSUME NEW r \in 1 .. MaxReqs, Connect(r) \/ SendRequest(r) \/ TakeReply(r)
      PROVE  Answered' = Answered
  <2>1. <<run, r>> \in Conns BY DEF Conns, Shape
  <2> QED BY <1>2, <2>1 DEF Connect, SendRequest, TakeReply, Set, Answered, Shape
<1>3. ASSUME UNCHANGED conn PROVE Answered' = Answered
  BY <1>3 DEF Answered
<1>4. ASSUME Accept \/ Answer \/ AddElements \/ Finish \/ StartAgain \/ UNCHANGED vars
      PROVE  Answered' = Answered
  <2>1. UNCHANGED conn
    BY <1>4 DEF Accept, Answer, AddElements, Finish, StartAgain, client, vars
  <2> QED BY <2>1, <1>3
<1>5. (\E r \in 1 .. MaxReqs : Connect(r) \/ SendRequest(r) \/ TakeReply(r)) => Answered' = Answered
  BY <1>2
<1> QED BY <1>1, <1>4, <1>5 DEF PeacefulStep

\* The first phase of run_offline is over when the requests of the script are answered.
LEMMA FirstPhaseIsOver ==
    ASSUME Shape, Peace, mode = "run_offline", phase = "offline", i = Load, pc = "accept"
    PROVE  \A r \in 1 .. Load : <<1, r>> \in Answered
<1> USE DEF Peace
<1> Load \in Nat \ {0} BY NetAssumption
<1>1. handled = Load  BY DEF TurnsAreReplies, Turning
<1>2. Reqs = 1 .. Load + Load /\ Load + Load + 2 = MaxReqs
  BY ScriptFits DEF Reqs, MaxReqs
<1>3. Measured = Answered
  BY DEF Measured, MeasuredType, Answered, Adds, Shape
<1>4. ~ Complete(1)
  <2> SUFFICES ASSUME Complete(1) PROVE FALSE OBVIOUS
  <2> DEFINE c == <<1, Load + 1>>
  <2>1. c \in Conns /\ c[2] = Load + 1 BY <1>2, NetAssumption DEF Conns
  <2>2. conn[c] = "done" /\ c[2] \in Reqs  BY <1>2, <2>1 DEF Complete
  <2>3. Type(c) = "ADD"  BY <2>1, <2>2, TypesOfModes
  <2>4. c \in Answered  BY <2>1, <2>2 DEF Answered
  <2> QED BY <2>3, <2>4 DEF Adds, Shape
<1>5. run = 1  BY <1>4 DEF Calm, Shape
<1>6. Answered \subseteq Row(1, 0)
  <2> SUFFICES ASSUME NEW c \in Answered PROVE c \in Row(1, 0) OBVIOUS
  <2>1. c \in Conns /\ conn[c] # "idle"  BY DEF Answered
  <2>2. c[1] = 1 /\ c[2] \in 1 .. Load + Load /\ c[2] \in Reqs /\ c = <<c[1], c[2]>>
    BY <2>1, <1>5, RequestsAreSent
  <2>3. Type(c) = "OFFLINE"  BY DEF Adds, Shape
  <2>4. c[2] \in 1 .. Load  BY <2>1, <2>2, <2>3, TypesOfModes
  <2> QED BY <2>2, <2>4 DEF Row
<1>7. Answered = Row(1, 0)  BY <1>1, <1>3, <1>6, RowIsFull
<1> QED BY <1>7 DEF Row

LEMMA AddsStep ==
    ASSUME Shape, Peace, PeacefulStep
    PROVE  Adds'
<1> USE DEF Peace
<1>1. CASE AddElements
  <2>1. \A r \in 1 .. Load : <<1, r>> \in Answered
    BY <1>1, FirstPhaseIsOver DEF AddElements
  <2>2. Answered' = Answered /\ added' = TRUE
    BY <1>1 DEF AddElements, client, Answered
  <2> QED BY <2>1, <2>2 DEF Adds
<1>2. CASE Reply
  <2>1. Answered' = Answered \cup {cur}
    BY <1>2 DEF Reply, Answered, Shape, Working, Calm
  <2>2. mode' = mode /\ added' = added  BY <1>2 DEF Reply
  <2>3. \A c : Type(c)' = Type(c)  BY <2>2 DEF Type, IsScript
  <2>4. mode = "run_offline" /\ ~ added => Type(cur) = "OFFLINE"
    BY <1>2 DEF Reply, Shape, Answers, FirstPhase
  <2> QED BY <2>1, <2>2, <2>3, <2>4 DEF Adds
<1>3. CASE ~ AddElements /\ ~ Reply
  <2>1. Answered' = Answered  BY <1>3, AnsweredStep
  <2>2. mode' = mode /\ added' = added
    BY <1>3 DEF PeacefulStep, Connect, SendRequest, TakeReply, StartAgain, Accept, Answer, Finish,
      vars, server
  <2>3. \A c : Type(c)' = Type(c)  BY <2>2 DEF Type, IsScript
  <2> QED BY <2>1, <2>2, <2>3 DEF Adds
<1> QED BY <1>1, <1>2, <1>3

\* The requests that handled_task counts are the measured ones.
LEMMA CountedIsMeasured ==
    ASSUME Shape, NEW t, Answers(t)
    PROVE  Counted(t) <=> t = MeasuredType
<1>1. CASE mode = "dpf"
  <2>1. phase = "offline" BY <1>1 DEF Shape, FirstPhase
  <2>2. DpfAnswers(t) BY <1>1, <2>1 DEF Answers
  <2> QED BY <1>1, <2>1, <2>2 DEF DpfAnswers, Counted, MeasuredType, Burst
<1>2. CASE mode = "baseline"
  <2>1. phase = "offline" BY <1>2 DEF Shape, FirstPhase
  <2>2. t = "OFFLINE" BY <1>2, <2>1 DEF Answers
  <2> QED BY <1>2, <2>1, <2>2 DEF Counted, MeasuredType, Burst
<1>3. CASE mode = "run_offline"
  <2>1. phase \in {"offline", "add"} BY <1>3 DEF Shape, FirstPhase
  <2>2. t = IF phase = "offline" THEN "OFFLINE" ELSE "ADD" BY <1>3, <2>1 DEF Answers
  <2> QED BY <1>3, <2>1, <2>2 DEF Counted, MeasuredType, Burst
<1>4. CASE mode = "run"
  <2>1. phase = "serve" BY <1>4 DEF Shape, FirstPhase
  <2> QED BY <1>4, <2>1 DEF Counted, MeasuredType, Burst
<1>5. CASE mode = "run_refresh"
  <2>1. phase = "serve" BY <1>5 DEF Shape, FirstPhase
  <2> QED BY <1>5, <2>1 DEF Counted, MeasuredType, Burst
<1>6. CASE mode \in {"ck_online", "ck_offline"}
  <2>1. phase = "serve" BY <1>6 DEF Shape, FirstPhase
  <2>2. Counted(t) <=> CkCounted(t) BY <1>6, <2>1 DEF Counted
  <2>3. MeasuredType = IF mode = "ck_online" THEN "ONLINE" ELSE "OFFLINE"
    BY <1>6 DEF MeasuredType, Burst
  <2> QED BY <2>2, <2>3 DEF CkCounted
<1> QED BY <1>1, <1>2, <1>3, <1>4, <1>5, <1>6, NetAssumption DEF Shape

LEMMA CountsStep ==
    ASSUME Shape, Peace, PeacefulStep
    PROVE  Counts'
<1> USE DEF Peace
<1> IsFiniteSet(Measured)  BY ConnsFinite, FS_Subset DEF Measured
<1>1. ASSUME mode' = mode, phase' = phase
      PROVE  MeasuredType' = MeasuredType /\ \A c : Type(c)' = Type(c)
  BY <1>1 DEF MeasuredType, Type, IsScript
<1>2. ASSUME handled' = handled, Measured' = Measured PROVE Counts'
  BY <1>2 DEF Counts
<1>3. CASE Answer
  <2>1. /\ cur \in Conns /\ conn[cur] = "sent" /\ pc = "recv" /\ Answers(Type(cur))
        /\ UNCHANGED <<mode, phase, cur, conn>> /\ pc' = "send"
    BY <1>3 DEF Answer, RequestIsWhole, Shape, Working, Calm, Waiting, client
  <2>2. MeasuredType' = MeasuredType /\ \A c : Type(c)' = Type(c)
    BY <2>1, <1>1
  <2>3. cur \notin Measured  BY <2>1 DEF Measured
  <2>4. Counted(Type(cur)) <=> Type(cur) = MeasuredType
    BY <2>1, CountedIsMeasured
  <2>5. CASE Type(cur) = MeasuredType
    <3>1. Measured' = Measured \cup {cur}  BY <2>1, <2>2, <2>5 DEF Measured
    <3>2. handled' = handled + 1  BY <1>3, <2>4, <2>5 DEF Answer
    <3> QED BY <3>1, <3>2, <2>3, FS_AddElement DEF Counts
  <2>6. CASE Type(cur) # MeasuredType
    <3>1. Measured' = Measured  BY <2>1, <2>2, <2>6 DEF Measured
    <3>2. handled' = handled  BY <1>3, <2>4, <2>6 DEF Answer, Shape
    <3> QED BY <3>1, <3>2, <1>2
  <2> QED BY <2>5, <2>6
<1>4. CASE Reply
  <2>1. /\ cur \in Conns /\ conn[cur] = "sent" /\ pc = "send"
        /\ UNCHANGED <<mode, phase, handled>> /\ pc' = "accept"
        /\ conn' = [conn EXCEPT ![cur] = "answered"]
    BY <1>4 DEF Reply, Shape, Working, Calm
  <2>2. MeasuredType' = MeasuredType /\ \A c : Type(c)' = Type(c)
    BY <2>1, <1>1
  <2>3. Measured' = Measured  BY <2>1, <2>2 DEF Measured, Shape
  <2> QED BY <2>1, <2>3, <1>2
<1>5. CASE AddElements
  <2>1. phase' = "add" /\ mode' = mode /\ mode = "run_offline" /\ pc' = pc /\ pc = "accept"
        /\ handled' = 0 /\ conn' = conn
    BY <1>5 DEF AddElements, client
  <2>2. MeasuredType' = "ADD" /\ \A c : Type(c)' = Type(c)
    BY <2>1 DEF MeasuredType, Burst, Type, IsScript
  <2>3. \A c \in Answered : Type(c) = "OFFLINE"
    BY <1>5 DEF AddElements, Adds, Shape
  <2>4. Measured' = {}  BY <2>1, <2>2, <2>3 DEF Measured, Answered
  <2> QED BY <2>1, <2>4, FS_EmptySet DEF Counts
<1>6. ASSUME UNCHANGED <<mode, phase, handled>>, pc # "send", pc' # "send", Answered' = Answered
      PROVE  Counts'
  <2>1. Measured' = Measured  BY <1>6, <1>1 DEF Measured, Answered
  <2> QED BY <1>6, <2>1, <1>2
<1>7. CASE Accept \/ Finish
  <2>1. UNCHANGED <<mode, phase, handled, conn>> /\ pc = "accept" /\ pc' \in {"recv", "finished"}
    BY <1>7 DEF Accept, Finish, client
  <2>2. Answered' = Answered  BY <2>1 DEF Answered
  <2> QED BY <2>1, <2>2, <1>6
<1>8. ASSUME \/ \E r \in 1 .. MaxReqs : Connect(r) \/ SendRequest(r) \/ TakeReply(r)
             \/ StartAgain \/ UNCHANGED vars
      PROVE  Counts'
  <2>1. UNCHANGED <<mode, phase, handled, pc, cur>>
    BY <1>8 DEF Connect, SendRequest, TakeReply, StartAgain, vars, server
  <2>2. ~ Reply  BY <2>1, ConnsFinite DEF Reply, Shape
  <2>3. Answered' = Answered  BY <2>2, AnsweredStep
  <2>4. Measured' = Measured  BY <2>1, <2>3, <1>1 DEF Measured, Answered
  <2> QED BY <2>1, <2>4, <1>2
<1> QED BY <1>3, <1>4, <1>5, <1>7, <1>8 DEF PeacefulStep
-----------------------------------------------------------------------------
(* The connections. *)

LEMMA CalmClient ==
    ASSUME Shape, Peace,
           NEW r \in 1 .. MaxReqs, Connect(r) \/ SendRequest(r) \/ TakeReply(r)
    PROVE  Calm'
<1> USE DEF Peace
<1> DEFINE c0 == <<run, r>>
<1>1. c0 \in Conns /\ r \in Reqs /\ c0[1] = run /\ c0[2] = r
  BY DEF Conns, Shape, Connect, SendRequest, TakeReply
<1>2. /\ up' /\ run' = run /\ mode' = mode /\ pc' = pc /\ cur' = cur
      /\ Reqs' = Reqs /\ \A q : IsScript(q)' = IsScript(q)
  BY DEF Connect, SendRequest, TakeReply, server, Calm, Reqs, IsScript
<1> DEFINE new == IF Connect(r) THEN "connected" ELSE IF SendRequest(r) THEN "sent" ELSE "done"
<1>3. conn' = [conn EXCEPT ![c0] = new] /\ new \in {"connected", "sent", "done"}
  BY DEF Connect, SendRequest, TakeReply, Set
<1>3a. /\ Connect(r) => conn[c0] = "idle"
       /\ new = "connected" => Connect(r) /\ conn[c0] = "idle"
       /\ new = "sent" => conn[c0] = "connected"
       /\ new = "done" => conn[c0] = "answered"
  BY DEF Connect, SendRequest, TakeReply
<1>3b. ~ Connect(r) => backlog' = backlog
  BY DEF SendRequest, TakeReply
<1>3c. Connect(r) => /\ backlog' = Append(backlog, c0)
                     /\ MayStart(r)
                     /\ pc \in {"accept", "recv", "send"}
  BY DEF Connect, Ended, Shape, Alive
<1>3d. conn[c0] # "idle" <=> ~ Connect(r)
  BY <1>3a, <1>3
<1> HIDE DEF new, c0
<1>4. \A c \in Conns : conn'[c] = IF c = c0 THEN new ELSE conn[c]
  BY <1>3 DEF Shape
<1>5. \A c \in Conns : Waiting(c) => conn'[c] \in {"connected", "sent"}
  BY <1>3, <1>3a, <1>4, <1>1 DEF Waiting
<1>6. \A c \in Conns : conn[c] = "done" => conn'[c] = "done"
  BY <1>3, <1>3a, <1>4
<1>7. backlog \in Seq(Conns)  BY DEF Shape
<1>a. \A c \in Conns : conn'[c] \in {"idle", "connected", "sent", "answered", "done"}
  BY <1>3, <1>4 DEF Calm
<1>b. \A k \in 1 .. Len(backlog') : conn'[backlog'[k]] \in {"connected", "sent"} /\ backlog'[k] # cur'
  <2>1. CASE ~ Connect(r)
    <3>1. \A k \in 1 .. Len(backlog) : backlog[k] \in Conns  BY <1>7
    <3> QED BY <2>1, <3>1, <1>2, <1>3b, <1>5 DEF Calm
  <2>2. CASE Connect(r)
    <3> SUFFICES ASSUME NEW k \in 1 .. Len(backlog')
                 PROVE  conn'[backlog'[k]] \in {"connected", "sent"} /\ backlog'[k] # cur'  OBVIOUS
    <3>1. CASE k \in 1 .. Len(backlog)
      <4>1. backlog'[k] = backlog[k] /\ backlog[k] \in Conns  BY <3>1, <2>2, <1>3c, <1>7
      <4> QED BY <4>1, <3>1, <1>2, <1>5 DEF Calm
    <3>2. CASE k = Len(backlog) + 1
      <4>1. backlog'[k] = c0  BY <3>2, <2>2, <1>3c, <1>7
      <4>2. cur # c0
        BY <2>2, <1>1, <1>3a, <1>3c, ConnsFinite DEF Calm, Shape, Waiting
      <4>3. conn'[c0] \in {"connected", "sent"}  BY <2>2, <1>1, <1>4 DEF new
      <4> QED BY <4>1, <4>2, <4>3, <1>2
    <3>3. k \in 1 .. Len(backlog) \/ k = Len(backlog) + 1
      BY <2>2, <1>3c, <1>7
    <3> QED BY <3>1, <3>2, <3>3
  <2> QED BY <2>1, <2>2
<1>c. \A k, l \in 1 .. Len(backlog') : backlog'[k] = backlog'[l] => k = l
  <2>1. CASE ~ Connect(r)
    BY <2>1, <1>3b DEF Calm
  <2>2. CASE Connect(r)
    <3>1. \A k \in 1 .. Len(backlog) : backlog[k] # c0
      BY <2>2, <1>3a DEF Calm, Waiting
    <3>2. \A k, l \in 1 .. Len(backlog) : backlog[k] = backlog[l] => k = l
      BY DEF Calm
    <3> QED BY <2>2, <3>1, <3>2, <1>3c, <1>7, <1>1
  <2> QED BY <2>1, <2>2
<1>d. pc' = "recv" => conn'[cur'] \in {"connected", "sent"}
  BY <1>2, <1>5 DEF Calm, Shape, Working
<1>e. pc' = "send" => conn'[cur'] = "sent"
  BY <1>2, <1>3, <1>3a, <1>4 DEF Calm, Shape, Working
<1>f. \A c \in Conns : conn'[c] # "idle" =>
          /\ c[1] <= run' /\ c[2] \in Reqs'
          /\ \A q \in Reqs' : IsScript(q)' /\ q < c[2] => conn'[<<c[1], q>>] = "done"
  <2> SUFFICES ASSUME NEW c \in Conns, conn'[c] # "idle"
               PROVE  /\ c[1] <= run /\ c[2] \in Reqs
                      /\ \A q \in Reqs : IsScript(q) /\ q < c[2] => conn'[<<c[1], q>>] = "done"
    BY <1>2
  <2>1. \A q \in Reqs : <<c[1], q>> \in Conns  BY ScriptFits DEF Conns
  <2>2. CASE conn[c] # "idle"
    BY <2>1, <2>2, <1>6 DEF Calm
  <2>3. CASE conn[c] = "idle"
    <3>1. c = c0 /\ Connect(r)  BY <2>3, <1>3d, <1>4
    <3>2. \A q \in Reqs : IsScript(q) /\ q < r => conn[<<run, q>>] = "done"
      BY <3>1, <1>3c DEF MayStart
    <3> QED BY <3>1, <3>2, <2>1, <1>1, <1>6 DEF Shape
  <2> QED BY <2>2, <2>3
<1>g. \A g \in 1 .. run' - 1 : Complete(g)'
  <2> SUFFICES ASSUME NEW g \in 1 .. run - 1, NEW q \in Reqs
               PROVE  conn'[<<g, q>>] = "done"
    BY <1>2 DEF Complete
  <2>1. <<g, q>> \in Conns  BY ScriptFits, NetAssumption DEF Conns, Shape
  <2>2. conn[<<g, q>>] = "done"  BY DEF Calm, Complete
  <2> QED BY <2>1, <2>2, <1>6
<1> QED BY <1>2, <1>a, <1>b, <1>c, <1>d, <1>e, <1>f, <1>g DEF Calm, Waiting

LEMMA CalmStartAgain ==
    ASSUME Shape, Peace, StartAgain
    PROVE  Calm'
<1> USE DEF Peace
<1>1. /\ UNCHANGED <<mode, pc, cur, backlog, conn>> /\ run' = run + 1 /\ up' = TRUE
      /\ Complete(run)
  BY DEF StartAgain, server, Calm
<1>2. Reqs' = Reqs /\ \A q : IsScript(q)' = IsScript(q)  BY <1>1 DEF Reqs, IsScript
<1>3. run \in Nat  BY NetAssumption DEF Shape
<1>4. \A g \in 1 .. run' - 1 : Complete(g)'
  <2>0. 1 .. run' - 1 = 1 .. run  BY <1>1, <1>3
  <2> SUFFICES ASSUME NEW g \in 1 .. run, NEW q \in Reqs
               PROVE  conn[<<g, q>>] = "done"
    BY <1>1, <1>2, <2>0 DEF Complete
  <2>1. CASE g = run  BY <1>1, <2>1 DEF Complete
  <2>2. CASE g # run
    <3>1. g \in 1 .. run - 1  BY <1>3, <2>2
    <3> QED BY <3>1 DEF Calm, Complete
  <2> QED BY <2>1, <2>2
<1>5. \A c \in Conns : conn'[c] # "idle" =>
          /\ c[1] <= run' /\ c[2] \in Reqs'
          /\ \A q \in Reqs' : IsScript(q)' /\ q < c[2] => conn'[<<c[1], q>>] = "done"
  <2> SUFFICES ASSUME NEW c \in Conns, conn[c] # "idle"
               PROVE  /\ c[1] <= run + 1 /\ c[2] \in Reqs
                      /\ \A q \in Reqs : IsScript(q) /\ q < c[2] => conn[<<c[1], q>>] = "done"
    BY <1>1, <1>2
  <2>1. c[1] \in 1 .. run  BY RequestsAreSent
  <2>2. c[1] <= run + 1  BY <2>1, <1>3
  <2> QED BY <2>2 DEF Calm
<1> QED BY <1>1, <1>4, <1>5 DEF Calm, Waiting

LEMMA CalmServer ==
    ASSUME Shape, Peace, Accept \/ Answer \/ Reply \/ AddElements \/ Finish
    PROVE  Calm'
<1> USE DEF Peace
<1>1. UNCHANGED <<mode, run, up>>
  BY DEF Accept, Answer, Reply, AddElements, Finish, client
<1>2. Reqs' = Reqs /\ \A q : IsScript(q)' = IsScript(q)  BY <1>1 DEF Reqs, IsScript
<1>3. backlog \in Seq(Conns)  BY DEF Shape
<1> DEFINE Quiet == /\ \A c \in Conns : conn'[c] # "idle" =>
                          /\ c[1] <= run' /\ c[2] \in Reqs'
                          /\ \A q \in Reqs' : IsScript(q)' /\ q < c[2] => conn'[<<c[1], q>>] = "done"
                    /\ \A g \in 1 .. run' - 1 : Complete(g)'
<1>4. ASSUME \A c \in Conns : /\ conn[c] = "idle" <=> conn'[c] = "idle"
                              /\ conn[c] = "done" => conn'[c] = "done"
      PROVE  Quiet
  <2>1. ASSUME NEW c \in Conns, conn'[c] # "idle"
        PROVE  /\ c[1] <= run /\ c[2] \in Reqs
               /\ \A q \in Reqs : IsScript(q) /\ q < c[2] => conn'[<<c[1], q>>] = "done"
    <3>1. conn[c] # "idle"  BY <1>4, <2>1
    <3>2. /\ c[1] <= run /\ c[2] \in Reqs
          /\ \A q \in Reqs : IsScript(q) /\ q < c[2] => conn[<<c[1], q>>] = "done"
      BY <3>1 DEF Calm
    <3>3. \A q \in Reqs : <<c[1], q>> \in Conns  BY ScriptFits DEF Conns
    <3> QED BY <1>4, <3>2, <3>3
  <2>2. ASSUME NEW g \in 1 .. run - 1, NEW q \in Reqs
        PROVE  conn'[<<g, q>>] = "done"
    <3>1. <<g, q>> \in Conns  BY ScriptFits, NetAssumption DEF Conns, Shape
    <3>2. conn[<<g, q>>] = "done"  BY DEF Calm, Complete
    <3> QED BY <1>4, <3>1, <3>2
  <2>3. \A g \in 1 .. run' - 1 : Complete(g)'  BY <1>1, <1>2, <2>2 DEF Complete
  <2> QED BY <1>1, <1>2, <2>1, <2>3
<1>4a. ASSUME conn' = conn PROVE Quiet
  <2>1. \A c \in Conns : /\ conn[c] = "idle" <=> conn'[c] = "idle"
                         /\ conn[c] = "done" => conn'[c] = "done"
    BY <1>4a
  <2> QED BY <1>4, <2>1
<1> HIDE DEF Quiet
<1>5. CASE Accept
  <2>1. /\ cur' = Head(backlog) /\ backlog' = Tail(backlog) /\ backlog # <<>>
        /\ pc' = "recv" /\ conn' = conn
    BY <1>5 DEF Accept, client
  <2>2. /\ Len(backlog') = Len(backlog) - 1 /\ Len(backlog) \in Nat \ {0}
        /\ cur' = backlog[1]
        /\ \A k \in 1 .. Len(backlog') : backlog'[k] = backlog[k + 1]
    BY <2>1, <1>3
  <2>3. \A k \in 1 .. Len(backlog') : k + 1 \in 1 .. Len(backlog) /\ k + 1 # 1
    BY <2>2
  <2>4. 1 \in 1 .. Len(backlog)  BY <2>2
  <2>5. \A k \in 1 .. Len(backlog') : conn[backlog'[k]] \in {"connected", "sent"} /\ backlog'[k] # cur'
    BY <2>2, <2>3, <2>4 DEF Calm, Waiting
  <2>6. \A k, l \in 1 .. Len(backlog') : backlog'[k] = backlog'[l] => k = l
    <3> SUFFICES ASSUME NEW k \in 1 .. Len(backlog'), NEW l \in 1 .. Len(backlog'),
                        backlog'[k] = backlog'[l]
                 PROVE  k = l  OBVIOUS
    <3>1. k + 1 = l + 1  BY <2>2, <2>3 DEF Calm
    <3> QED BY <3>1, <2>2
  <2>7. conn[cur'] \in {"connected", "sent"}  BY <2>2, <2>4 DEF Calm, Waiting
  <2>8. Quiet  BY <1>4a, <2>1
  <2> QED BY <1>1, <2>1, <2>5, <2>6, <2>7, <2>8 DEF Calm, Waiting, Quiet
<1>6. CASE Answer
  <2>1. UNCHANGED <<backlog, conn, cur>> /\ pc' = "send" /\ conn[cur] = "sent"
    BY <1>6 DEF Answer, RequestIsWhole, client, Calm, Waiting
  <2>2. Quiet  BY <1>4a, <2>1
  <2> QED BY <1>1, <2>1, <2>2 DEF Calm, Waiting, Quiet
<1>7. CASE Reply
  <2>1. /\ cur \in Conns /\ conn[cur] = "sent" /\ pc' = "accept" /\ cur' = None
        /\ conn' = [conn EXCEPT ![cur] = "answered"] /\ backlog' = backlog
    BY <1>7 DEF Reply, Shape, Working, Calm
  <2>2. \A c \in Conns : conn'[c] = IF c = cur THEN "answered" ELSE conn[c]
    BY <2>1 DEF Shape
  <2>3. Quiet
    <3>1. \A c \in Conns : /\ conn[c] = "idle" <=> conn'[c] = "idle"
                           /\ conn[c] = "done" => conn'[c] = "done"
      BY <2>1, <2>2
    <3> QED BY <3>1, <1>4
  <2>4. \A k \in 1 .. Len(backlog) : backlog[k] \in Conns  BY <1>3
  <2>5. \A k \in 1 .. Len(backlog) : conn'[backlog[k]] \in {"connected", "sent"} /\ backlog[k] # None
    BY <2>2, <2>4, ConnsFinite DEF Calm, Waiting
  <2>6. \A c \in Conns : conn'[c] \in {"idle", "connected", "sent", "answered", "done"}
    BY <2>2 DEF Calm
  <2> QED BY <1>1, <2>1, <2>3, <2>5, <2>6 DEF Calm, Waiting, Quiet
<1>8. CASE AddElements \/ Finish
  <2>1. UNCHANGED <<backlog, conn, cur>> /\ pc' \in {"accept", "finished"}
    BY <1>8 DEF AddElements, Finish, client
  <2>2. Quiet  BY <1>4a, <2>1
  <2> QED BY <1>1, <2>1, <2>2 DEF Calm, Waiting, Quiet
<1> QED BY <1>5, <1>6, <1>7, <1>8
-----------------------------------------------------------------------------
(* The theorems. *)

LEMMA InitIInv == Init => IInv
<1> SUFFICES ASSUME Init PROVE IInv OBVIOUS
<1> Load \in Nat \ {0} BY NetAssumption
<1>1. Shape  BY InitShape
<1>2. LeaksOnlyFailedReceives
  BY FS_EmptySet DEF Init, LeaksOnlyFailedReceives
<1>3. Calm  BY DEF Init, Calm, Complete
<1>4. TurnsAreReplies  BY DEF Init, TurnsAreReplies
<1>5. Measured = {} /\ Answered = {}  BY DEF Init, Measured, Answered
<1>6. Counts  BY <1>5, FS_EmptySet DEF Init, Counts
<1>7. Adds /\ Alive  BY <1>5 DEF Init, Adds, Alive
<1> QED BY <1>1, <1>2, <1>3, <1>4, <1>6, <1>7, PeaceIsIInv DEF Peace

LEMMA StepIInv == IInv /\ [Next]_vars => IInv'
<1> SUFFICES ASSUME IInv, [Next]_vars PROVE IInv' OBVIOUS
<1>1. Shape /\ LeaksOnlyFailedReceives /\ (Undisturbed => Peace)  BY PeaceIsIInv
<1>2. Shape'
  <2>1. CASE UNCHANGED vars
    <3>1. Answers(Type(cur))' <=> Answers(Type(cur))
      BY <2>1, AnswersStay DEF vars, server
    <3> QED BY <1>1, <2>1, <3>1 DEF vars, server, client, Shape, Turning, Working
  <2> QED BY <1>1, <2>1, ClientShape, ServerShape DEF Next
<1>3. LeaksOnlyFailedReceives'  BY <1>1, LeakStep
<1>4. Undisturbed' => Peace'
  <2> SUFFICES ASSUME Undisturbed' PROVE Peace' OBVIOUS
  <2>1. Peace /\ PeacefulStep  BY <1>1, LossesStay
  <2>2. Calm'
    <3>1. CASE UNCHANGED vars
      BY <2>1, <3>1 DEF Peace, vars, server, client, Calm, Waiting, Complete, Reqs, IsScript
    <3> QED BY <1>1, <2>1, <3>1, CalmClient, CalmStartAgain, CalmServer DEF PeacefulStep
  <2> QED BY <1>1, <2>1, <2>2, AliveStep, TurnsStep, CountsStep, AddsStep DEF Peace
<1>5. (IInv <=> Shape /\ LeaksOnlyFailedReceives /\ (Undisturbed => Peace))'
  BY PeaceIsIInv, PTL
<1> QED BY <1>2, <1>3, <1>4, <1>5

\* The server loops: shape, leaks and, while nothing is lost, replies counted turn by turn.
THEOREM InductiveInvariant == Spec => []IInv
BY InitIInv, StepIInv, PTL DEF Spec

\* Every variable has its type: the turns never run past the clients that were announced
\* (net_server.cpp:134, 194).
THEOREM TypeCorrect == Spec => []TypeOK
<1>1. IInv => TypeOK  BY DEF IInv, Shape, TypeOK
<1> QED BY <1>1, InductiveInvariant, PTL

\* No server loop ends by an assertion or a signal, or spins in do_read, unless a client was
\* lost or a receive failed (net_server.cpp:159, 223; net.hpp:158): for any number of threads,
\* runs and loops.
THEOREM LoopsFailOnlyAfterALoss == Spec => []FailsOnlyAfterALoss
<1>1. IInv => FailsOnlyAfterALoss  BY DEF IInv
<1> QED BY <1>1, InductiveInvariant, PTL

\* run_offline adds its elements when all offline requests are answered and before any other
\* is (net_server.cpp:188), for any number of threads.
THEOREM ElementsAreAddedBetween == Spec => []AddsBetweenThePhases
<1>1. IInv => AddsBetweenThePhases  BY DEF IInv
<1> QED BY <1>1, InductiveInvariant, PTL

\* handled_task is the number of measured requests that were answered, in every loop.
THEOREM ThroughputIsExact == Spec => []ThroughputExact
<1>1. IInv => ThroughputExact  BY DEF IInv
<1> QED BY <1>1, InductiveInvariant, PTL

\* A server holds one descriptor more than the one it works on for each failed receive at most,
\* whatever its clients do.
THEOREM LeaksAreFailedReceives == Spec => []LeaksOnlyFailedReceives
<1>1. IInv => LeaksOnlyFailedReceives  BY DEF IInv
<1> QED BY <1>1, InductiveInvariant, PTL
=============================================================================
