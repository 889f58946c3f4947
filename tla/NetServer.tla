----------------------------- MODULE NetServer ------------------------------
(***************************************************************************)
(* A NetServer (net_server.cpp) and the client programs that talk to it,   *)
(* online_, refresh_ and offline_client_eval.cpp: one connection for each  *)
(* request, one connection at a time on the server's side, `load` threads  *)
(* on the client's.                                                        *)
(* What the requests carry is in IncPir; here only their types matter.     *)
(*                                                                         *)
(* A client program first sends the requests of Script one after the       *)
(* other, then one request of type Burst from each of Load threads.  The   *)
(* program may be killed and started again; each start is a run of its     *)
(* own.  Both programs get the same parameters (inc-pir/readme.md:12).     *)
(*                                                                         *)
(* The baselines have loops of their own, made from these: that of CK-PIR  *)
(* with and without -o, and that of DPF-PIR in the constructor.            *)
(***************************************************************************)
EXTENDS Naturals, Sequences, FiniteSets

CONSTANTS Modes,      \* the server loops to look at
          Load,       \* -l: threads of the client, turns of run_offline
          Backlog,    \* the second argument of listen()
          MaxRuns,    \* bound: how often the client program is started
          MaxKills,   \* bound: how often it is killed
          MaxFails    \* bound: how often an intact client is too slow, or cut off

ASSUME NetAssumption ==
    /\ Modes \subseteq {"run", "run_refresh", "run_offline", "baseline",
                       "ck_online", "ck_offline", "dpf"}
    /\ {Load, Backlog, MaxRuns} \subseteq Nat \ {0}
    /\ {MaxKills, MaxFails} \subseteq Nat

Script(m) ==
    CASE m = "run"         -> <<"OFFLINE">>
      [] m = "run_refresh" -> <<"OFFLINE", "ONLINE">>
      [] m = "run_offline" -> [i \in 1 .. Load |-> "OFFLINE"]
      [] m = "ck_online"   -> <<"OFFLINE">>
      [] m \in {"baseline", "ck_offline", "dpf"} -> <<>>

Burst(m) ==
    CASE m = "run"         -> "ONLINE"
      [] m = "run_refresh" -> "REFRESH"
      [] m = "run_offline" -> "ADD"
      [] m = "ck_online"   -> "ONLINE"
      [] m = "dpf"         -> "QUERY"
      [] m \in {"baseline", "ck_offline"} -> "OFFLINE"

MaxReqs == 2 * Load + 2
Conns   == (1 .. MaxRuns) \X (1 .. MaxReqs)
None    == <<0, 0>>

VARIABLES
    mode,      \* the loop that the server runs ("baseline" is run_offline with -b)
    (* the server *)
    pc,        \* where it is in an iteration of its loop, or how it ended
    phase,     \* "serve" (loops without an end), "offline" or "add" (run_offline;
               \* DPF-PIR has the first of these loops only, for its queries)
    i,         \* the loop counter of run_offline
    cur,       \* client_fd: the connection it works on
    open,      \* the connections whose descriptor it holds
    handled,   \* handled_task
    added,     \* add_elements has been called
    backlog,   \* connections that wait for accept, oldest first
    (* the client *)
    run, up,   \* the number of its run, and whether that run is still alive
    conn,      \* the state of every connection
    kills,     \* history: runs that were killed
    fails      \* history: receives that failed on the server

server == <<pc, phase, i, cur, open, handled, added>>
client == <<run, up, conn>>
vars   == <<mode, server, backlog, client, kills, fails>>

Reqs       == 1 .. Len(Script(mode)) + Load
IsScript(r) == r <= Len(Script(mode))
Type(c)    == IF IsScript(c[2]) THEN Script(mode)[c[2]] ELSE Burst(mode)

Ended      == pc \in {"aborted", "killed", "finished"}
\* A run of the client whose requests have all been answered.
Complete(g) == \A r \in Reqs : conn[<<g, r>>] = "done"

FirstPhase(m) == IF m \in {"run_offline", "baseline", "dpf"} THEN "offline" ELSE "serve"

Init ==
    /\ mode \in Modes
    /\ pc = "accept" /\ phase = FirstPhase(mode) /\ i = 0
    /\ cur = None /\ open = {} /\ handled = 0 /\ added = FALSE
    /\ backlog = <<>>
    /\ run = 1 /\ up = TRUE
    /\ conn = [c \in Conns |-> "idle"]
    /\ kills = 0 /\ fails = 0
-----------------------------------------------------------------------------
(* The client.  States of a connection: "connected" (the request has not   *)
(* been sent completely), "sent", "answered" (the reply has been sent),    *)
(* "done" (the client has taken it); "cut" and "gone" when the client has  *)
(* been lost before or after it had sent the whole request; "stalled" when *)
(* the server has given up on it.                                          *)

Set(r, state) == conn' = [conn EXCEPT ![<<run, r>>] = state]

\* A request of the script waits for the one before it, the threads for the script.
MayStart(r) == \A q \in Reqs : IsScript(q) /\ q < r => conn[<<run, q>>] = "done"

Connect(r) ==
    /\ up /\ ~ Ended
    /\ r \in Reqs /\ conn[<<run, r>>] = "idle" /\ MayStart(r)
    /\ Len(backlog) < Backlog
    /\ backlog' = Append(backlog, <<run, r>>)
    /\ Set(r, "connected")
    /\ UNCHANGED <<mode, server, run, up, kills, fails>>

SendRequest(r) ==
    /\ up /\ r \in Reqs /\ conn[<<run, r>>] = "connected"
    /\ Set(r, "sent")
    /\ UNCHANGED <<mode, server, backlog, run, up, kills, fails>>

TakeReply(r) ==
    /\ up /\ r \in Reqs /\ conn[<<run, r>>] = "answered"
    /\ Set(r, "done")
    /\ UNCHANGED <<mode, server, backlog, run, up, kills, fails>>

\* The process is gone: the kernel closes its connections, what was sent stays readable.
EndRun ==
    /\ up' = FALSE
    /\ conn' = [c \in Conns |->
         IF c[1] # run THEN conn[c]
         ELSE CASE conn[c] = "connected"                      -> "cut"
                [] conn[c] \in {"sent", "answered", "stalled"} -> "gone"
                [] OTHER                                       -> conn[c]]

Kill ==
    /\ up /\ ~ Complete(run) /\ kills < MaxKills
    /\ EndRun
    /\ kills' = kills + 1
    /\ UNCHANGED <<mode, server, backlog, run, fails>>

\* assert(recvMsg(fd, response)) fails after the 6000 seconds of do_read.
TimeOut(r) ==
    /\ up /\ r \in Reqs /\ conn[<<run, r>>] = "stalled"
    /\ EndRun
    /\ UNCHANGED <<mode, server, backlog, run, kills, fails>>

StartAgain ==
    /\ run < MaxRuns /\ (up => Complete(run))
    /\ run' = run + 1 /\ up' = TRUE
    /\ UNCHANGED <<mode, server, backlog, conn, kills, fails>>
-----------------------------------------------------------------------------
(* The server.                                                             *)

\* (mutant) One turn too few.
MoreTurnsOneLess == phase = "serve" \/ i + 1 < Load

MoreTurns == phase = "serve" \/ i < Load
NextTurn  == i' = IF phase = "serve" THEN i ELSE i + 1

Accept ==
    /\ pc = "accept" /\ MoreTurns /\ backlog # <<>>
    /\ cur' = Head(backlog) /\ backlog' = Tail(backlog)
    /\ open' = open \cup {cur'}
    /\ pc' = "recv"
    /\ UNCHANGED <<mode, phase, i, handled, added, client, kills, fails>>

\* (mutant) The loop of CK-PIR answers what it measures and nothing else.
CkAnswersMeasured(t) == t = IF mode = "ck_online" THEN "ONLINE" ELSE "OFFLINE"

\* The loop of CK-PIR calls assert(0) for all but these.
CkAnswers(t) == t \in {"OFFLINE", "ONLINE"}

\* The constructor of DPF-PIR looks at no type.
DpfAnswers(t) == t = "QUERY"

\* The types that the loop answers; for the others it calls assert(0), except
\* that run has no last else.
Answers(t) ==
    CASE mode = "dpf"         -> DpfAnswers(t)
      [] mode \in {"ck_online", "ck_offline"} -> CkAnswers(t)
      [] phase = "offline" /\ mode # "dpf" -> t = "OFFLINE"
      [] phase = "add"        -> t = "ADD"
      [] mode = "run_refresh" -> t \in {"OFFLINE", "REFRESH", "ONLINE"}
      [] OTHER                -> TRUE

\* (mutant) The option -o is not looked at.
CkCountedAlways(t) == TRUE

\* handled_task of CK-PIR counts online queries with -o, offline queries without.
CkCounted(t) == t = IF mode = "ck_online" THEN "ONLINE" ELSE "OFFLINE"

Counted(t) ==
    phase = "serve" => CASE mode = "run"         -> t = "ONLINE"
                         [] mode = "run_refresh" -> t = "REFRESH"
                         [] OTHER                -> CkCounted(t)

RequestIsWhole == pc = "recv" /\ conn[cur] \in {"sent", "gone"}

Answer ==
    /\ RequestIsWhole /\ Answers(Type(cur))
    /\ handled' = handled + IF Counted(Type(cur)) THEN 1 ELSE 0
    /\ pc' = "send"
    /\ UNCHANGED <<mode, phase, i, cur, open, added, backlog, client, kills, fails>>

Reject ==
    /\ RequestIsWhole /\ ~ Answers(Type(cur))
    /\ pc' = "aborted"
    /\ UNCHANGED <<mode, phase, i, cur, open, handled, added, backlog, client, kills, fails>>

\* do_read adds the 0 that read returns at the end of the stream and tries again.
EndOfFile ==
    /\ pc = "recv" /\ conn[cur] = "cut"
    /\ pc' = "spin"
    /\ UNCHANGED <<mode, phase, i, cur, open, handled, added, backlog, client, kills, fails>>

\* recvMsg returns false: 6000 seconds without data, or the connection was reset.
\* The iteration is over, the descriptor stays open.
ReceiveFails ==
    /\ pc = "recv"
    /\ \/ conn[cur] = "connected" /\ fails < MaxFails
       \/ conn[cur] = "cut"
    /\ conn' = [conn EXCEPT ![cur] = IF @ = "cut" THEN "gone" ELSE "stalled"]
    /\ fails' = fails + 1
    /\ pc' = "accept" /\ cur' = None /\ NextTurn
    /\ UNCHANGED <<mode, phase, open, handled, added, backlog, run, up, kills>>

\* (mutant) The descriptor of a served client is not closed.
ReplyKeepsDescriptor ==
    /\ pc = "send"
    /\ conn' = [conn EXCEPT ![cur] = IF @ = "sent" THEN "answered" ELSE @]
    /\ pc' = "accept" /\ cur' = None /\ NextTurn
    /\ UNCHANGED <<mode, phase, open, handled, added, backlog, run, up, kills, fails>>

Reply ==
    /\ pc = "send"
    /\ conn' = [conn EXCEPT ![cur] = IF @ = "sent" THEN "answered" ELSE @]
    /\ open' = open \ {cur}
    /\ pc' = "accept" /\ cur' = None /\ NextTurn
    /\ UNCHANGED <<mode, phase, handled, added, backlog, run, up, kills, fails>>

\* Writing to a connection that the client has left: SIGPIPE, or assert(sendMsg()).
ReplyKills ==
    /\ pc = "send" /\ conn[cur] = "gone"
    /\ pc' = "killed"
    /\ UNCHANGED <<mode, phase, i, cur, open, handled, added, backlog, client, kills, fails>>

\* (mutant) The elements are added one request too early.
AddElementsEarly ==
    /\ pc = "accept" /\ phase = "offline" /\ i + 1 >= Load /\ mode = "run_offline"
    /\ phase' = "add" /\ added' = TRUE /\ i' = 0 /\ handled' = 0
    /\ UNCHANGED <<mode, pc, cur, open, backlog, client, kills, fails>>

\* run_offline after its first loop.
AddElements ==
    /\ pc = "accept" /\ phase = "offline" /\ i = Load /\ mode = "run_offline"
    /\ phase' = "add" /\ added' = TRUE /\ i' = 0 /\ handled' = 0
    /\ UNCHANGED <<mode, pc, cur, open, backlog, client, kills, fails>>

Finish ==
    /\ pc = "accept" /\ i = Load
    /\ phase = IF mode = "run_offline" THEN "add" ELSE "offline"
    /\ pc' = "finished"
    /\ UNCHANGED <<mode, phase, i, cur, open, handled, added, backlog, client, kills, fails>>

ServerStep == \/ Accept \/ Answer \/ Reject \/ EndOfFile \/ ReceiveFails
              \/ Reply \/ ReplyKills \/ AddElements \/ Finish

ThreadStep(r) == Connect(r) \/ SendRequest(r) \/ TakeReply(r) \/ TimeOut(r)

Next == \/ ServerStep
        \/ \E r \in 1 .. MaxReqs : ThreadStep(r)
        \/ Kill
        \/ StartAgain

\* The server and every thread of the client go on as long as they can.  Nobody has
\* to kill or to start a program.
Spec == /\ Init /\ [][Next]_vars
        /\ WF_vars(ServerStep)
        /\ \A r \in 1 .. MaxReqs : WF_vars(ThreadStep(r))
-----------------------------------------------------------------------------
(* Properties *)

TypeOK ==
    /\ mode \in Modes
    /\ pc \in {"accept", "recv", "send", "spin", "aborted", "killed", "finished"}
    /\ phase \in {"serve", "offline", "add"}
    /\ i \in 0 .. Load /\ handled \in Nat
    /\ cur \in Conns \cup {None} /\ open \subseteq Conns /\ added \in BOOLEAN
    /\ backlog \in Seq(Conns)
    /\ run \in 1 .. MaxRuns /\ up \in BOOLEAN
    /\ conn \in [Conns -> {"idle", "connected", "sent", "answered", "done",
                           "cut", "gone", "stalled"}]
    /\ kills \in Nat /\ fails \in Nat

\* No client has been killed and no receive has failed.
Undisturbed == kills = 0 /\ fails = 0

\* The loops of run_offline accept a fixed number of requests of one type each and call
\* assert(0) on any other (net_server.cpp:159-163, 223-228), while the client sends its
\* ADD requests from threads that overlap.  As long as no client is lost, the two agree:
\* the server never ends by an assertion or a signal, and it never spins in do_read.
FailsOnlyAfterALoss == pc \in {"aborted", "killed", "spin"} => ~ Undisturbed

\* run_offline adds the elements when `load` requests have been served.  As long as no
\* client is lost that is when every client has its hints, and not before; so no batch
\* is answered by a server without its rows, and no hint computed on a database with them.
AddsBetweenThePhases ==
    Undisturbed /\ mode = "run_offline" =>
        LET answered == {c \in Conns : conn[c] \in {"answered", "done"}} IN
        /\ added => \A r \in 1 .. Load : <<1, r>> \in answered
        /\ ~ added => \A c \in answered : Type(c) = "OFFLINE"

\* The throughput that the server prints: handled_task is the number of the measured
\* requests that were answered (and of the one whose reply is being sent).
ThroughputExact ==
    Undisturbed =>
        handled = Cardinality({c \in Conns :
            /\ conn[c] \in {"answered", "done"} \/ (c = cur /\ pc = "send")
            /\ Type(c) = IF mode = "run_offline" /\ phase = "offline"
                         THEN "OFFLINE" ELSE Burst(mode)})

\* Descriptors leak by failed receives only (the `continue` without close()).
LeaksOnlyFailedReceives == Cardinality(open \ {cur}) <= fails

\* Every run of the client gets all its replies, whatever happened to the runs before
\* it, unless it is lost itself, or a loss has ended the server, has let it spin or has
\* made run_offline count turns without a reply.  (run_offline serves one run only.)
ServerIsOut(g) == \/ pc \in {"spin", "aborted", "killed"}
                  \/ pc = "finished" /\ (g > 1 \/ ~ Undisturbed)

ClientsAreServed == \A g \in 1 .. MaxRuns :
    (run = g /\ up) ~> (Complete(g) \/ ~ up \/ ServerIsOut(g))
=============================================================================
