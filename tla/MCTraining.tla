------------------------------ MODULE MCTraining ------------------------------
(* Instances of Execution, VerlDaemon, BeamSearch and TraceTree for TLC: a      *)
(* behaviour is one of an execution, of a daemon and its clients, of a search, *)
(* or of a trace that becomes triplets; the other parts rest.                  *)
EXTENDS Execution, VerlDaemon, BeamSearch, TraceTree, TLC

CONSTANTS t1, t2, t3

VARIABLE part

trainingVars == <<part, vars, daemonVars, beamVars, traceVars>>

MCBatches == <<{t1, t2}, {t3}>>

Span(n, p, t, k) ==
  [seq |-> n, parent |-> p, start |-> t[1], end |-> t[2], kind |-> k[1], response |-> k[2]]

Long == <<0, 9>>
Left == <<1, 4>>
Within == <<2, 3>>
Right == <<5, 8>>

Kinds == {<<"call", "x">>, <<"call", None>>, <<"reward", None>>}

\* What three spans can have for parents.
Forests ==
  {p \in [1 .. 3 -> (1 .. 3) \cup {None, Lost}] :
     \A i \in 1 .. 3 :
       p[i] \in 1 .. 3 => /\ p[i] # i
                          /\ p[p[i]] # i
                          /\ p[p[i]] \in 1 .. 3 => p[p[p[i]]] \notin 1 .. 3}

Plain == <<"plain", None>>

\* The numbers of four spans in their order; the spans of a request share theirs.
Numberings == {n \in [1 .. 4 -> 1 .. 3] : \A i \in 1 .. 3 : n[i] <= n[i + 1]}

\* Any tree with any times; any tree of calls and rewards; calls and rewards in a row;
\* the same with any numbers.
MCTraces ==
  {[i \in 1 .. 3 |-> Span(i, p[i], t[i], Plain)] :
     p \in Forests, t \in [1 .. 3 -> {Long, Left, Within, Right}]} \cup
  {[i \in 1 .. 3 |-> Span(i, p[i], Long, k[i])] : p \in Forests, k \in [1 .. 3 -> Kinds]} \cup
  {[i \in 1 .. 4 |-> Span(i, None, t[i], k[i])] :
     t \in [1 .. 4 -> {Long, Left, Right}], k \in [1 .. 4 -> Kinds]} \cup
  {[i \in 1 .. 4 |-> Span(n[i], None, Long, k[i])] : n \in Numberings, k \in [1 .. 4 -> Kinds]}

ExecutionRests ==
  /\ Init
  /\ plan = CHOOSE p \in ShmPlans : p.main = "algorithm"
  /\ temper = [b \in Bundles |-> "stop"]
DaemonRests == DaemonInit /\ mode = "v0"
TraceRests ==
  /\ trace = <<Span(1, None, Long, Plain)>>
  /\ policy = "first_sibling" /\ exclude = TRUE
  /\ stage = "spans" /\ tree = <<>> /\ triplets = <<>>

TrainingInit ==
  \/ part = "execution" /\ Init /\ DaemonRests /\ BeamInit /\ TraceRests
  \/ part = "daemon" /\ ExecutionRests /\ DaemonInit /\ BeamInit /\ TraceRests
  \/ part = "search" /\ ExecutionRests /\ DaemonRests /\ BeamInit /\ TraceRests
  \/ part = "trace" /\ ExecutionRests /\ DaemonRests /\ BeamInit /\ TraceInit

TrainingNext ==
  \/ part = "execution" /\ Next /\ UNCHANGED <<part, daemonVars, beamVars, traceVars>>
  \/ part = "daemon" /\ DaemonNext /\ UNCHANGED <<part, vars, beamVars, traceVars>>
  \/ part = "search" /\ BeamNext /\ UNCHANGED <<part, vars, daemonVars, traceVars>>
  \/ part = "trace" /\ TraceNext /\ UNCHANGED <<part, vars, daemonVars, beamVars>>

\* Executions and daemons that rest have nothing to do.
TrainingSpec ==
  TrainingInit /\ [][TrainingNext]_trainingVars /\ ExecutionFairness /\ DaemonFairness

\* The traces alone.
TracesOnly ==
  /\ part = "trace" /\ ExecutionRests /\ DaemonRests /\ BeamInit /\ TraceInit
  /\ [][TrainingNext]_trainingVars
=============================================================================
