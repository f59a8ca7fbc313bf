------------------------------ MODULE MCServing ------------------------------
(* Instances of LlmProxy, ProxySpans and StreamConversion for TLC: a behaviour *)
(* is one of a proxy and its launcher, of the spans it records, or of a stream *)
(* it converts; the other parts rest.                                          *)
EXTENDS LlmProxy, ProxySpans, StreamConversion

CONSTANTS q1, q2

VARIABLE part

servingVars == <<part, proxyVars, spanVars, streamVars>>

\* One request with a tree of three spans, one with two.
MCSpans == ({q1} \X Kinds) \cup {<<q2, "root">>, <<q2, "call">>}

MCTexts == UNION {[1 .. n -> {"x", " "}] : n \in 0 .. 4}

ProxyRests ==
  /\ ProxyInit
  /\ args = [mode |-> "mp", gunicorn |-> FALSE, health |-> TRUE, kill |-> TRUE, cancel |-> FALSE]
  /\ user = "proxy"
  /\ capable

SpansRest ==
  SpansInit /\ carrier = "call" /\ ~otlp /\ ~fresh /\ path = [r \in Requests |-> Direct]

\* An exporter that is new to its process takes its first steps with one setting only.
MCSpansInit ==
  /\ SpansInit
  /\ fresh => otlp /\ carrier = "root" /\ path[q1] # Direct /\ path[q2] = Direct

StreamRests ==
  /\ StreamInit
  /\ protocol = "unknown"
  /\ ~streaming
  /\ answer.blocks = <<>>
  /\ answer.status = "ok"

ServingInit ==
  \/ part = "proxy" /\ ProxyInit /\ SpansRest /\ StreamRests
  \/ part = "spans" /\ ProxyRests /\ MCSpansInit /\ StreamRests
  \/ part = "stream" /\ ProxyRests /\ SpansRest /\ StreamInit

ServingNext ==
  \/ part = "proxy" /\ ProxyNext /\ UNCHANGED <<part, spanVars, streamVars>>
  \/ part = "spans" /\ SpansNext /\ UNCHANGED <<part, proxyVars, streamVars>>
  \/ part = "stream" /\ StreamNext /\ UNCHANGED <<part, proxyVars, spanVars>>

\* A launcher that rests has nothing to do.
ServingSpec == ServingInit /\ [][ServingNext]_servingVars /\ LauncherFairness

=============================================================================
