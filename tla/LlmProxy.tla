------------------------------ MODULE LlmProxy ------------------------------
(***************************************************************************)
(* The life of an LLMProxy (llm_proxy.py) on top of the server launcher:   *)
(* its guards, and the configuration file that its serve_context writes    *)
(* before the server runs and removes after it.  The name of the file is   *)
(* an attribute of the proxy; a forked server has a copy of its own.       *)
(***************************************************************************)
EXTENDS ServerLauncher

VARIABLES
  user,        \* who uses the launcher: "proxy", or a "store" server with no context
  capable,     \* whether the store fits the proxy's launch mode
  files,       \* the servers whose configuration file exists
  configFile   \* [processes -> the server whose file _config_file names there, or 0]

proxyVars == <<args, server, starts, handle, running, phase, user, capable, files, configFile>>

\* Process 0 is the caller's.
ProxyInit ==
  /\ LauncherInit
  /\ user \in {"proxy", "store"}
  /\ capable \in BOOLEAN
  /\ user = "store" => capable
  /\ files = {}
  /\ configFile = [p \in 0 .. MaxStarts |-> 0]

\* The process that runs the context of server s.
ProcessOf(s) == IF Process THEN s ELSE 0

Entered == {s \in Servers : server[s].ctx = "out" /\ server'[s].ctx = "in"}

\* The file goes when the server is asked to exit.  (A plausible bug of ContextLeft.)
MutantCleansUpEarly == {s \in Servers : server[s].task = "up" /\ server'[s].task = "exiting"}

\* The code after the yield runs when the server has ended.
ContextLeft == {s \in Servers : server[s].ctx = "in" /\ server'[s].ctx = "left"}

\* _serve_context: what it does when a launcher's step enters or leaves it.
ServeContext ==
  IF user = "store" THEN UNCHANGED <<files, configFile>>
  ELSE /\ configFile' = [p \in DOMAIN configFile |->
            IF \E s \in Entered : ProcessOf(s) = p
            THEN CHOOSE s \in Entered : ProcessOf(s) = p
            ELSE configFile[p]]
       /\ files' = (files \cup Entered) \ {configFile[ProcessOf(s)] : s \in ContextLeft}

\* start() refuses a store that cannot be shared the way the mode needs.
StartProxy == capable /\ Start

\* The proxy's stop() does nothing unless it is running.
StopProxy == (user = "proxy" => running) /\ Stop

ProxyNext ==
  /\ \/ StartProxy \/ StartCancelled \/ StopProxy \/ CallProceeds
     \/ \E s \in Servers : ServerStep(s)
  /\ ServeContext
  /\ UNCHANGED <<user, capable>>

ProxySpec == ProxyInit /\ [][ProxyNext]_proxyVars

\* A serving proxy has its configuration file: no other server's end takes it away.
\* In one process that needs that no earlier server was left behind, which hangs,
\* cancelled starts and servers on the caller's loop may do.
ConfigWhileServing ==
  Process \/ (Thread /\ ~args.cancel /\ \A s \in Servers : server[s].temper # "hangs") =>
    \A s \in Servers :
      user = "proxy" /\ Alive(s) /\ server[s].ctx = "in" => s \in files
=============================================================================
