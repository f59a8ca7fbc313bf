--------------------------- MODULE ServerLauncher ---------------------------
(***************************************************************************)
(* PythonServerLauncher (utils/server_launcher.py): one caller starts and  *)
(* stops a web server on its own event loop, in a thread or in a process,  *)
(* with uvicorn or gunicorn.  Servers fail to come up, come up unhealthy,  *)
(* die, linger over open connections or hang; processes are killed; the    *)
(* caller is cancelled while it waits.                                     *)
(*                                                                         *)
(* Every call of start() makes a server of its own, named by the number of *)
(* the call.  A timeout expires only on who would not answer in time.      *)
(***************************************************************************)
EXTENDS Integers

CONSTANT MaxStarts   \* bound on the calls of start() that get past the guard

ASSUME MaxStartsAssumption == MaxStarts \in Nat \ {0}

VARIABLES
  args,      \* PythonServerLauncherArgs, as far as they matter here
  server,    \* [Servers -> the serve task, its host and what the host reported]
  starts,    \* the number of servers started: the latest is the current one
  handle,    \* the server that _thread, _proc or _uvicorn_task refers to, or 0
  running,   \* _is_running
  phase      \* where the caller is

launcherVars == <<args, server, starts, handle, running, phase>>

Servers == 1 .. MaxStarts

Args ==
  [mode : {"asyncio", "thread", "mp"}, gunicorn : BOOLEAN, health : BOOLEAN,
   kill : BOOLEAN, cancel : BOOLEAN]

\* cancel: the caller may be cancelled in the middle of start().  Gunicorn needs mp; only
\* asyncio mode lets the caller keep an unhealthy server.
Supported ==
  {a \in Args : /\ a.gunicorn => a.mode = "mp"
                /\ ~a.kill => a.mode = "asyncio" /\ a.health}

\* heeds: exits when asked.  lingers: goes on until it is cancelled.  hangs: the
\* loop it shares with its host is blocked; nothing but SIGKILL ends it.
Tempers == {"heeds", "lingers", "hangs"}

\* The serve task.
Tasks == {"none", "boot", "up", "exiting", "done"}

\* The thread or process around it: the watcher at work, the watcher waiting for
\* the server it asked to exit, the wait for the stop event, the shutdown.
Hosts == {"none", "watching", "killing", "waiting", "closing", "failing", "gone"}

\* ctx is the serve_context: left when the code after its yield has run.
NoServer ==
  [temper |-> "heeds", task |-> "none", host |-> "none", event |-> "none",
   started |-> FALSE, healthy |-> FALSE, stop |-> FALSE, ctx |-> "out"]

Asyncio == args.mode = "asyncio"
Thread == args.mode = "thread"
Process == args.mode = "mp"

Alive(s) == server[s].task \in {"boot", "up", "exiting"}
HostAlive(s) == server[s].host \notin {"none", "gone"}

LauncherInit ==
  /\ args \in Supported
  /\ server = [s \in Servers |-> NoServer]
  /\ starts = 0
  /\ handle = 0
  /\ running = FALSE
  /\ phase = "idle"

-----------------------------------------------------------------------------
(* The server and its host.                                                *)

\* A server's own step: s becomes r.
Becomes(s, r) ==
  /\ server' = [server EXCEPT ![s] = r]
  /\ UNCHANGED <<args, starts, handle, running, phase>>

\* The serve task is over; the context is left unless it was cancelled or killed.
Finished(r) == [r EXCEPT !.task = "done", !.ctx = IF @ = "in" THEN "left" ELSE @]
Cancelled(r) == [r EXCEPT !.task = "done"]

\* The arbiter ends by SystemExit, and its process with it.
Ended(r) == IF args.gunicorn THEN [Cancelled(r) EXCEPT !.host = "gone"] ELSE Finished(r)

\* asyncio.run cancels what is left on the loop when the main coroutine returns.
Left(r) == [(IF r.task = "done" THEN r ELSE Cancelled(r)) EXCEPT !.host = "gone"]

Boots(s) ==
  /\ server[s].task = "boot"
  /\ Becomes(s, [server[s] EXCEPT !.task = "up", !.started = TRUE])

\* The context or serve() raises.  Gunicorn's process ends by it: an exception of
\* the context is reported, the arbiter's SystemExit is not.
BootFails(s) ==
  /\ server[s].task = "boot"
  /\ IF args.gunicorn
     THEN \E e \in {"none", "error"} :
            Becomes(s, [Cancelled(server[s]) EXCEPT !.host = "gone", !.event = e])
     ELSE \E r \in {Finished(server[s]), Cancelled(server[s])} : Becomes(s, r)

\* Somebody asked it to exit, and it does.
Exits(s) ==
  /\ server[s].task = "exiting"
  /\ server[s].temper = "heeds"
  /\ Becomes(s, Ended(server[s]))

\* It ends for reasons of its own; a host that waits does not notice.
Dies(s) ==
  /\ server[s].task = "up"
  /\ Becomes(s, Ended(server[s]))

OsKills(s) ==
  /\ Process
  /\ HostAlive(s)
  /\ Becomes(s, [server[s] EXCEPT !.task = "done", !.host = "gone"])

\* The server came up, and the health probe got its 200 if there is one.
HealthOk(s) == server[s].started /\ (args.health => server[s].healthy)

ProbeSucceeds(s) ==
  /\ args.health
  /\ server[s].host = "watching"
  /\ server[s].task = "up"
  /\ ~server[s].healthy
  /\ Becomes(s, [server[s] EXCEPT !.healthy = TRUE])

\* The watcher is content: the server may be used.
Ready(s) ==
  /\ server[s].host = "watching"
  /\ \/ HealthOk(s)
     \/ ~args.kill /\ server[s].started
  /\ Becomes(s, [server[s] EXCEPT !.host = "waiting", !.event = "ready"])

\* The watcher finds that the server did not come up, by its exception or by the
\* clock.  Only gunicorn's is asked to exit; a thread or process cancels the task
\* on its way out, and on the caller's loop it is left alone.
StartupFails(s) ==
  /\ server[s].host = "watching"
  /\ ~server[s].started
  /\ Becomes(s, [server[s] EXCEPT
       !.event = "error",
       !.host = IF Asyncio THEN "gone" ELSE IF args.gunicorn THEN "closing" ELSE "failing",
       !.task = IF @ = "boot" /\ args.gunicorn THEN "exiting" ELSE @])

\* The time for the probe is over: the server is asked to exit.  Gunicorn's watchdog
\* reports at once, the watcher of uvicorn waits for the server first.
HealthFails(s) ==
  /\ args.health
  /\ args.kill
  /\ server[s].host = "watching"
  /\ server[s].started
  /\ ~server[s].healthy
  /\ Becomes(s, [server[s] EXCEPT
       !.task = IF @ = "up" THEN "exiting" ELSE @,
       !.host = IF args.gunicorn THEN "closing" ELSE "killing",
       !.event = IF args.gunicorn THEN "error" ELSE @])

KillEnds(s) ==
  /\ server[s].host = "killing"
  /\ server[s].task = "done"
  /\ Becomes(s, [server[s] EXCEPT
       !.event = "error", !.host = IF Asyncio THEN "gone" ELSE "failing"])

\* The main coroutine of a thread or process returns after it reported the error.
Fails(s) ==
  /\ server[s].host = "failing"
  /\ server[s].temper # "hangs"
  /\ Becomes(s, Left(server[s]))

\* The host sees the stop event or the signal and asks the server to exit; a watcher
\* goes on watching, but uvicorn and gunicorn take the signal as well.
HeedsStop(s) ==
  /\ server[s].stop
  /\ server[s].temper # "hangs"
  /\ \/ /\ server[s].host = "waiting" \/ (args.gunicorn /\ server[s].host = "watching")
        /\ Becomes(s, [server[s] EXCEPT
             !.host = "closing", !.task = IF @ = "done" THEN @ ELSE "exiting"])
     \/ /\ Process
        /\ server[s].host = "watching"
        /\ server[s].task = "up"
        /\ Becomes(s, [server[s] EXCEPT !.task = "exiting"])

\* shutdown_uvicorn_server and the arbiter wait, then cancel or kill.
Closes(s) ==
  /\ server[s].host = "closing"
  /\ server[s].temper # "hangs"
  /\ server[s].task # "done" => server[s].temper = "lingers"
  /\ Becomes(s, Left(server[s]))

ServerStep(s) ==
  \/ Boots(s) \/ BootFails(s) \/ Exits(s) \/ Dies(s) \/ OsKills(s)
  \/ ProbeSucceeds(s) \/ Ready(s) \/ StartupFails(s) \/ HealthFails(s) \/ KillEnds(s)
  \/ Fails(s) \/ HeedsStop(s) \/ Closes(s)

-----------------------------------------------------------------------------
(* The caller.                                                             *)

Start ==
  /\ phase = "idle"
  /\ ~running
  /\ starts < MaxStarts
  /\ starts' = starts + 1
  /\ \E t \in Tempers :
       /\ t = "hangs" => ~Asyncio
       /\ server' = [server EXCEPT ![starts + 1] =
            [NoServer EXCEPT !.temper = t, !.task = "boot", !.host = "watching",
                             !.ctx = "in"]]
  /\ handle' = IF Asyncio THEN handle ELSE starts + 1
  /\ phase' = "starting"
  /\ UNCHANGED <<args, running>>

Goes(p) == phase' = p /\ UNCHANGED <<args, server, starts>>

\* start() returns.
StartReturns ==
  /\ phase = "starting"
  /\ server[starts].event = "ready"
  /\ handle' = starts
  /\ running' = TRUE
  /\ Goes("idle")

\* The error event: a thread or process is joined before start() raises.
StartFails ==
  /\ phase = "starting"
  /\ server[starts].event = "error"
  /\ UNCHANGED <<handle, running>>
  /\ Goes(IF Asyncio THEN "idle" ELSE "joining")

\* Whether it ends within the time the joins allow it, once it was told to.
EndsInTime(s) ==
  /\ server[s].temper # "hangs"
  /\ \/ server[s].host \in {"waiting", "closing", "failing"}
     \/ server[s].host = "killing" /\ (Alive(s) => server[s].temper = "heeds")
     \/ args.gunicorn /\ server[s].host = "watching"

\* The join is forgotten.  (A plausible bug of JoinEnds.)
MutantNoJoin ==
  /\ phase = "joining"
  /\ UNCHANGED <<handle, running>>
  /\ Goes("idle")

\* The join has no timeout.  (A plausible bug of JoinEnds.)
MutantJoinForever ==
  /\ phase = "joining"
  /\ ~HostAlive(starts)
  /\ UNCHANGED <<handle, running>>
  /\ Goes("idle")

\* start() raises, whether or not the join was any good.
JoinEnds ==
  /\ phase = "joining"
  /\ ~HostAlive(starts) \/ ~EndsInTime(starts)
  /\ UNCHANGED <<handle, running>>
  /\ Goes("idle")

\* It stays until it is killed, which threads cannot be.
Stubborn(s) ==
  \/ server[s].temper = "hangs"
  \/ server[s].temper = "lingers" /\ server[s].host = "killing" /\ Alive(s)

\* The process dies before it reports, or the host hangs: no event comes.
NoEvent ==
  /\ phase = "starting"
  /\ ~Asyncio
  /\ server[starts].event = "none"
  /\ \/ ~HostAlive(starts) /\ Goes("idle")
     \/ /\ HostAlive(starts)
        /\ Stubborn(starts)
        /\ phase' = "stopping"
        /\ server' = [server EXCEPT ![starts].stop = TRUE]
        /\ UNCHANGED <<args, starts>>
  /\ UNCHANGED <<handle, running>>

\* The caller of start() is cancelled while it waits.  On its own loop the watcher
\* is cancelled with it, and the server only if the watcher was waiting for it.
StartCancelled ==
  /\ args.cancel
  /\ phase = "starting"
  /\ phase' = "idle"
  /\ server' =
       IF ~Asyncio \/ server[starts].host \notin {"watching", "killing"} THEN server
       ELSE [server EXCEPT ![starts] =
               [(IF @.host = "killing" THEN Cancelled(@) ELSE @) EXCEPT !.host = "gone"]]
  /\ UNCHANGED <<args, starts, handle, running>>

\* stop(), and the end of run_forever: on the caller's loop the server itself is
\* asked to exit, a thread by its event, a process by SIGTERM.
Stop ==
  /\ phase = "idle"
  /\ handle # 0
  /\ server' = [server EXCEPT ![handle].stop = ~Asyncio,
                              ![handle].task = IF Asyncio /\ @ = "up" THEN "exiting" ELSE @]
  /\ phase' = "stopping"
  /\ UNCHANGED <<args, starts, handle, running>>

\* Whether what stop() waits for has happened.
Over(s) == IF Asyncio THEN ~Alive(s) ELSE ~HostAlive(s)

StopReturns ==
  /\ phase \in {"stopping", "sigkill"}
  /\ Over(handle)
  /\ handle' = 0
  /\ running' = FALSE
  /\ Goes("idle")

\* On the caller's loop the task is cancelled after five seconds.
StopCancelsTask ==
  /\ phase = "stopping"
  /\ Asyncio
  /\ server[handle].task = "exiting"
  /\ server[handle].temper = "lingers"
  /\ server' = [server EXCEPT ![handle] = Cancelled(@)]
  /\ UNCHANGED <<args, starts, handle, running, phase>>

\* A thread that does not end makes stop() raise; a process is killed.
StopTimesOut ==
  /\ phase = "stopping"
  /\ ~Asyncio
  /\ HostAlive(handle)
  /\ ~EndsInTime(handle)
  /\ \/ Thread /\ Goes("idle")
     \/ /\ Process
        /\ phase' = "sigkill"
        /\ server' = [server EXCEPT ![handle].task = "done", ![handle].host = "gone"]
        /\ UNCHANGED <<args, starts>>
  /\ UNCHANGED <<handle, running>>

\* What the caller's calls do once they are made.
CallProceeds ==
  \/ StartReturns \/ StartFails \/ JoinEnds \/ NoEvent
  \/ StopReturns \/ StopCancelsTask \/ StopTimesOut

\* What a watcher and a host get to do in time, as long as their loop is not blocked.
Watches(s) == Ready(s) \/ StartupFails(s) \/ HealthFails(s)
HostStep(s) ==
  /\ server[s].temper # "hangs"
  /\ Watches(s) \/ KillEnds(s) \/ Fails(s) \/ HeedsStop(s) \/ Closes(s) \/ Exits(s)

LauncherNext ==
  \/ Start \/ StartCancelled \/ Stop \/ CallProceeds
  \/ \E s \in Servers : ServerStep(s)

LauncherSpec == LauncherInit /\ [][LauncherNext]_launcherVars

\* Calls proceed and timeouts expire; servers finish what they were asked to do.
LauncherFairness ==
  /\ WF_launcherVars(CallProceeds)
  /\ \A s \in Servers : WF_launcherVars(HostStep(s))

-----------------------------------------------------------------------------
\* In a thread or process nothing is left behind that the launcher does not hold,
\* however often start() failed, except what hangs or waits for open connections
\* without end, unless the caller was cancelled.
OnlyTheStubbornRemain ==
  ~Asyncio /\ ~args.cancel =>
    \A s \in Servers : HostAlive(s) => s = handle \/ Stubborn(s)

\* start() and stop() come to an end.  The exception is a server that lingers on the
\* caller's own loop after it failed its health check: nothing limits that wait.
CallsEnd ==
  (phase # "idle" /\ ~(Asyncio /\ server[starts].temper = "lingers")) ~> phase = "idle"
=============================================================================
