---------------------------- MODULE LlmProxyProofs ----------------------------
(***************************************************************************)
(* Proofs about the LLM proxy.  ServerLauncher and LlmProxy, for any number *)
(* of servers that a launcher starts one after the other: which of them    *)
(* remain, and that none of them takes away the configuration of the one   *)
(* that serves.  ProxySpans, for every set of requests, attempts and       *)
(* threads: a span is stored under the identifiers of its own request, and *)
(* none is lost by an exporter that has its lock.                          *)
(***************************************************************************)
EXTENDS LlmProxy, ProxySpans, SequenceTheorems, TLAPS

-----------------------------------------------------------------------------
\* The inductive invariant of the launcher: types, ...
Phases == {"idle", "starting", "joining", "stopping", "sigkill"}

Records ==
  [temper : Tempers, task : Tasks, host : Hosts, event : {"none", "ready", "error"},
   started : BOOLEAN, healthy : BOOLEAN, stop : BOOLEAN, ctx : {"out", "in", "left"}]

LauncherTypes ==
  /\ args \in Supported
  /\ server \in [Servers -> Records]
  /\ starts \in 0 .. MaxStarts
  /\ handle \in 0 .. starts
  /\ running \in BOOLEAN
  /\ phase \in Phases

\* ... who reported an error is on its way out, who waits for a server has asked it to
\* exit, and a thread or process takes its server with it, ...
Sound(r) ==
  /\ r.event = "error" =>
       /\ r.host \in {"closing", "failing", "gone"}
       /\ args.gunicorn => r.task # "boot"
  /\ r.host = "killing" => r.task \in {"exiting", "done"}
  /\ r.started => r.task \in {"up", "exiting", "done"}
  /\ ~Asyncio /\ r.host = "gone" => r.task = "done"

\* ... servers are started in their order, ...
Begun(s) ==
  IF s <= starts THEN server[s].host # "none" /\ server[s].ctx # "out"
  ELSE server[s] = NoServer

\* ... the caller of a thread or process holds the latest server or none, ...
Caller ==
  /\ phase \in {"stopping", "sigkill"} => handle # 0
  /\ phase \in {"starting", "joining"} => starts # 0 /\ ~running
  /\ phase = "joining" => server[starts].event = "error"
  /\ ~Asyncio => handle = starts \/ (handle = 0 /\ phase = "idle")

\* ... and before the next start() even the one it holds is gone or stubborn.
NothingToHold ==
  ~Asyncio /\ ~args.cancel /\ phase \notin {"starting", "joining"} /\ ~running =>
    \A s \in Servers : HostAlive(s) => Stubborn(s)

LauncherInv ==
  /\ LauncherTypes
  /\ \A s \in Servers : Sound(server[s]) /\ Begun(s)
  /\ Caller
  /\ OnlyTheStubbornRemain
  /\ NothingToHold

-----------------------------------------------------------------------------
\* A server waits for what does not come, or is blocked.
Stuck(r) ==
  \/ r.temper = "hangs"
  \/ r.temper = "lingers" /\ r.host = "killing" /\ r.task \in {"boot", "up", "exiting"}

\* What a server's step may do, from q to r, whichever step it is: only a living host
\* and a living server move, a stubborn one stays so, and an error is not taken back.
Fits(q, r) ==
  /\ r \in Records
  /\ Sound(r)
  /\ r.temper = q.temper
  /\ r.host # "none"
  /\ q.host = "gone" => r.host = "gone"
  /\ ~Asyncio /\ Stuck(q) => Stuck(r) \/ r.host = "gone"
  /\ q.event = "error" => r.event = "error"
  /\ r.ctx = q.ctx \/ (q.ctx = "in" /\ r.ctx = "left" /\ q.task \in {"boot", "up", "exiting"})
  /\ Thread /\ Stuck(q) /\ r.ctx # q.ctx => q.temper = "hangs"

\* A server that has a step has been started.
Moved(s) ==
  /\ s <= starts
  /\ \E r : Becomes(s, r) /\ Fits(server[s], r)

\* How a serve task ends, field by field.
LEMMA Endings ==
  ASSUME NEW r \in Records
  PROVE  /\ Left(r) = [r EXCEPT !.task = "done", !.host = "gone"]
         /\ Cancelled(r) = [r EXCEPT !.task = "done"]
         /\ Ended(r) = IF args.gunicorn THEN [r EXCEPT !.task = "done", !.host = "gone"]
                       ELSE Finished(r)
         /\ Finished(r) = [r EXCEPT !.task = "done",
                                    !.ctx = IF r.ctx = "in" THEN "left" ELSE r.ctx]
<1>1. Cancelled(r) = [r EXCEPT !.task = "done"]
  BY DEF Cancelled
<1>2. Left(r) = [r EXCEPT !.task = "done", !.host = "gone"]
  <2>1. CASE r.task = "done" BY <2>1 DEF Left, Records
  <2>2. CASE r.task # "done" BY <1>1, <2>2 DEF Left, Records
  <2>3. QED BY <2>1, <2>2
<1>3. QED
  BY <1>1, <1>2 DEF Ended, Finished, Records

\* What is known of a server before its step.
LEMMA ServerRecord ==
  ASSUME LauncherInv, NEW s \in Servers
  PROVE  /\ server[s] \in Records /\ args \in Args
         /\ args.gunicorn => Process
         /\ Sound(server[s])
         /\ server[s].task # "none" \/ HostAlive(s) => s <= starts /\ server[s].host # "none"
BY DEF LauncherInv, LauncherTypes, Supported, Process, Begun, NoServer, HostAlive

\* The steps of the serve task.
LEMMA TaskMoves ==
  ASSUME LauncherInv, NEW s \in Servers,
         Boots(s) \/ BootFails(s) \/ Exits(s) \/ Dies(s) \/ OsKills(s)
  PROVE  Moved(s)
<1> DEFINE q == server[s]
<1>1. /\ q \in Records /\ args \in Args
      /\ args.gunicorn => Process
      /\ Sound(q)
      /\ q.task # "none" \/ HostAlive(s) => s <= starts /\ q.host # "none"
  BY ServerRecord
<1>2. /\ Left(q) = [q EXCEPT !.task = "done", !.host = "gone"]
      /\ Cancelled(q) = [q EXCEPT !.task = "done"]
      /\ Finished(q) = [q EXCEPT !.task = "done", !.ctx = IF q.ctx = "in" THEN "left" ELSE q.ctx]
      /\ Ended(q) = IF args.gunicorn THEN [q EXCEPT !.task = "done", !.host = "gone"] ELSE Finished(q)
  BY <1>1, Endings
<1>3. CASE Boots(s)
  <2> DEFINE r == [q EXCEPT !.task = "up", !.started = TRUE]
  <2>1. /\ q.task = "boot"
        /\ Becomes(s, r)
    BY <1>3 DEF Boots
  <2>2. Fits(q, r)
    BY <1>1, <1>2, <2>1 DEF Fits, Sound, Stuck, Records, Tempers, Tasks, Hosts,
       Asyncio, Thread, Process, Args, HostAlive
  <2>3. QED
    BY <1>1, <2>1, <2>2 DEF Moved, HostAlive
<1>4. CASE BootFails(s)
  <2>1. PICK r : /\ Becomes(s, r)
               /\ \/ /\ q.task = "boot" /\ args.gunicorn
                     /\ r = [Cancelled(q) EXCEPT !.host = "gone", !.event = "none"]
                  \/ /\ q.task = "boot" /\ args.gunicorn
                     /\ r = [Cancelled(q) EXCEPT !.host = "gone", !.event = "error"]
                  \/ /\ q.task = "boot" /\ ~args.gunicorn
                     /\ r = Finished(q)
                  \/ /\ q.task = "boot" /\ ~args.gunicorn
                     /\ r = Cancelled(q)
    BY <1>4 DEF BootFails
  <2>2. Fits(q, r)
    <3>1. CASE q.task = "boot" /\ args.gunicorn /\ r = [Cancelled(q) EXCEPT !.host = "gone", !.event = "none"]
      BY <1>1, <1>2, <2>1, <3>1 DEF Fits, Sound, Stuck, Records, Tempers, Tasks, Hosts,
           Asyncio, Thread, Process, Args, HostAlive
    <3>2. CASE q.task = "boot" /\ args.gunicorn /\ r = [Cancelled(q) EXCEPT !.host = "gone", !.event = "error"]
      BY <1>1, <1>2, <2>1, <3>2 DEF Fits, Sound, Stuck, Records, Tempers, Tasks, Hosts,
           Asyncio, Thread, Process, Args, HostAlive
    <3>3. CASE q.task = "boot" /\ ~args.gunicorn /\ r = Finished(q)
      BY <1>1, <1>2, <2>1, <3>3 DEF Fits, Sound, Stuck, Records, Tempers, Tasks, Hosts,
           Asyncio, Thread, Process, Args, HostAlive
    <3>4. CASE q.task = "boot" /\ ~args.gunicorn /\ r = Cancelled(q)
      BY <1>1, <1>2, <2>1, <3>4 DEF Fits, Sound, Stuck, Records, Tempers, Tasks, Hosts,
           Asyncio, Thread, Process, Args, HostAlive
    <3>5. QED
      BY <2>1, <3>1, <3>2, <3>3, <3>4
  <2>3. QED
    BY <1>1, <2>1, <2>2 DEF Moved, HostAlive
<1>5. CASE Exits(s)
  <2>1. PICK r : /\ Becomes(s, r)
               /\ q.task = "exiting" /\ q.temper = "heeds"
               /\ \/ args.gunicorn /\ r = [Cancelled(q) EXCEPT !.host = "gone"]
                  \/ ~args.gunicorn /\ r = Finished(q)
    BY <1>5 DEF Exits, Ended
  <2>2. Fits(q, r)
    <3>1. CASE args.gunicorn /\ r = [Cancelled(q) EXCEPT !.host = "gone"]
      BY <1>1, <1>2, <2>1, <3>1 DEF Fits, Sound, Stuck, Records, Tempers, Tasks, Hosts,
           Asyncio, Thread, Process, Args, HostAlive
    <3>2. CASE ~args.gunicorn /\ r = Finished(q)
      BY <1>1, <1>2, <2>1, <3>2 DEF Fits, Sound, Stuck, Records, Tempers, Tasks, Hosts,
           Asyncio, Thread, Process, Args, HostAlive
    <3>3. QED
      BY <2>1, <3>1, <3>2
  <2>3. QED
    BY <1>1, <2>1, <2>2 DEF Moved, HostAlive
<1>6. CASE Dies(s)
  <2>1. PICK r : /\ Becomes(s, r)
               /\ q.task = "up"
               /\ \/ args.gunicorn /\ r = [Cancelled(q) EXCEPT !.host = "gone"]
                  \/ ~args.gunicorn /\ r = Finished(q)
    BY <1>6 DEF Dies, Ended
  <2>2. Fits(q, r)
    <3>1. CASE args.gunicorn /\ r = [Cancelled(q) EXCEPT !.host = "gone"]
      BY <1>1, <1>2, <2>1, <3>1 DEF Fits, Sound, Stuck, Records, Tempers, Tasks, Hosts,
           Asyncio, Thread, Process, Args, HostAlive
    <3>2. CASE ~args.gunicorn /\ r = Finished(q)
      BY <1>1, <1>2, <2>1, <3>2 DEF Fits, Sound, Stuck, Records, Tempers, Tasks, Hosts,
           Asyncio, Thread, Process, Args, HostAlive
    <3>3. QED
      BY <2>1, <3>1, <3>2
  <2>3. QED
    BY <1>1, <2>1, <2>2 DEF Moved, HostAlive
<1>7. CASE OsKills(s)
  <2> DEFINE r == [q EXCEPT !.task = "done", !.host = "gone"]
  <2>1. /\ Process
        /\ HostAlive(s)
        /\ Becomes(s, r)
    BY <1>7 DEF OsKills
  <2>2. Fits(q, r)
    BY <1>1, <1>2, <2>1 DEF Fits, Sound, Stuck, Records, Tempers, Tasks, Hosts,
       Asyncio, Thread, Process, Args, HostAlive
  <2>3. QED
    BY <1>1, <2>1, <2>2 DEF Moved, HostAlive
<1>8. QED
  BY <1>3, <1>4, <1>5, <1>6, <1>7

\* The steps of a watcher.
LEMMA WatcherMoves ==
  ASSUME LauncherInv, NEW s \in Servers,
         ProbeSucceeds(s) \/ Ready(s) \/ StartupFails(s) \/ HealthFails(s) \/ KillEnds(s)
  PROVE  Moved(s)
<1> DEFINE q == server[s]
<1>1. /\ q \in Records /\ args \in Args
      /\ args.gunicorn => Process
      /\ Sound(q)
      /\ q.task # "none" \/ HostAlive(s) => s <= starts /\ q.host # "none"
  BY ServerRecord
<1>2. /\ Left(q) = [q EXCEPT !.task = "done", !.host = "gone"]
      /\ Cancelled(q) = [q EXCEPT !.task = "done"]
      /\ Finished(q) = [q EXCEPT !.task = "done", !.ctx = IF q.ctx = "in" THEN "left" ELSE q.ctx]
      /\ Ended(q) = IF args.gunicorn THEN [q EXCEPT !.task = "done", !.host = "gone"] ELSE Finished(q)
  BY <1>1, Endings
<1>3. CASE ProbeSucceeds(s)
  <2> DEFINE r == [q EXCEPT !.healthy = TRUE]
  <2>1. /\ q.host = "watching"
        /\ Becomes(s, r)
    BY <1>3 DEF ProbeSucceeds
  <2>2. Fits(q, r)
    BY <1>1, <1>2, <2>1 DEF Fits, Sound, Stuck, Records, Tempers, Tasks, Hosts,
       Asyncio, Thread, Process, Args, HostAlive
  <2>3. QED
    BY <1>1, <2>1, <2>2 DEF Moved, HostAlive
<1>4. CASE Ready(s)
  <2> DEFINE r == [q EXCEPT !.host = "waiting", !.event = "ready"]
  <2>1. /\ q.host = "watching"
        /\ Becomes(s, r)
    BY <1>4 DEF Ready
  <2>2. Fits(q, r)
    BY <1>1, <1>2, <2>1 DEF Fits, Sound, Stuck, Records, Tempers, Tasks, Hosts,
       Asyncio, Thread, Process, Args, HostAlive
  <2>3. QED
    BY <1>1, <2>1, <2>2 DEF Moved, HostAlive
<1>5. CASE StartupFails(s)
  <2> DEFINE r == [q EXCEPT
         !.event = "error",
         !.host = IF Asyncio THEN "gone" ELSE IF args.gunicorn THEN "closing" ELSE "failing",
         !.task = IF @ = "boot" /\ args.gunicorn THEN "exiting" ELSE @]
  <2>1. /\ q.host = "watching"
        /\ Becomes(s, r)
    BY <1>5 DEF StartupFails
  <2>2. Fits(q, r)
    <3>1. CASE Asyncio
      BY <1>1, <1>2, <2>1, <3>1 DEF Fits, Sound, Stuck, Records, Tempers, Tasks, Hosts,
           Asyncio, Thread, Process, Args, HostAlive
    <3>2. CASE ~Asyncio /\ args.gunicorn
      BY <1>1, <1>2, <2>1, <3>2 DEF Fits, Sound, Stuck, Records, Tempers, Tasks, Hosts,
           Asyncio, Thread, Process, Args, HostAlive
    <3>3. CASE ~Asyncio /\ ~args.gunicorn
      BY <1>1, <1>2, <2>1, <3>3 DEF Fits, Sound, Stuck, Records, Tempers, Tasks, Hosts,
           Asyncio, Thread, Process, Args, HostAlive
    <3>4. QED
      BY <3>1, <3>2, <3>3
  <2>3. QED
    BY <1>1, <2>1, <2>2 DEF Moved, HostAlive
<1>6. CASE HealthFails(s)
  <2> DEFINE r == [q EXCEPT
         !.task = IF @ = "up" THEN "exiting" ELSE @,
         !.host = IF args.gunicorn THEN "closing" ELSE "killing",
         !.event = IF args.gunicorn THEN "error" ELSE @]
  <2>1. /\ q.host = "watching" /\ q.started
        /\ Becomes(s, r)
    BY <1>6 DEF HealthFails
  <2>2. Fits(q, r)
    <3>1. CASE q.task = "up"
      BY <1>1, <1>2, <2>1, <3>1 DEF Fits, Sound, Stuck, Records, Tempers, Tasks, Hosts,
           Asyncio, Thread, Process, Args, HostAlive
    <3>2. CASE q.task # "up"
      BY <1>1, <1>2, <2>1, <3>2 DEF Fits, Sound, Stuck, Records, Tempers, Tasks, Hosts,
           Asyncio, Thread, Process, Args, HostAlive
    <3>3. QED
      BY <2>1, <3>1, <3>2
  <2>3. QED
    BY <1>1, <2>1, <2>2 DEF Moved, HostAlive
<1>7. CASE KillEnds(s)
  <2> DEFINE r == [q EXCEPT
         !.event = "error", !.host = IF Asyncio THEN "gone" ELSE "failing"]
  <2>1. /\ q.host = "killing"
        /\ q.task = "done"
        /\ Becomes(s, r)
    BY <1>7 DEF KillEnds
  <2>2. Fits(q, r)
    BY <1>1, <1>2, <2>1 DEF Fits, Sound, Stuck, Records, Tempers, Tasks, Hosts,
       Asyncio, Thread, Process, Args, HostAlive
  <2>3. QED
    BY <1>1, <2>1, <2>2 DEF Moved, HostAlive
<1>8. QED
  BY <1>3, <1>4, <1>5, <1>6, <1>7

\* The steps by which a host ends.
LEMMA HostMoves ==
  ASSUME LauncherInv, NEW s \in Servers,
         Fails(s) \/ HeedsStop(s) \/ Closes(s)
  PROVE  Moved(s)
<1> DEFINE q == server[s]
<1>1. /\ q \in Records /\ args \in Args
      /\ args.gunicorn => Process
      /\ Sound(q)
      /\ q.task # "none" \/ HostAlive(s) => s <= starts /\ q.host # "none"
  BY ServerRecord
<1>2. /\ Left(q) = [q EXCEPT !.task = "done", !.host = "gone"]
      /\ Cancelled(q) = [q EXCEPT !.task = "done"]
      /\ Finished(q) = [q EXCEPT !.task = "done", !.ctx = IF q.ctx = "in" THEN "left" ELSE q.ctx]
      /\ Ended(q) = IF args.gunicorn THEN [q EXCEPT !.task = "done", !.host = "gone"] ELSE Finished(q)
  BY <1>1, Endings
<1>3. CASE Fails(s)
  <2> DEFINE r == Left(q)
  <2>1. /\ q.host = "failing"
        /\ q.temper # "hangs"
        /\ Becomes(s, r)
    BY <1>3 DEF Fails
  <2>2. Fits(q, r)
    BY <1>1, <1>2, <2>1 DEF Fits, Sound, Stuck, Records, Tempers, Tasks, Hosts,
       Asyncio, Thread, Process, Args, HostAlive
  <2>3. QED
    BY <1>1, <2>1, <2>2 DEF Moved, HostAlive
<1>4. CASE HeedsStop(s)
  <2>1. PICK r : /\ Becomes(s, r)
               /\ \/ /\ q.temper # "hangs" /\ (q.host = "waiting" \/ (args.gunicorn /\ q.host = "watching"))
                     /\ r = [q EXCEPT !.host = "closing", !.task = IF @ = "done" THEN @ ELSE "exiting"]
                  \/ /\ Process /\ q.host = "watching" /\ q.task = "up"
                     /\ r = [q EXCEPT !.task = "exiting"]
    BY <1>4 DEF HeedsStop
  <2>2. Fits(q, r)
    <3>1. CASE q.temper # "hangs" /\ (q.host = "waiting" \/ (args.gunicorn /\ q.host = "watching")) /\ q.task = "done" /\ r = [q EXCEPT !.host = "closing", !.task = IF @ = "done" THEN @ ELSE "exiting"]
      BY <1>1, <1>2, <2>1, <3>1 DEF Fits, Sound, Stuck, Records, Tempers, Tasks, Hosts,
           Asyncio, Thread, Process, Args, HostAlive
    <3>2. CASE q.temper # "hangs" /\ (q.host = "waiting" \/ (args.gunicorn /\ q.host = "watching")) /\ q.task # "done" /\ r = [q EXCEPT !.host = "closing", !.task = IF @ = "done" THEN @ ELSE "exiting"]
      BY <1>1, <1>2, <2>1, <3>2 DEF Fits, Sound, Stuck, Records, Tempers, Tasks, Hosts,
           Asyncio, Thread, Process, Args, HostAlive
    <3>3. CASE Process /\ q.host = "watching" /\ q.task = "up" /\ r = [q EXCEPT !.task = "exiting"]
      BY <1>1, <1>2, <2>1, <3>3 DEF Fits, Sound, Stuck, Records, Tempers, Tasks, Hosts,
           Asyncio, Thread, Process, Args, HostAlive
    <3>4. QED
      BY <2>1, <3>1, <3>2, <3>3
  <2>3. QED
    BY <1>1, <2>1, <2>2 DEF Moved, HostAlive
<1>5. CASE Closes(s)
  <2> DEFINE r == Left(q)
  <2>1. /\ q.host = "closing"
        /\ q.temper # "hangs"
        /\ Becomes(s, r)
    BY <1>5 DEF Closes
  <2>2. Fits(q, r)
    BY <1>1, <1>2, <2>1 DEF Fits, Sound, Stuck, Records, Tempers, Tasks, Hosts,
       Asyncio, Thread, Process, Args, HostAlive
  <2>3. QED
    BY <1>1, <2>1, <2>2 DEF Moved, HostAlive
<1>6. QED
  BY <1>3, <1>4, <1>5

\* Every step of a server.
LEMMA ServerMoves ==
  ASSUME LauncherInv, NEW s \in Servers, ServerStep(s)
  PROVE  Moved(s)
BY TaskMoves, WatcherMoves, HostMoves DEF ServerStep

\* The launcher's invariant holds initially.
LEMMA LauncherInvInit == LauncherInit => LauncherInv
<1> SUFFICES ASSUME LauncherInit PROVE LauncherInv
  OBVIOUS
<1>1. NoServer \in Records
  BY DEF NoServer, Records, Tempers, Tasks, Hosts
<1>2. LauncherTypes
  <2>1. server \in [Servers -> Records]
    BY <1>1 DEF LauncherInit
  <2>2. starts \in 0 .. MaxStarts /\ handle \in 0 .. starts
    BY MaxStartsAssumption DEF LauncherInit
  <2>3. QED
    BY <2>1, <2>2 DEF LauncherInit, LauncherTypes, Phases
<1>3. \A s \in Servers : server[s] = NoServer /\ s > starts
  BY MaxStartsAssumption DEF LauncherInit, Servers
<1>4. \A s \in Servers : Sound(server[s]) /\ Begun(s) /\ ~HostAlive(s)
  <2> SUFFICES ASSUME NEW s \in Servers PROVE Sound(server[s]) /\ Begun(s) /\ ~HostAlive(s)
    OBVIOUS
  <2>1. server[s] = NoServer /\ ~(s <= starts)
    BY <1>3 DEF LauncherInit, Servers
  <2>2. QED
    BY <2>1 DEF Sound, Begun, HostAlive, NoServer
<1>5. QED
  BY <1>2, <1>4 DEF LauncherInv, Caller, NothingToHold, LauncherInit, OnlyTheStubbornRemain

\* What a step that starts no server does to the servers.
ServersFit ==
  /\ UNCHANGED <<args, starts>>
  /\ server' \in [Servers -> Records]
  /\ \A s \in Servers :
       /\ Sound(server[s])' /\ Begun(s)'
       /\ HostAlive(s)' => HostAlive(s)
       /\ ~Asyncio /\ Stubborn(s) /\ HostAlive(s)' => Stubborn(s)'
       /\ server[s].event = "error" => server'[s].event = "error"
       /\ server'[s].temper = server[s].temper
       /\ server'[s].ctx # server[s].ctx =>
            /\ server[s].ctx = "in" /\ server'[s].ctx = "left" /\ Alive(s)
            /\ Thread /\ Stubborn(s) => server[s].temper = "hangs"

\* One server that changes, ...
LEMMA OneServerFits ==
  ASSUME LauncherInv, NEW s \in Servers, s <= starts, NEW r, Fits(server[s], r),
         server' = [server EXCEPT ![s] = r], UNCHANGED <<args, starts>>
  PROVE  ServersFit
<1>1. /\ server' \in [Servers -> Records]
      /\ server'[s] = r
      /\ \A u \in Servers \ {s} : server'[u] = server[u]
  BY DEF Fits, LauncherInv, LauncherTypes
<1>2. server[s].host # "none" /\ server[s].ctx # "out"
  BY DEF LauncherInv, Begun
<1>3. ASSUME NEW u \in Servers
      PROVE  /\ Sound(server[u])' /\ Begun(u)'
             /\ HostAlive(u)' => HostAlive(u)
             /\ ~Asyncio /\ Stubborn(u) /\ HostAlive(u)' => Stubborn(u)'
             /\ server[u].event = "error" => server'[u].event = "error"
             /\ server'[u].temper = server[u].temper
             /\ server'[u].ctx # server[u].ctx =>
                  /\ server[u].ctx = "in" /\ server'[u].ctx = "left" /\ Alive(u)
                  /\ Thread /\ Stubborn(u) => server[u].temper = "hangs"
  <2>1. CASE u = s
    <3>1. Sound(server[u])' /\ Begun(u)'
      BY <1>1, <1>2, <2>1 DEF Fits, Begun, Sound, Asyncio
    <3>2. QED
      BY <1>1, <1>2, <2>1, <3>1 DEF Fits, Stuck, HostAlive, Stubborn, Alive
  <2>2. CASE u # s
    <3>1. Sound(server[u])' /\ Begun(u)'
      BY <1>1, <2>2 DEF LauncherInv, Sound, Begun, Asyncio
    <3>2. QED
      BY <1>1, <2>2, <3>1 DEF HostAlive, Stubborn, Alive
  <2>3. QED BY <2>1, <2>2
<1>4. QED
  BY <1>1, <1>3 DEF ServersFit

\* ... or none.
LEMMA NoServerFits ==
  ASSUME LauncherInv, UNCHANGED <<args, starts, server>>
  PROVE  ServersFit
BY DEF LauncherInv, LauncherTypes, ServersFit, Sound, Begun, HostAlive, Stubborn, Alive, Asyncio

\* A server's step preserves the invariant.
LEMMA ServerStepPreserves ==
  ASSUME LauncherInv, NEW s \in Servers, ServerStep(s)
  PROVE  LauncherInv' /\ ServersFit
<1>1. ServersFit /\ UNCHANGED <<handle, running, phase>>
  BY ServerMoves, OneServerFits DEF Moved, Becomes
<1>2. LauncherTypes'
  BY <1>1 DEF ServersFit, LauncherInv, LauncherTypes
<1>3. Caller'
  <2>1. starts # 0 => starts \in Servers
    BY MaxStartsAssumption DEF LauncherInv, LauncherTypes, Servers
  <2>2. QED
    BY <1>1, <2>1 DEF ServersFit, LauncherInv, Caller, Asyncio
<1>4. OnlyTheStubbornRemain' /\ NothingToHold'
  BY <1>1 DEF ServersFit, LauncherInv, OnlyTheStubbornRemain, NothingToHold, Asyncio
<1>5. QED
  BY <1>1, <1>2, <1>3, <1>4 DEF ServersFit, LauncherInv

\* The calls: what each of them does to the server it is about.
LEMMA CallsFit ==
  ASSUME LauncherInv, StartCancelled \/ Stop \/ CallProceeds
  PROVE  ServersFit
<1>0. /\ args \in Args /\ args \in Supported /\ server \in [Servers -> Records]
      /\ starts # 0 => starts \in Servers
      /\ handle # 0 => handle \in Servers /\ handle <= starts
      /\ \A s \in Servers : Sound(server[s]) /\ Begun(s)
  BY MaxStartsAssumption DEF LauncherInv, LauncherTypes, Servers, Supported
<1>1. CASE UNCHANGED <<args, starts, server>>
  BY <1>1, NoServerFits
<1>2. CASE StartCancelled /\ Asyncio /\ server[starts].host \in {"watching", "killing"}
  <2>1. starts \in Servers /\ starts <= starts
    BY <1>0, <1>2 DEF StartCancelled, LauncherInv, Caller, LauncherTypes
  <2> DEFINE q == server[starts]
             c == IF q.host = "killing" THEN Cancelled(q) ELSE q
             r == [c EXCEPT !.host = "gone"]
  <2>2. server' = [server EXCEPT ![starts] = r] /\ UNCHANGED <<args, starts>>
    BY <1>2 DEF StartCancelled
  <2>3. q \in Records /\ Sound(q) /\ Begun(starts)
    BY <1>0, <2>1
  <2>4. Cancelled(q) = [q EXCEPT !.task = "done"]
    BY <2>3, Endings
  <2>5. Fits(q, r)
    <3>1. CASE q.host = "killing"
      BY <1>2, <2>3, <2>4, <3>1 DEF Fits, Sound, Stuck, Records, Tempers, Tasks, Hosts,
           Asyncio, Thread
    <3>2. CASE q.host = "watching"
      BY <1>2, <2>3, <2>4, <3>2 DEF Fits, Sound, Stuck, Records, Tempers, Tasks, Hosts,
           Asyncio, Thread
    <3>3. QED BY <1>2, <3>1, <3>2
  <2>6. QED
    BY <2>1, <2>2, <2>5, OneServerFits
<1>3. CASE Stop
  <2>1. handle \in Servers /\ handle <= starts
    BY <1>0, <1>3 DEF Stop
  <2> DEFINE q == server[handle]
             r == [q EXCEPT !.stop = ~Asyncio,
                            !.task = IF Asyncio /\ @ = "up" THEN "exiting" ELSE @]
  <2>2. server' = [server EXCEPT ![handle] = r] /\ UNCHANGED <<args, starts>>
    BY <1>0, <1>3, <2>1 DEF Stop, Records
  <2>3. q \in Records /\ Sound(q) /\ Begun(handle)
    BY <1>0, <2>1
  <2>4. Fits(q, r)
    <3>1. CASE Asyncio /\ q.task = "up"
      BY <2>1, <2>3, <3>1 DEF Fits, Sound, Stuck, Records, Tempers, Tasks, Hosts, Asyncio,
           Thread, Begun
    <3>2. Fits(q, [q EXCEPT !.stop = ~Asyncio])
      BY <2>1, <2>3 DEF Fits, Sound, Stuck, Records, Tempers, Tasks, Hosts, Asyncio,
           Thread, Begun
    <3>3. ~(Asyncio /\ q.task = "up") => r = [q EXCEPT !.stop = ~Asyncio]
      BY <2>3 DEF Records
    <3>4. QED BY <3>1, <3>2, <3>3
  <2>5. QED
    BY <2>1, <2>2, <2>4, OneServerFits
<1>4. CASE NoEvent /\ server' = [server EXCEPT ![starts].stop = TRUE] /\ UNCHANGED <<args, starts>>
  <2>1. starts \in Servers /\ starts <= starts
    BY <1>0, <1>4 DEF NoEvent, LauncherInv, Caller, LauncherTypes
  <2> DEFINE q == server[starts]
             r == [q EXCEPT !.stop = TRUE]
  <2>2. q \in Records /\ Sound(q) /\ Begun(starts)
    BY <1>0, <2>1
  <2>3. Fits(q, r)
    BY <2>1, <2>2 DEF Fits, Sound, Stuck, Records, Tempers, Tasks, Hosts, Begun
  <2>4. server' = [server EXCEPT ![starts] = r]
    BY <1>4
  <2>5. QED
    BY <1>4, <2>1, <2>3, <2>4, OneServerFits
<1>5. CASE StopCancelsTask
  <2>1. handle \in Servers /\ handle <= starts
    BY <1>0, <1>5 DEF StopCancelsTask, LauncherInv, Caller
  <2> DEFINE q == server[handle]
             r == [q EXCEPT !.task = "done"]
  <2>2. q \in Records /\ Sound(q) /\ Begun(handle) /\ Asyncio
    BY <1>0, <1>5, <2>1 DEF StopCancelsTask
  <2>3. server' = [server EXCEPT ![handle] = r] /\ UNCHANGED <<args, starts>>
    BY <1>5 DEF StopCancelsTask, Cancelled
  <2>4. Fits(q, r)
    BY <2>1, <2>2 DEF Fits, Sound, Stuck, Records, Tempers, Tasks, Hosts, Asyncio, Thread, Begun
  <2>5. QED
    BY <2>1, <2>3, <2>4, OneServerFits
<1>6. CASE /\ StopTimesOut /\ Process
           /\ server' = [server EXCEPT ![handle].task = "done", ![handle].host = "gone"]
           /\ UNCHANGED <<args, starts>>
  <2>1. handle \in Servers /\ handle <= starts
    BY <1>0, <1>6 DEF StopTimesOut, LauncherInv, Caller
  <2> DEFINE q == server[handle]
             r == [q EXCEPT !.task = "done", !.host = "gone"]
  <2>2. q \in Records /\ Sound(q) /\ Begun(handle)
    BY <1>0, <2>1
  <2>3. server' = [server EXCEPT ![handle] = r]
    BY <1>0, <1>6, <2>1 DEF Records
  <2>4. Fits(q, r)
    BY <1>6, <2>1, <2>2 DEF Fits, Sound, Stuck, Records, Tempers, Tasks, Hosts, Process, Thread, Begun
  <2>5. QED
    BY <1>6, <2>1, <2>3, <2>4, OneServerFits
<1>7. QED
  BY <1>1, <1>2, <1>3, <1>4, <1>5, <1>6
     DEF CallProceeds, StartCancelled, StartReturns, StartFails, JoinEnds, NoEvent, StopReturns,
         StopTimesOut, Goes

\* The calls preserve the invariant: whoever lets a server go has seen it gone, or has
\* waited for it in vain, which only the stubborn make a caller do.
LEMMA CallPreserves ==
  ASSUME LauncherInv, StartCancelled \/ Stop \/ CallProceeds
  PROVE  LauncherInv'
<1>1. ServersFit
  BY CallsFit
<1>0. /\ starts # 0 => starts \in Servers
      /\ handle # 0 => handle \in Servers
      /\ phase \in Phases /\ starts \in Nat /\ handle \in 0 .. starts /\ running \in BOOLEAN
      /\ UNCHANGED <<args, starts>>
  BY <1>1, MaxStartsAssumption DEF LauncherInv, LauncherTypes, Servers, ServersFit
<1>2. handle' \in {0, handle, starts} /\ running' \in BOOLEAN /\ phase' \in Phases
  BY <1>0 DEF StartCancelled, Stop, CallProceeds, StartReturns, StartFails, JoinEnds, NoEvent,
     StopReturns, StopCancelsTask, StopTimesOut, Goes, Phases
<1>3. LauncherTypes'
  BY <1>0, <1>1, <1>2 DEF ServersFit, LauncherInv, LauncherTypes
<1>4. \A s \in Servers : Sound(server[s])' /\ Begun(s)'
  BY <1>1 DEF ServersFit
<1>5. \A s \in Servers :
        /\ HostAlive(s)' => HostAlive(s)
        /\ ~Asyncio /\ Stubborn(s) /\ HostAlive(s)' => Stubborn(s)'
        /\ server[s].event = "error" => server'[s].event = "error"
  BY <1>1 DEF ServersFit
<1>6. Asyncio' = Asyncio
  BY <1>0 DEF Asyncio
<1>7. Caller /\ OnlyTheStubbornRemain /\ NothingToHold
  BY DEF LauncherInv
<1>8. Caller'
  BY <1>0, <1>5, <1>6, <1>7
     DEF Caller, StartCancelled, Stop, CallProceeds, StartReturns, StartFails, JoinEnds, NoEvent,
         StopReturns, StopCancelsTask, StopTimesOut, Goes
<1>9. ASSUME ~Asyncio, ~args.cancel
      PROVE  OnlyTheStubbornRemain' /\ NothingToHold'
  <2>1. CASE Stop \/ StopTimesOut
    BY <1>0, <1>5, <1>6, <1>7, <1>9, <2>1
       DEF OnlyTheStubbornRemain, NothingToHold, Stop, StopTimesOut, Goes
  <2>2. CASE StartReturns \/ StartFails
    BY <1>0, <1>5, <1>6, <1>7, <1>9, <2>2
       DEF OnlyTheStubbornRemain, NothingToHold, Caller, StartReturns, StartFails, Goes
  <2>3. CASE JoinEnds
    <3>1. HostAlive(starts) => Stubborn(starts)
      BY <1>0, <1>7, <2>3 DEF JoinEnds, EndsInTime, Stubborn, HostAlive, Caller, LauncherInv, Sound
    <3>2. QED
      BY <1>0, <1>5, <1>6, <1>7, <1>9, <2>3, <3>1
         DEF OnlyTheStubbornRemain, NothingToHold, Caller, JoinEnds, Goes
  <2>4. CASE NoEvent
    <3>1. HostAlive(starts) => Stubborn(starts)
      BY <2>4 DEF NoEvent
    <3>2. QED
      BY <1>0, <1>5, <1>6, <1>7, <1>9, <2>4, <3>1
         DEF OnlyTheStubbornRemain, NothingToHold, Caller, NoEvent, Goes
  <2>5. CASE StopReturns
    BY <1>0, <1>5, <1>6, <1>7, <1>9, <2>5
       DEF OnlyTheStubbornRemain, NothingToHold, StopReturns, Over, Goes
  <2>6. QED
    BY <1>9, <2>1, <2>2, <2>3, <2>4, <2>5 DEF CallProceeds, StartCancelled, StopCancelsTask
<1>10. OnlyTheStubbornRemain' /\ NothingToHold'
  BY <1>0, <1>6, <1>9 DEF OnlyTheStubbornRemain, NothingToHold
<1>11. QED
  BY <1>3, <1>4, <1>8, <1>10 DEF LauncherInv

\* So does a new server: start() is only let past its guard when the one before is gone
\* or stubborn.
LEMMA StartPreserves ==
  ASSUME LauncherInv, Start
  PROVE  /\ LauncherInv'
         /\ starts' = starts + 1 /\ starts' \in Servers /\ args' = args
         /\ server'[starts'].ctx = "in"
         /\ server'[starts'].temper \in Tempers
         /\ \A s \in Servers \ {starts'} : server'[s] = server[s]
<1>1. PICK t \in Tempers :
        server' = [server EXCEPT ![starts + 1] =
            [NoServer EXCEPT !.temper = t, !.task = "boot", !.host = "watching", !.ctx = "in"]]
  BY DEF Start
<1> DEFINE r == server'[starts']
<1>2. /\ starts \in Nat /\ starts < MaxStarts /\ starts' = starts + 1 /\ starts' \in Servers
      /\ starts \in 0 .. MaxStarts /\ handle \in 0 .. starts
      /\ server \in [Servers -> Records]
      /\ args' = args /\ running' = running /\ ~running /\ phase = "idle" /\ phase' = "starting"
      /\ handle' = IF Asyncio THEN handle ELSE starts'
  BY MaxStartsAssumption DEF Start, LauncherInv, LauncherTypes, Servers
<1>3. /\ r.temper = t /\ r.task = "boot" /\ r.host = "watching" /\ r.ctx = "in"
      /\ r.event = "none" /\ r.started = FALSE /\ r \in Records
  BY <1>1, <1>2 DEF NoServer, Records, Tasks, Hosts
<1>4. /\ \A s \in Servers \ {starts'} : server'[s] = server[s]
      /\ server' \in [Servers -> Records]
  BY <1>1, <1>2, <1>3
<1>5. LauncherTypes'
  <2>1. starts' \in 0 .. MaxStarts /\ handle' \in 0 .. starts'
    <3>1. CASE Asyncio BY <1>2, <3>1, MaxStartsAssumption
    <3>2. CASE ~Asyncio BY <1>2, <3>2, MaxStartsAssumption
    <3>3. QED BY <3>1, <3>2
  <2>2. QED
    BY <1>2, <1>4, <2>1 DEF LauncherInv, LauncherTypes, Phases
<1>6. ASSUME NEW s \in Servers PROVE Sound(server[s])' /\ Begun(s)'
  <2>1. CASE s = starts'
    BY <1>2, <1>3, <2>1 DEF Sound, Begun
  <2>2. CASE s # starts'
    <3>1. s <= starts <=> s <= starts'
      BY <1>2, <2>2 DEF Servers
    <3>2. QED
      BY <1>2, <1>4, <2>2, <3>1 DEF LauncherInv, Sound, Begun, Asyncio
  <2>3. QED BY <2>1, <2>2
<1>7. Caller'
  BY <1>2 DEF Caller, Asyncio
<1>8. OnlyTheStubbornRemain' /\ NothingToHold'
  BY <1>2, <1>4 DEF LauncherInv, OnlyTheStubbornRemain, NothingToHold, Asyncio, HostAlive,
     Stubborn, Alive
<1>9. QED
  BY <1>2, <1>3, <1>4, <1>5, <1>6, <1>7, <1>8 DEF LauncherInv

\* Every step preserves the invariant.
LEMMA LauncherInvStep == LauncherInv /\ [LauncherNext]_launcherVars => LauncherInv'
<1> SUFFICES ASSUME LauncherInv, [LauncherNext]_launcherVars PROVE LauncherInv'
  OBVIOUS
<1>1. CASE UNCHANGED launcherVars
  BY <1>1 DEF launcherVars, LauncherInv, LauncherTypes, Sound, Begun, Caller, NothingToHold,
     OnlyTheStubbornRemain, HostAlive, Stubborn, Alive, Asyncio
<1>2. QED
  BY <1>1, StartPreserves, CallPreserves, ServerStepPreserves DEF LauncherNext

\* Whatever start() and stop() make of failed, unhealthy, hanging and killed servers, a
\* thread or process that the launcher does not hold any more is gone, or hangs, or waits
\* for open connections without end (PythonServerLauncher.start, _stop_uvicorn_thread).
THEOREM LauncherLeavesTheStubborn == LauncherSpec => []OnlyTheStubbornRemain
<1>1. LauncherInv => OnlyTheStubbornRemain
  BY DEF LauncherInv
<1>2. QED
  BY <1>1, LauncherInvInit, LauncherInvStep, PTL DEF LauncherSpec

-----------------------------------------------------------------------------
\* The proxy only calls the launcher: whatever holds of every launcher holds of its.
THEOREM ProxyUsesTheLauncher == ProxySpec => LauncherSpec
<1>1. ProxyInit => LauncherInit
  BY DEF ProxyInit
<1>2. [ProxyNext]_proxyVars => [LauncherNext]_launcherVars
  BY DEF ProxyNext, StartProxy, StopProxy, LauncherNext, proxyVars, launcherVars
<1>3. QED
  BY <1>1, <1>2, PTL DEF ProxySpec, LauncherSpec

\* The invariant of the configuration files.  A process has a name of its own for them, ...
OwnFiles ==
  Process =>
    \A s \in Servers :
      /\ server[s].ctx # "out" => configFile[s] = s
      /\ server[s].ctx = "in" => s \in files

\* ... threads share one, which is the latest server's; earlier ones cannot end any more.
OneName ==
  Thread /\ ~args.cancel /\ (\A s \in Servers : server[s].temper # "hangs") =>
    /\ configFile[0] = starts
    /\ \A s \in Servers : server[s].ctx = "in" => s \in files

ContextInv ==
  /\ user \in {"proxy", "store"}
  /\ DOMAIN configFile = 0 .. MaxStarts
  /\ user = "proxy" => OwnFiles /\ OneName

\* It holds initially.
LEMMA ContextInvInit == ProxyInit => ContextInv
<1> SUFFICES ASSUME ProxyInit PROVE ContextInv
  OBVIOUS
<1>1. \A s \in Servers : server[s].ctx = "out"
  BY DEF ProxyInit, LauncherInit, NoServer
<1>2. configFile[0] = starts
  BY MaxStartsAssumption DEF ProxyInit, LauncherInit
<1>3. QED
  BY <1>1, <1>2 DEF ProxyInit, ContextInv, OwnFiles, OneName

\* A new server enters its context: it writes the file and names it.
LEMMA StartKeepsFiles ==
  ASSUME LauncherInv, ContextInv, Start, ServeContext, UNCHANGED user
  PROVE  ContextInv'
<1>1. /\ starts' = starts + 1 /\ starts' \in Servers /\ args' = args
      /\ server'[starts'].ctx = "in"
      /\ \A s \in Servers \ {starts'} : server'[s] = server[s]
  BY StartPreserves
<1>2. server[starts'] = NoServer
  BY <1>1 DEF LauncherInv, LauncherTypes, Begun, Servers
<1>3. Entered = {starts'} /\ ContextLeft = {}
  <2>1. server[starts'].ctx = "out"
    BY <1>2 DEF NoServer
  <2>2. \A s \in Servers : server[s].ctx = "out" /\ server'[s].ctx = "in" <=> s = starts'
    BY <1>1, <2>1
  <2>3. \A s \in Servers : ~(server[s].ctx = "in" /\ server'[s].ctx = "left")
    BY <1>1, <2>1
  <2>4. Entered = {starts'}
    BY <1>1, <2>2 DEF Entered
  <2>5. ContextLeft = {}
    BY <2>3 DEF ContextLeft
  <2>6. QED
    BY <2>4, <2>5
<1>4. CASE user = "store"
  BY <1>4 DEF ContextInv, ServeContext
<1>5. CASE user = "proxy"
  <2>1. /\ configFile' = [p \in DOMAIN configFile |->
             IF ProcessOf(starts') = p THEN starts' ELSE configFile[p]]
        /\ files' = files \cup {starts'}
    <3>1. \A p : (\E s \in Entered : ProcessOf(s) = p) <=> ProcessOf(starts') = p
      BY <1>3
    <3>2. \A p : ProcessOf(starts') = p => (CHOOSE s \in Entered : ProcessOf(s) = p) = starts'
      BY <1>3
    <3>3. configFile' = [p \in DOMAIN configFile |->
            IF \E s \in Entered : ProcessOf(s) = p
            THEN CHOOSE s \in Entered : ProcessOf(s) = p
            ELSE configFile[p]]
      BY <1>5 DEF ServeContext
    <3>4. \A p \in DOMAIN configFile :
            (IF \E s \in Entered : ProcessOf(s) = p
             THEN CHOOSE s \in Entered : ProcessOf(s) = p
             ELSE configFile[p]) =
            (IF ProcessOf(starts') = p THEN starts' ELSE configFile[p])
      BY <3>1, <3>2
    <3>5. files' = files \cup {starts'}
      BY <1>3, <1>5 DEF ServeContext
    <3>6. QED
      BY <3>3, <3>4, <3>5
  <2>2. DOMAIN configFile = 0 .. MaxStarts /\ 0 \in 0 .. MaxStarts /\ Servers \subseteq 0 .. MaxStarts
    BY MaxStartsAssumption DEF ContextInv, Servers
  <2>3. Process' = Process /\ Thread' = Thread /\ ~(Process /\ Thread)
    BY <1>1 DEF Process, Thread
  <2>4. OwnFiles'
    <3>1. CASE Process
      BY <1>1, <1>5, <2>1, <2>2, <2>3, <3>1 DEF OwnFiles, ContextInv, ProcessOf
    <3>2. QED BY <2>3, <3>1 DEF OwnFiles
  <2>5. OneName'
    <3>1. SUFFICES ASSUME Thread, ~args.cancel, \A s \in Servers : server'[s].temper # "hangs"
                   PROVE  OneName'
      BY <1>1, <2>3 DEF OneName
    <3>2. \A s \in Servers : server[s].temper # "hangs"
      BY <1>1, <1>2, <3>1 DEF NoServer
    <3>3. QED
      BY <1>1, <1>5, <2>1, <2>2, <2>3, <3>1, <3>2 DEF OneName, ContextInv, ProcessOf
  <2>6. QED
    BY <1>5, <2>1, <2>2, <2>4, <2>5 DEF ContextInv
<1>6. QED
  BY <1>4, <1>5 DEF ContextInv

\* A server that ends takes its own file with it and no other: an earlier one that shares
\* the name is gone already, or waits for what does not come.
LEMMA StepKeepsFiles ==
  ASSUME LauncherInv, ContextInv, ServersFit, ServeContext, UNCHANGED user
  PROVE  ContextInv'
<1>1. /\ args' = args /\ starts' = starts
      /\ \A s \in Servers :
           /\ server'[s].temper = server[s].temper
           /\ server'[s].ctx # server[s].ctx =>
                /\ server[s].ctx = "in" /\ server'[s].ctx = "left" /\ Alive(s)
                /\ Thread /\ Stubborn(s) => server[s].temper = "hangs"
  BY DEF ServersFit
<1>2. Entered = {}
  BY <1>1 DEF Entered
<1>3. CASE user = "store"
  BY <1>3 DEF ContextInv, ServeContext
<1>4. CASE user = "proxy"
  <2>1. DOMAIN configFile = 0 .. MaxStarts /\ 0 \in 0 .. MaxStarts /\ Servers \subseteq 0 .. MaxStarts
    BY MaxStartsAssumption DEF ContextInv, Servers
  <2>2. /\ DOMAIN configFile' = DOMAIN configFile
        /\ \A p \in DOMAIN configFile : configFile'[p] = configFile[p]
        /\ files' = files \ {configFile[ProcessOf(s)] : s \in ContextLeft}
    BY <1>2, <1>4 DEF ServeContext
  <2>3. Process' = Process /\ Thread' = Thread /\ ~(Process /\ Thread)
    BY <1>1 DEF Process, Thread
  <2>4. OwnFiles'
    <3> SUFFICES ASSUME Process PROVE OwnFiles'
      BY <2>3 DEF OwnFiles
    <3>1. \A s \in ContextLeft : configFile[ProcessOf(s)] = s /\ server'[s].ctx = "left"
      BY <1>4 DEF ContextLeft, ContextInv, OwnFiles, ProcessOf
    <3>2. QED
      BY <1>1, <1>4, <2>1, <2>2, <3>1 DEF ContextInv, OwnFiles
  <2>5. OneName'
    <3> SUFFICES ASSUME Thread, ~args.cancel, \A s \in Servers : server[s].temper # "hangs"
                 PROVE  OneName'
      BY <1>1, <2>3 DEF OneName
    <3>1. configFile[0] = starts /\ \A s \in Servers : server[s].ctx = "in" => s \in files
      BY <1>4 DEF ContextInv, OneName
    <3>2. ASSUME NEW s \in ContextLeft PROVE s = starts /\ configFile[ProcessOf(s)] = s
      <4>1. /\ s \in Servers /\ Alive(s) /\ ~Stubborn(s) /\ server[s].ctx = "in"
        BY <1>1 DEF ContextLeft
      <4>2. HostAlive(s)
        BY <4>1 DEF LauncherInv, Begun, NoServer, Sound, HostAlive, Alive, Asyncio, Thread
      <4>3. s = handle
        BY <4>1, <4>2 DEF LauncherInv, OnlyTheStubbornRemain, Asyncio, Thread
      <4>4. s # 0
        BY <4>1 DEF Servers
      <4>5. s = starts
        BY <4>3, <4>4 DEF LauncherInv, Caller, Asyncio, Thread
      <4>6. QED
        BY <2>3, <3>1, <4>5 DEF ProcessOf
    <3>3. \A s \in Servers : server'[s].ctx = "in" => s \in files'
      BY <1>1, <2>2, <3>1, <3>2 DEF ContextLeft
    <3>4. QED
      BY <1>1, <2>1, <2>2, <3>1, <3>3 DEF OneName
  <2>6. QED
    BY <1>4, <2>2, <2>1, <2>4, <2>5 DEF ContextInv
<1>5. QED
  BY <1>3, <1>4 DEF ContextInv

\* Every step preserves the invariant.
LEMMA ContextInvStep ==
  LauncherInv /\ ContextInv /\ [ProxyNext]_proxyVars => ContextInv'
<1> SUFFICES ASSUME LauncherInv, ContextInv, [ProxyNext]_proxyVars PROVE ContextInv'
  OBVIOUS
<1>1. CASE UNCHANGED proxyVars
  BY <1>1 DEF proxyVars, ContextInv, OwnFiles, OneName, Process, Thread
<1>2. CASE StartProxy /\ ServeContext /\ UNCHANGED user
  BY <1>2, StartKeepsFiles DEF StartProxy
<1>3. CASE /\ StartCancelled \/ StopProxy \/ CallProceeds \/ \E s \in Servers : ServerStep(s)
           /\ ServeContext /\ UNCHANGED user
  <2>1. ServersFit
    BY <1>3, CallsFit, ServerStepPreserves DEF StopProxy
  <2>2. QED
    BY <1>3, <2>1, StepKeepsFiles
<1>4. QED
  BY <1>1, <1>2, <1>3 DEF ProxyNext

\* A proxy that serves has its configuration file, however often it was started, failed,
\* was stopped and started again (LLMProxy._serve_context): in a process of its own
\* always, in a thread as long as no server hangs and no start is cancelled.
THEOREM ProxyKeepsItsConfig == ProxySpec => []ConfigWhileServing
<1>1. ContextInv => ConfigWhileServing
  BY DEF ContextInv, OwnFiles, OneName, ConfigWhileServing
<1>2. ProxySpec => []LauncherInv
  BY ProxyUsesTheLauncher, LauncherInvInit, LauncherInvStep, PTL DEF LauncherSpec
<1>3. QED
  BY <1>1, <1>2, ContextInvInit, ContextInvStep, PTL DEF ProxySpec

-----------------------------------------------------------------------------
\* The inductive invariant of the spans: types, ...
Places == [pc : {"idle", "clear", "ensure", "wait", "flush", "assign", "send"},
           span : Spans \cup {<<>>}, lock : Nat, todo : SUBSET Spans,
           tree : SUBSET Spans, rest : SUBSET Spans,
           ids : (Attempts \X Nat) \cup {NoIds}]

ProxyTypes ==
  /\ path \in [Requests -> Attempts \cup {Direct}]
  /\ number \in [Requests -> Nat]
  /\ counter \in [Attempts -> Nat]
  /\ ended \subseteq Spans
  /\ buffer \subseteq Spans
  /\ lock \in Nat /\ locks \in Seq(Threads \cup {Nobody})
  /\ thread \in [Threads -> Places]
  /\ stored \in [Spans -> (Attempts \X Nat) \cup {NoIds}]

\* ... whatever the exporter has in hand comes from spans that ended, ...
Collected ==
  /\ buffer \subseteq ended
  /\ \A t \in Threads :
       /\ thread[t].tree \subseteq ended /\ thread[t].rest \subseteq ended
       /\ thread[t].pc \in {"clear", "ensure", "wait"} => thread[t].span \in ended

\* ... a request had its number before its spans ended, ...
Numbered == \A s \in ended : path[s[1]] # Direct => number[s[1]] # 0

\* ... a tree is of one request and is sent under the identifiers of that one, ...
Has(r, ids) == path[r] # Direct /\ number[r] # 0 /\ ids = <<path[r], number[r]>>

OneRequest(t) ==
  \/ thread[t].tree = {} /\ thread[t].pc # "send"
  \/ \E r \in Requests :
       /\ \A s \in thread[t].tree : s[1] = r
       /\ thread[t].pc = "send" => Has(r, thread[t].ids)

\* ... and what is stored is right and stays so, as no number is given twice.
StoredWell == \A s \in Spans : stored[s] # NoIds => Has(s[1], stored[s])

ProxyInv ==
  ProxyTypes /\ Collected /\ Numbered /\ (\A t \in Threads : OneRequest(t)) /\ StoredWell

\* The first component of a span is its request.
LEMMA RequestOf == \A s \in Spans : s[1] \in Requests /\ s \in Requests \X Kinds
BY SpansAssumption

\* The lock objects stay a sequence, whichever is taken or released.
LEMMA LocksStay ==
  ASSUME NEW S, NEW q \in Seq(S), NEW i, NEW e \in S
  PROVE  [q EXCEPT ![i] = e] \in Seq(S)
<1>1. PICK n \in Nat : q \in [1..n -> S]
  BY SeqDef
<1>2. [q EXCEPT ![i] = e] \in [1..n -> S]
  BY <1>1
<1>3. QED
  BY <1>2, SeqDef

\* The invariant holds initially.
LEMMA ProxyInvInit == SpansInit => ProxyInv
<1> SUFFICES ASSUME SpansInit PROVE ProxyInv
  OBVIOUS
<1>1. Idle \in Places /\ Idle.tree = {} /\ Idle.rest = {} /\ Idle.pc = "idle"
  BY DEF Idle, Places
<1>2. lock \in Nat /\ locks \in Seq(Threads \cup {Nobody})
  <2>1. CASE fresh BY <2>1 DEF SpansInit
  <2>2. CASE ~fresh BY <2>2 DEF SpansInit
  <2>3. QED BY <2>1, <2>2
<1>3. ProxyTypes
  BY <1>1, <1>2 DEF SpansInit, ProxyTypes
<1>4. QED
  BY <1>1, <1>3 DEF SpansInit, ProxyInv, Collected, Numbered, OneRequest, StoredWell


\* What does not concern a thread leaves its tree what it was.
LEMMA OneRequestStays ==
  ASSUME NEW t \in Threads, OneRequest(t), UNCHANGED <<path, number>>,
         thread'[t].tree = thread[t].tree, thread'[t].ids = thread[t].ids,
         thread'[t].pc = "send" <=> thread[t].pc = "send"
  PROVE  OneRequest(t)'
BY DEF OneRequest, Has

\* Numbering a request preserves the invariant: it had no number, so that nothing of it
\* is stored or being sent.
LEMMA NumberPreserves ==
  ASSUME ProxyInv, NEW q \in Requests, Number(q)
  PROVE  ProxyInv'
<1>1. /\ path[q] \in Attempts /\ number[q] = 0
      /\ counter' = [counter EXCEPT ![path[q]] = counter[path[q]] + 1]
      /\ number' = [number EXCEPT ![q] = counter[path[q]] + 1]
      /\ UNCHANGED <<path, ended, buffer, lock, locks, thread, stored>>
  BY DEF Number, Setting, Locking, Results, ProxyInv, ProxyTypes
<1>2. \A r, ids : Has(r, ids) => r # q
  BY <1>1 DEF Has
<1>3. number' \in [Requests -> Nat] /\ counter' \in [Attempts -> Nat] /\ number'[q] # 0
  BY <1>1 DEF ProxyInv, ProxyTypes
<1>4. \A r \in Requests : \A ids : Has(r, ids) => Has(r, ids)'
  BY <1>1, <1>2 DEF Has, ProxyInv, ProxyTypes
<1>5. ProxyTypes' /\ Collected'
  BY <1>1, <1>3 DEF ProxyInv, ProxyTypes, Collected
<1>6. Numbered'
  BY <1>1, <1>3 DEF ProxyInv, ProxyTypes, Numbered
<1>7. ASSUME NEW t \in Threads PROVE OneRequest(t)'
  BY <1>1, <1>4 DEF ProxyInv, OneRequest
<1>8. StoredWell'
  BY <1>1, <1>4, RequestOf DEF ProxyInv, StoredWell
<1>9. QED
  BY <1>5, <1>6, <1>7, <1>8 DEF ProxyInv

\* The steps of a thread up to the one that appends its span.
LEMMA ArrivalPreserves ==
  ASSUME ProxyInv, NEW t \in Threads, NEW s \in Spans,
         Export(t, s) \/ ClearLock(t) \/ EnsureLock(t) \/ AppendSpan(t)
  PROVE  ProxyInv'
<1>1. UNCHANGED <<path, number, counter, stored>>
  BY DEF Export, ClearLock, EnsureLock, AppendSpan, Setting, Numbers, Results
<1>2. StoredWell'
  BY <1>1 DEF ProxyInv, StoredWell, Has
<1>3. CASE Export(t, s)
  <2> DEFINE new == thread'[t]
  <2>1. /\ thread[t].pc = "idle" /\ ended' = ended \cup {s}
        /\ path[s[1]] # Direct => number[s[1]] # 0
        /\ UNCHANGED <<buffer, lock, locks>>
    BY <1>3 DEF Export, Locking
  <2>2. /\ new.pc \in {"clear", "ensure", "wait"} /\ new.span = s
        /\ new.tree = {} /\ new.rest = {} /\ new \in Places
        /\ thread' = [thread EXCEPT ![t] = new]
    BY <1>3 DEF Export, Moves, Idle, Places, ProxyInv, ProxyTypes
  <2>3. ProxyTypes' /\ Collected'
    BY <1>1, <2>1, <2>2 DEF ProxyInv, ProxyTypes, Collected
  <2>4. Numbered'
    BY <1>1, <2>1 DEF ProxyInv, Numbered
  <2>5. ASSUME NEW u \in Threads PROVE OneRequest(u)'
    BY <1>1, <2>2, OneRequestStays DEF ProxyInv, ProxyTypes, OneRequest
  <2>6. QED
    BY <1>2, <2>3, <2>4, <2>5 DEF ProxyInv
<1>4. CASE ClearLock(t) \/ EnsureLock(t) \/ AppendSpan(t)
  <2> DEFINE new == thread'[t]
  <2>1. /\ thread' = [thread EXCEPT ![t] = new]
        /\ new \in Places /\ new.span = thread[t].span
        /\ new.tree = thread[t].tree /\ new.rest = thread[t].rest /\ new.ids = thread[t].ids
        /\ thread[t].pc \in {"clear", "ensure", "wait"}
        /\ new.pc \in {"ensure", "wait", "flush"}
        /\ ended' = ended
        /\ buffer' \in {buffer, buffer \cup {thread[t].span}}
        /\ lock' \in Nat /\ locks' \in Seq(Threads \cup {Nobody})
    <3>0. /\ thread[t] \in Places /\ lock \in Nat /\ locks \in Seq(Threads \cup {Nobody})
          /\ thread \in [Threads -> Places] /\ buffer \subseteq Spans
      BY DEF ProxyInv, ProxyTypes
    <3>1. CASE ClearLock(t)
      BY <3>0, <3>1 DEF ClearLock, Moves, Places
    <3>2. CASE EnsureLock(t)
      <4>1. lock' \in Nat /\ locks' \in Seq(Threads \cup {Nobody})
        BY <3>0, <3>2 DEF EnsureLock
      <4>2. /\ thread' = [thread EXCEPT ![t] = [thread[t] EXCEPT !.pc = "wait", !.lock = lock']]
            /\ thread[t].pc = "ensure" /\ UNCHANGED <<ended, buffer>>
        BY <3>2 DEF EnsureLock, Moves
      <4>3. QED
        BY <3>0, <4>1, <4>2 DEF Places
    <3>3. CASE AppendSpan(t)
      <4>1. /\ thread[t].pc = "wait" /\ ended' = ended /\ lock' = lock
            /\ locks' = [locks EXCEPT ![thread[t].lock] = t]
            /\ buffer' = buffer \cup {thread[t].span}
            /\ thread' = [thread EXCEPT ![t] =
                 [thread[t] EXCEPT !.pc = "flush", !.todo = {z \in buffer' : IsRoot(z)}]]
        BY <3>3 DEF AppendSpan, Moves
      <4>2. locks' \in Seq(Threads \cup {Nobody})
        BY <3>0, <4>1, LocksStay
      <4>3. thread[t].span \in Spans
        BY <4>1 DEF ProxyInv, ProxyTypes, Collected
      <4>4. QED
        BY <3>0, <4>1, <4>2, <4>3 DEF Places
    <3>4. QED BY <1>4, <3>1, <3>2, <3>3
  <2>2. thread[t].span \in ended /\ ended \subseteq Spans
    BY <2>1 DEF ProxyInv, ProxyTypes, Collected
  <2>3. ProxyTypes' /\ Collected'
    BY <1>1, <2>1, <2>2 DEF ProxyInv, ProxyTypes, Collected
  <2>4. Numbered'
    BY <1>1, <2>1 DEF ProxyInv, Numbered
  <2>5. ASSUME NEW u \in Threads PROVE OneRequest(u)'
    BY <1>1, <2>1, OneRequestStays DEF ProxyInv, ProxyTypes
  <2>6. QED
    BY <1>2, <2>3, <2>4, <2>5 DEF ProxyInv
<1>5. QED BY <1>3, <1>4

\* The tree of a root is of the root's request, and of that request are its headers.
LEMMA TakingPreserves ==
  ASSUME ProxyInv, NEW t \in Threads, PopSubtree(t) \/ AssignBuffer(t)
  PROVE  ProxyInv'
<1> DEFINE new == thread'[t]
<1>0. thread[t] \in Places /\ thread \in [Threads -> Places]
  BY DEF ProxyInv, ProxyTypes
<1>1. UNCHANGED <<path, number, counter, ended, stored, lock, locks>>
  BY DEF PopSubtree, AssignBuffer, Setting, Numbers, Locking, Results
<1>2. StoredWell' /\ Numbered'
  BY <1>1 DEF ProxyInv, StoredWell, Numbered, Has
<1>3. /\ thread' = [thread EXCEPT ![t] = new] /\ new \in Places
      /\ new.pc \in {"assign", "flush", "send"}
      /\ new.tree \subseteq ended /\ new.rest \subseteq ended
      /\ buffer' \subseteq ended
      /\ OneRequest(t)'
  <2>1. CASE PopSubtree(t)
    <3>1. PICK root \in thread[t].todo :
            thread' = [thread EXCEPT ![t] = [thread[t] EXCEPT
              !.pc = "assign", !.todo = thread[t].todo \ {root},
              !.rest = Rest(buffer, root), !.tree = Subtree(buffer, root)]]
      BY <2>1 DEF PopSubtree, Moves
    <3>2. root \in Spans /\ root[1] \in Requests
      BY <1>0, RequestOf DEF Places
    <3>3. /\ Subtree(buffer, root) \subseteq buffer /\ Rest(buffer, root) \subseteq buffer
          /\ \A z \in Subtree(buffer, root) : z[1] = root[1]
      BY DEF Subtree, Rest
    <3>4. /\ new.tree = Subtree(buffer, root) /\ new.rest = Rest(buffer, root)
          /\ new.pc = "assign" /\ new.todo = thread[t].todo \ {root}
          /\ new.span = thread[t].span /\ new.lock = thread[t].lock
          /\ new.ids = thread[t].ids
          /\ thread' = [thread EXCEPT ![t] = new]
          /\ new \in Places
      BY <1>0, <3>1, <3>3 DEF Places, ProxyInv, ProxyTypes
    <3>5. OneRequest(t)'
      BY <3>2, <3>3, <3>4 DEF OneRequest
    <3>6. buffer' = buffer
      BY <2>1 DEF PopSubtree
    <3>7. QED
      BY <3>3, <3>4, <3>5, <3>6 DEF ProxyInv, Collected
  <2>2. CASE AssignBuffer(t)
    <3>1. /\ thread[t].pc = "assign" /\ buffer' = thread[t].rest
          /\ thread[t].tree \subseteq ended /\ thread[t].rest \subseteq ended
      BY <2>2 DEF AssignBuffer, ProxyInv, Collected
    <3>2. PICK r : thread[t].tree # {} =>
                     r \in Requests /\ \A z \in thread[t].tree : z[1] = r
      BY DEF ProxyInv, OneRequest
    <3>3. CASE thread' = [thread EXCEPT ![t] = [thread[t] EXCEPT
                 !.pc = "flush", !.tree = {}, !.rest = {}]]
      BY <1>0, <3>1, <3>3 DEF Places, OneRequest
    <3>4. CASE \E z \in Carriers(thread[t].tree) :
                 thread' = [thread EXCEPT ![t] = [thread[t] EXCEPT !.pc = "send", !.rest = {},
                              !.ids = <<path[z[1]], number[z[1]]>>]]
      <4>1. PICK z \in Carriers(thread[t].tree) :
              thread' = [thread EXCEPT ![t] = [thread[t] EXCEPT !.pc = "send", !.rest = {},
                           !.ids = <<path[z[1]], number[z[1]]>>]]
        BY <3>4
      <4>2. /\ z \in thread[t].tree /\ path[z[1]] # Direct /\ z \in ended /\ z \in Spans
            /\ z[1] = r /\ r \in Requests /\ number[r] # 0
        BY <3>1, <3>2, RequestOf DEF Carriers, ProxyInv, ProxyTypes, Numbered
      <4>3. path[r] \in Attempts /\ number[r] \in Nat
        BY <4>2 DEF ProxyInv, ProxyTypes
      <4>4. /\ new.tree = thread[t].tree /\ new.rest = {} /\ new.pc = "send"
            /\ new.ids = <<path[r], number[r]>> /\ new \in Places
            /\ thread' = [thread EXCEPT ![t] = new]
        BY <1>0, <4>1, <4>2, <4>3 DEF Places
      <4>5. OneRequest(t)'
        BY <1>1, <3>2, <4>2, <4>4 DEF OneRequest, Has
      <4>6. QED
        BY <3>1, <4>4, <4>5
    <3>5. QED
      BY <2>2, <3>3, <3>4 DEF AssignBuffer, Moves
  <2>3. QED BY <2>1, <2>2
<1>4. ProxyTypes' /\ Collected'
  BY <1>1, <1>3 DEF ProxyInv, ProxyTypes, Collected
<1>5. ASSUME NEW u \in Threads PROVE OneRequest(u)'
  <2>1. CASE u = t BY <1>3, <2>1
  <2>2. CASE u # t
    BY <1>0, <1>1, <1>3, <2>2, OneRequestStays DEF ProxyInv
  <2>3. QED BY <2>1, <2>2
<1>6. QED
  BY <1>2, <1>4, <1>5 DEF ProxyInv

\* What is sent is stored under the identifiers of the tree's request.
LEMMA SendPreserves ==
  ASSUME ProxyInv, NEW t \in Threads, Send(t)
  PROVE  ProxyInv'
<1> DEFINE new == thread'[t]
<1>0. thread[t] \in Places /\ thread \in [Threads -> Places]
  BY DEF ProxyInv, ProxyTypes
<1>1. UNCHANGED <<path, number, counter, ended, buffer, lock, locks>>
  BY DEF Send, Setting, Numbers, Locking
<1>2. PICK now \in SUBSET thread[t].tree :
        /\ stored' = [s \in Spans |-> IF s \in now THEN thread[t].ids ELSE stored[s]]
        /\ thread' = [thread EXCEPT ![t] = [thread[t] EXCEPT
             !.tree = thread[t].tree \ now,
             !.pc = IF thread[t].tree \ now = {} THEN "flush" ELSE thread[t].pc]]
  <2>1. PICK now \in IF otlp THEN {thread[t].tree} ELSE {{s} : s \in thread[t].tree} :
          /\ stored' = [s \in Spans |-> IF s \in now THEN thread[t].ids ELSE stored[s]]
          /\ thread' = [thread EXCEPT ![t] = [thread[t] EXCEPT
               !.tree = thread[t].tree \ now,
               !.pc = IF thread[t].tree \ now = {} THEN "flush" ELSE thread[t].pc]]
    BY DEF Send, Moves
  <2>2. now \in SUBSET thread[t].tree
    BY <2>1
  <2>3. QED BY <2>1, <2>2
<1>3. PICK r \in Requests : (\A s \in thread[t].tree : s[1] = r) /\ Has(r, thread[t].ids)
  BY DEF Send, ProxyInv, OneRequest
<1>4. /\ new.tree = thread[t].tree \ now /\ new.rest = thread[t].rest
      /\ new.ids = thread[t].ids /\ new.span = thread[t].span
      /\ new.pc \in {"send", "flush"} /\ (new.pc = "send" => thread[t].pc = "send")
      /\ thread' = [thread EXCEPT ![t] = new]
  BY <1>0, <1>2 DEF Send, Places
<1>5. new \in Places
  BY <1>0, <1>2 DEF Places
<1>6. stored' \in [Spans -> (Attempts \X Nat) \cup {NoIds}]
  BY <1>0, <1>2 DEF ProxyInv, ProxyTypes, Places
<1>7. ProxyTypes' /\ Collected'
  BY <1>1, <1>4, <1>5, <1>6 DEF ProxyInv, ProxyTypes, Collected
<1>8. Numbered' /\ StoredWell'
  BY <1>1, <1>2, <1>3 DEF ProxyInv, Numbered, StoredWell, Has
<1>9. ASSUME NEW u \in Threads PROVE OneRequest(u)'
  <2>1. CASE u = t
    BY <1>1, <1>3, <1>4, <2>1 DEF OneRequest, Has
  <2>2. CASE u # t
    BY <1>0, <1>1, <1>4, <2>2, OneRequestStays DEF ProxyInv
  <2>3. QED BY <2>1, <2>2
<1>10. QED
  BY <1>7, <1>8, <1>9 DEF ProxyInv

\* The end of an export forgets what the thread had in hand.
LEMMA EndPreserves ==
  ASSUME ProxyInv, NEW t \in Threads, SendFails(t) \/ Succeed(t)
  PROVE  ProxyInv'
<1>1. /\ UNCHANGED <<path, number, counter, ended, buffer, lock, stored>>
      /\ locks' = [locks EXCEPT ![thread[t].lock] = Nobody]
      /\ thread' = [thread EXCEPT ![t] = Idle]
  BY DEF SendFails, Succeed, Setting, Numbers, Moves, Releases
<1>2. Idle \in Places /\ Idle.tree = {} /\ Idle.rest = {} /\ Idle.pc = "idle"
  BY DEF Idle, Places
<1>3. locks' \in Seq(Threads \cup {Nobody})
  BY <1>1, LocksStay DEF ProxyInv, ProxyTypes
<1>4. ProxyTypes' /\ Collected'
  BY <1>1, <1>2, <1>3 DEF ProxyInv, ProxyTypes, Collected
<1>5. Numbered' /\ StoredWell'
  BY <1>1 DEF ProxyInv, Numbered, StoredWell, Has
<1>6. ASSUME NEW u \in Threads PROVE OneRequest(u)'
  BY <1>1, <1>2, OneRequestStays DEF ProxyInv, ProxyTypes, OneRequest
<1>7. QED
  BY <1>4, <1>5, <1>6 DEF ProxyInv

\* Every step preserves the invariant.
LEMMA ProxyInvStep == ProxyInv /\ [SpansNext]_spanVars => ProxyInv'
<1> SUFFICES ASSUME ProxyInv, [SpansNext]_spanVars PROVE ProxyInv'
  OBVIOUS
<1>1. CASE \E r \in Requests : Number(r)
  BY <1>1, NumberPreserves
<1>2. CASE \E t \in Threads, s \in Spans : Export(t, s)
  BY <1>2, ArrivalPreserves
<1>3. CASE \E t \in Threads : ClearLock(t) \/ EnsureLock(t) \/ AppendSpan(t)
  <2>1. PICK t \in Threads : ClearLock(t) \/ EnsureLock(t) \/ AppendSpan(t)
    BY <1>3
  <2>2. thread[t].span \in Spans
    BY <2>1 DEF ClearLock, EnsureLock, AppendSpan, ProxyInv, ProxyTypes, Collected
  <2>3. QED BY <2>1, <2>2, ArrivalPreserves
<1>4. CASE \E t \in Threads : PopSubtree(t) \/ AssignBuffer(t)
  BY <1>4, TakingPreserves
<1>5. CASE \E t \in Threads : Send(t)
  BY <1>5, SendPreserves
<1>6. CASE \E t \in Threads : SendFails(t) \/ Succeed(t)
  BY <1>6, EndPreserves
<1>7. CASE UNCHANGED spanVars
  <2>1. UNCHANGED <<path, number, counter, ended, buffer, lock, locks, thread, stored>>
    BY <1>7 DEF spanVars
  <2>2. QED
    BY <2>1 DEF ProxyInv, ProxyTypes, Collected, Numbered, OneRequest, StoredWell, Has
<1>8. QED
  BY <1>1, <1>2, <1>3, <1>4, <1>5, <1>6, <1>7 DEF SpansNext

\* A span is stored under the attempt and the sequence id of its own request, whatever
\* threads share the exporter's buffer and whenever the store fails
\* (LightningSpanExporter._maybe_flush).
THEOREM ProxyStoresUnderOwnIds == SpansSpec => []StoredUnderOwnIds
<1>1. ProxyInv => StoredUnderOwnIds
  BY DEF ProxyInv, StoredWell, Has, StoredUnderOwnIds
<1>2. QED
  BY <1>1, ProxyInvInit, ProxyInvStep, PTL DEF SpansSpec

-----------------------------------------------------------------------------
\* The invariant of an exporter that has its lock.  One thread at a time is inside, ...
Serialized ==
  /\ owned /\ lock = 1 /\ Len(locks) = 1
  /\ \A t \in Threads :
       /\ thread[t].pc \in {"idle", "wait", "flush", "assign", "send"}
       /\ thread[t].pc # "idle" => thread[t].lock = 1
       /\ Inside(t) => locks[1] = t

\* ... it has a tree in hand only between taking it and giving it away, what it leaves in
\* the buffer and the tree are all there was, and no root is there that it will not see, ...
Roots(b) == {s \in b : IsRoot(s)}

Flushing(t) ==
  /\ \A s \in thread[t].todo : IsRoot(s)
  /\ thread[t].pc \in {"idle", "wait", "flush"} => thread[t].tree = {}
  /\ thread[t].pc \in {"flush", "send"} => Roots(buffer) \subseteq thread[t].todo
  /\ thread[t].pc = "assign" =>
       /\ buffer \subseteq thread[t].rest \cup thread[t].tree
       /\ Roots(thread[t].rest) \subseteq thread[t].todo

\* ... nothing that ended is lost, ...
Accounted(s) ==
  \/ s \in buffer \/ s \in dropped \/ stored[s] # NoIds
  \/ \E t \in Threads : s \in HeldBy(t)

\* ... and outside of an export the buffer has no root unless the last one failed.
Flushed == (\A t \in Threads : ~Inside(t)) /\ ~failed => Roots(buffer) = {}

KeptInv ==
  ~fresh =>
    /\ Serialized
    /\ \A t \in Threads : Flushing(t)
    /\ \A s \in ended : Accounted(s)
    /\ Flushed

\* The invariant says what the property says.
LEMMA KeptMeans == ProxyInv /\ KeptInv => KeptOnceStarted
<1> SUFFICES ASSUME ProxyInv, KeptInv, ~fresh PROVE SpansAreKept
  BY DEF KeptOnceStarted
<1>1. \A s \in ended : s \in Spans /\ Accounted(s)
  BY DEF KeptInv, ProxyInv, ProxyTypes
<1>2. QED
  BY <1>1 DEF KeptInv, SpansAreKept, Accounted, Flushed, Roots

\* It holds initially.
LEMMA KeptInit == SpansInit => KeptInv
<1> SUFFICES ASSUME SpansInit, ~fresh PROVE KeptInv
  BY DEF KeptInv
<1>1. owned /\ lock = 1 /\ locks = <<Nobody>> /\ ended = {} /\ buffer = {}
  BY DEF SpansInit
<1>2. \A t \in Threads : thread[t].pc = "idle" /\ thread[t].tree = {}
  BY DEF SpansInit, Idle
<1>4. \A t \in Threads : thread[t].todo = {}
  BY DEF SpansInit, Idle
<1>3. Serialized
  BY <1>1, <1>2 DEF Serialized, Inside
<1>5. (\A t \in Threads : Flushing(t)) /\ Flushed
  BY <1>1, <1>2, <1>4 DEF Flushing, Flushed, Roots
<1>6. QED
  BY <1>1, <1>3, <1>5 DEF KeptInv

\* A thread that is inside is there alone.
LEMMA OneInside ==
  ASSUME Serialized, NEW t \in Threads, Inside(t)
  PROVE  \A u \in Threads \ {t} : ~Inside(u)
BY DEF Serialized

\* A request is numbered, or a span ends: an exporter with its lock sends the thread to
\* wait for it.
LEMMA OutsideKeeps ==
  ASSUME ProxyInv, KeptInv, ~fresh,
         \/ \E r \in Requests : Number(r)
         \/ \E t \in Threads, s \in Spans : Export(t, s)
  PROVE  KeptInv'
<1>1. CASE \E r \in Requests : Number(r)
  <2>1. UNCHANGED <<ended, buffer, owned, lock, locks, thread, stored, dropped, failed>>
    BY <1>1 DEF Number, Locking, Results
  <2>2. QED
    BY <2>1 DEF KeptInv, Serialized, Flushing, Accounted, Flushed, Inside, HeldBy
<1>2. CASE \E t \in Threads, s \in Spans : Export(t, s)
  <2>1. PICK t \in Threads, s \in Spans : Export(t, s)
    BY <1>2
  <2> DEFINE x == [Idle EXCEPT !.span = s, !.lock = lock, !.pc = "wait"]
  <2>2. /\ thread[t].pc = "idle" /\ ended' = ended \cup {s} /\ Moves(t, x)
        /\ UNCHANGED <<buffer, owned, lock, locks, stored, dropped, failed>>
    <3>1. owned /\ lock = 1
      BY DEF KeptInv, Serialized
    <3> DEFINE pc == IF ~owned THEN "clear" ELSE IF lock = 0 THEN "ensure" ELSE "wait"
    <3>2. pc = "wait"
      BY <3>1
    <3>3. Moves(t, [Idle EXCEPT !.span = s, !.lock = lock, !.pc = pc])
      BY <2>1 DEF Export
    <3> HIDE DEF pc
    <3>4. Moves(t, x)
      BY <3>2, <3>3
    <3>5. QED
      BY <2>1, <3>4 DEF Export, Locking, Results
  <2>3. x.pc = "wait" /\ x.span = s /\ x.lock = lock /\ x.tree = {} /\ x.todo = {}
    BY DEF Idle
  <2> HIDE DEF x
  <2>4. /\ \A u \in Threads \ {t} :
             thread'[u] = thread[u] /\ HeldBy(u)' = HeldBy(u) /\ Inside(u)' = Inside(u)
        /\ thread'[t] = x /\ s \in HeldBy(t)' /\ HeldBy(t) = {} /\ ~Inside(t) /\ ~Inside(t)'
    <3>1. thread' = [thread EXCEPT ![t] = x] /\ thread \in [Threads -> Places]
      BY <2>2 DEF Moves, ProxyInv, ProxyTypes
    <3>2. QED
      BY <2>2, <2>3, <3>1 DEF HeldBy, Inside, KeptInv, Flushing
  <2>5. Serialized'
    BY <2>2, <2>3, <2>4 DEF KeptInv, Serialized
  <2>6. \A u \in Threads : Flushing(u)'
    BY <2>2, <2>3, <2>4 DEF KeptInv, Flushing
  <2>7. \A z \in ended' : Accounted(z)'
    BY <2>2, <2>4 DEF KeptInv, Accounted
  <2>8. Flushed'
    BY <2>2, <2>4 DEF KeptInv, Flushed
  <2>9. QED
    BY <2>5, <2>6, <2>7, <2>8 DEF KeptInv
<1>3. QED
  BY <1>1, <1>2

\* A thread takes the lock, which only one can have: now it sees every root there is.
LEMMA AppendKeeps ==
  ASSUME ProxyInv, KeptInv, ~fresh, NEW t \in Threads, AppendSpan(t)
  PROVE  KeptInv'
<1> DEFINE x == [thread[t] EXCEPT !.pc = "flush", !.todo = Roots(buffer')]
<1>1. /\ thread[t].pc = "wait" /\ locks[thread[t].lock] = Nobody
      /\ locks' = [locks EXCEPT ![thread[t].lock] = t]
      /\ buffer' = buffer \cup {thread[t].span}
      /\ Moves(t, x)
      /\ UNCHANGED <<ended, owned, lock, stored, dropped, failed>>
  BY DEF AppendSpan, Results, Roots
<1>2. /\ Serialized /\ (\A u \in Threads : Flushing(u)) /\ (\A s \in ended : Accounted(s))
      /\ thread[t] \in Places /\ locks \in Seq(Threads \cup {Nobody})
  BY DEF KeptInv, ProxyInv, ProxyTypes
<1>3. x.pc = "flush" /\ x.todo = Roots(buffer') /\ x.tree = {} /\ x.lock = 1
  BY <1>1, <1>2 DEF Places, Flushing, Serialized
<1> HIDE DEF x
<1>4. thread[t].lock = 1 /\ locks[1] = Nobody
  BY <1>1, <1>2 DEF Serialized
<1>5. Len(locks') = 1 /\ locks'[1] = t
  BY <1>1, <1>2, <1>4 DEF Serialized
<1>6. \A u \in Threads : ~Inside(u)
  BY <1>2, <1>4, ThreadsAssumption DEF Serialized
<1>7. /\ \A u \in Threads \ {t} :
           thread'[u] = thread[u] /\ HeldBy(u)' = HeldBy(u) /\ ~Inside(u)'
      /\ thread'[t] = x /\ Inside(t)' /\ HeldBy(t) = {thread[t].span}
  <2>1. thread' = [thread EXCEPT ![t] = x] /\ thread \in [Threads -> Places]
    BY <1>1 DEF Moves, ProxyInv, ProxyTypes
  <2>2. QED
    BY <1>1, <1>2, <1>3, <1>6, <2>1 DEF HeldBy, Inside, Flushing
<1>8. Serialized'
  BY <1>1, <1>2, <1>3, <1>5, <1>7 DEF Serialized
<1>9. \A u \in Threads : Flushing(u)'
  <2>1. Flushing(t)'
    BY <1>3, <1>7 DEF Flushing, Roots
  <2>2. ASSUME NEW u \in Threads \ {t} PROVE Flushing(u)'
    BY <1>2, <1>6, <1>7 DEF Flushing, Inside
  <2>3. QED BY <2>1, <2>2
<1>10. \A s \in ended' : Accounted(s)'
  BY <1>1, <1>2, <1>7 DEF Accounted
<1>11. Flushed'
  BY <1>7 DEF Flushed
<1>12. QED
  BY <1>8, <1>9, <1>10, <1>11 DEF KeptInv

\* A thread that is inside and stays there: what it does with its tree and the buffer is
\* all that changes.
LEMMA InsideKeeps ==
  ASSUME ProxyInv, KeptInv, ~fresh, NEW t \in Threads, Inside(t), NEW x, Moves(t, x),
         x.pc \in {"flush", "assign", "send"}, x.lock = thread[t].lock,
         Flushing(t)', UNCHANGED <<fresh, ended, owned, lock, locks>>,
         \A s \in ended : Accounted(s) => Accounted(s)'
  PROVE  KeptInv'
<1>1. /\ Serialized /\ (\A u \in Threads : Flushing(u)) /\ (\A s \in ended : Accounted(s))
  BY DEF KeptInv
<1>2. /\ \A u \in Threads \ {t} : thread'[u] = thread[u] /\ ~Inside(u) /\ ~Inside(u)'
      /\ thread'[t] = x /\ Inside(t)'
  <2>1. thread' = [thread EXCEPT ![t] = x] /\ thread \in [Threads -> Places]
    BY DEF Moves, ProxyInv, ProxyTypes
  <2>2. QED
    BY <1>1, <2>1, OneInside DEF Inside
<1>3. Serialized'
  BY <1>1, <1>2 DEF Serialized, Inside
<1>4. \A u \in Threads \ {t} : Flushing(u)'
  BY <1>1, <1>2 DEF Flushing, Inside
<1>5. Flushed'
  BY <1>2 DEF Flushed
<1>6. QED
  BY <1>1, <1>3, <1>4, <1>5 DEF KeptInv

\* It takes the tree of a root, and looks no more for this root.
LEMMA PopKeeps ==
  ASSUME ProxyInv, KeptInv, ~fresh, NEW t \in Threads, PopSubtree(t)
  PROVE  KeptInv'
<1>1. PICK root \in thread[t].todo :
        Moves(t, [thread[t] EXCEPT !.pc = "assign", !.todo = thread[t].todo \ {root},
                    !.rest = Rest(buffer, root), !.tree = Subtree(buffer, root)])
  BY DEF PopSubtree
<1> DEFINE x == [thread[t] EXCEPT !.pc = "assign", !.todo = thread[t].todo \ {root},
                   !.rest = Rest(buffer, root), !.tree = Subtree(buffer, root)]
<1>2. /\ thread[t].pc = "flush" /\ UNCHANGED <<fresh, ended, buffer, owned, lock, locks, stored, dropped>>
      /\ thread[t] \in Places /\ thread \in [Threads -> Places] /\ Flushing(t)
      /\ Moves(t, x)
  BY <1>1 DEF PopSubtree, Setting, Locking, Results, ProxyInv, ProxyTypes, KeptInv
<1>3. /\ x.pc = "assign" /\ x.todo = thread[t].todo \ {root} /\ x.lock = thread[t].lock
      /\ x.rest = Rest(buffer, root) /\ x.tree = Subtree(buffer, root)
  BY <1>2 DEF Places
<1> HIDE DEF x
<1>4. thread'[t] = x /\ \A u \in Threads \ {t} : thread'[u] = thread[u]
  BY <1>2 DEF Moves
<1>5. /\ buffer \subseteq Rest(buffer, root) \cup Subtree(buffer, root)
      /\ Rest(buffer, root) \subseteq buffer
  BY DEF Rest
<1>6. root \notin Rest(buffer, root)
  <2>1. root \in Spans
    BY <1>2 DEF Places
  <2>2. ASSUME root \in buffer PROVE root \in Subtree(buffer, root)
    <3>1. IsRoot(root)
      BY <1>2 DEF Flushing
    <3>2. QED
      BY <2>2, <3>1 DEF Subtree, Above, IsRoot, Kinds
  <2>3. QED
    BY <2>2 DEF Rest
<1>7. Flushing(t)'
  BY <1>2, <1>3, <1>4, <1>5, <1>6 DEF Flushing, Roots
<1>8. Inside(t)
  BY <1>2 DEF Inside
<1>9. ASSUME NEW s \in ended, Accounted(s) PROVE Accounted(s)'
  <2>1. HeldBy(t) = {}
    BY <1>2 DEF HeldBy, Flushing
  <2>2. \A u \in Threads \ {t} : HeldBy(u)' = HeldBy(u)
    BY <1>4 DEF HeldBy
  <2>3. QED
    BY <1>2, <1>9, <2>1, <2>2 DEF Accounted
<1>10. QED
  BY <1>2, <1>3, <1>7, <1>8, <1>9, InsideKeeps

\* The rest becomes the buffer, and the tree is dropped openly or sent.
LEMMA AssignKeeps ==
  ASSUME ProxyInv, KeptInv, ~fresh, NEW t \in Threads, AssignBuffer(t)
  PROVE  KeptInv'
<1>0. /\ thread[t].pc = "assign" /\ buffer' = thread[t].rest
      /\ UNCHANGED <<fresh, ended, owned, lock, locks, stored>>
      /\ thread[t] \in Places /\ thread \in [Threads -> Places] /\ Flushing(t)
  BY DEF AssignBuffer, Setting, Locking, ProxyInv, ProxyTypes, KeptInv
<1>1. PICK x :
        /\ Moves(t, x)
        /\ \/ /\ x = [thread[t] EXCEPT !.pc = "flush", !.tree = {}, !.rest = {}]
              /\ dropped' = dropped \cup thread[t].tree
           \/ /\ \E ids : x = [thread[t] EXCEPT !.pc = "send", !.rest = {}, !.ids = ids]
              /\ dropped' = dropped
  BY DEF AssignBuffer
<1>2. /\ x.pc \in {"flush", "send"} /\ x.todo = thread[t].todo /\ x.lock = thread[t].lock
      /\ \/ x.pc = "flush" /\ x.tree = {} /\ dropped' = dropped \cup thread[t].tree
         \/ x.pc = "send" /\ x.tree = thread[t].tree /\ dropped' = dropped
  BY <1>0, <1>1 DEF Places
<1>3. thread'[t] = x /\ \A u \in Threads \ {t} : thread'[u] = thread[u]
  BY <1>0, <1>1 DEF Moves
<1>4. Flushing(t)'
  BY <1>0, <1>2, <1>3 DEF Flushing, Roots
<1>5. Inside(t)
  BY <1>0 DEF Inside
<1>6. ASSUME NEW s \in ended, Accounted(s) PROVE Accounted(s)'
  <2>1. HeldBy(t) = thread[t].tree /\ HeldBy(t)' = x.tree
    BY <1>0, <1>2, <1>3 DEF HeldBy
  <2>2. \A u \in Threads \ {t} : HeldBy(u)' = HeldBy(u)
    BY <1>3 DEF HeldBy
  <2>3. buffer \subseteq buffer' \cup thread[t].tree
    BY <1>0 DEF Flushing
  <2>4. thread[t].tree \subseteq dropped' \cup HeldBy(t)'
    BY <1>2, <2>1
  <2>5. QED
    BY <1>0, <1>2, <1>6, <2>1, <2>2, <2>3, <2>4 DEF Accounted
<1>7. QED
  BY <1>0, <1>1, <1>2, <1>4, <1>5, <1>6, InsideKeeps

\* What goes to the store is stored.
LEMMA SendKeeps ==
  ASSUME ProxyInv, KeptInv, ~fresh, NEW t \in Threads, Send(t)
  PROVE  KeptInv'
<1>0. /\ thread[t].pc = "send"
      /\ UNCHANGED <<fresh, ended, buffer, owned, lock, locks, dropped>>
      /\ thread[t] \in Places /\ thread \in [Threads -> Places] /\ Flushing(t)
      /\ thread[t].tree \subseteq Spans
      /\ DOMAIN stored = Spans
  BY DEF Send, Setting, Locking, ProxyInv, ProxyTypes, KeptInv, Places
<1>1. PICK now \in SUBSET thread[t].tree :
        /\ stored' = [s \in Spans |-> IF s \in now THEN thread[t].ids ELSE stored[s]]
        /\ Moves(t, [thread[t] EXCEPT
             !.tree = thread[t].tree \ now,
             !.pc = IF thread[t].tree \ now = {} THEN "flush" ELSE thread[t].pc])
  <2>1. PICK now \in IF otlp THEN {thread[t].tree} ELSE {{s} : s \in thread[t].tree} :
          /\ stored' = [s \in Spans |-> IF s \in now THEN thread[t].ids ELSE stored[s]]
          /\ Moves(t, [thread[t] EXCEPT
               !.tree = thread[t].tree \ now,
               !.pc = IF thread[t].tree \ now = {} THEN "flush" ELSE thread[t].pc])
    BY DEF Send
  <2>2. now \in SUBSET thread[t].tree
    BY <2>1
  <2>3. QED BY <2>1, <2>2
<1> DEFINE x == [thread[t] EXCEPT
                   !.tree = thread[t].tree \ now,
                   !.pc = IF thread[t].tree \ now = {} THEN "flush" ELSE thread[t].pc]
<1>2. /\ x.pc \in {"flush", "send"} /\ (x.pc = "flush" => x.tree = {})
      /\ x.todo = thread[t].todo /\ x.lock = thread[t].lock
      /\ x.tree = thread[t].tree \ now /\ Moves(t, x)
  BY <1>0, <1>1 DEF Places
<1> HIDE DEF x
<1>3. thread'[t] = x /\ \A u \in Threads \ {t} : thread'[u] = thread[u]
  BY <1>0, <1>2 DEF Moves
<1>4. Flushing(t)'
  BY <1>0, <1>2, <1>3 DEF Flushing
<1>5. Inside(t)
  BY <1>0 DEF Inside
<1>6. thread[t].ids # NoIds
  <2>1. PICK r \in Requests : Has(r, thread[t].ids)
    BY <1>0 DEF ProxyInv, OneRequest
  <2>2. thread[t].ids = <<path[r], number[r]>>
    BY <2>1 DEF Has
  <2>3. <<path[r], number[r]>> # <<>>
    OBVIOUS
  <2>4. QED
    BY <2>2, <2>3 DEF NoIds
<1>7. ASSUME NEW s \in ended, Accounted(s) PROVE Accounted(s)'
  <2>1. s \in Spans
    BY DEF ProxyInv, ProxyTypes
  <2>2. HeldBy(t) = thread[t].tree /\ HeldBy(t)' = thread[t].tree \ now
    BY <1>0, <1>2, <1>3 DEF HeldBy
  <2>3. \A u \in Threads \ {t} : HeldBy(u)' = HeldBy(u)
    BY <1>3 DEF HeldBy
  <2>4. stored'[s] = IF s \in now THEN thread[t].ids ELSE stored[s]
    BY <1>1, <2>1
  <2>5. CASE s \in now
    BY <1>6, <2>4, <2>5 DEF Accounted
  <2>6. CASE s \notin now
    BY <1>0, <1>7, <2>2, <2>3, <2>4, <2>6 DEF Accounted
  <2>7. QED
    BY <2>5, <2>6
<1>8. QED
  BY <1>0, <1>2, <1>4, <1>5, <1>7, InsideKeeps

\* The export ends: it has seen every root, or it says that it failed.
LEMMA EndKeeps ==
  ASSUME ProxyInv, KeptInv, ~fresh, NEW t \in Threads, SendFails(t) \/ Succeed(t)
  PROVE  KeptInv'
<1>1. /\ Inside(t) /\ Moves(t, Idle) /\ locks' = [locks EXCEPT ![thread[t].lock] = Nobody]
      /\ UNCHANGED <<fresh, ended, buffer, owned, lock, stored>>
      /\ \/ /\ thread[t].pc = "send" /\ dropped' = dropped \cup thread[t].tree /\ failed'
         \/ /\ thread[t].pc = "flush" /\ thread[t].todo = {} /\ dropped' = dropped
  BY DEF SendFails, Succeed, Releases, Setting, Inside
<1>2. /\ Serialized /\ (\A u \in Threads : Flushing(u)) /\ (\A s \in ended : Accounted(s))
      /\ thread \in [Threads -> Places] /\ locks \in Seq(Threads \cup {Nobody})
  BY DEF KeptInv, ProxyInv, ProxyTypes
<1>3. Idle.pc = "idle" /\ Idle.tree = {} /\ Idle.todo = {}
  BY DEF Idle
<1>4. /\ \A u \in Threads \ {t} : thread'[u] = thread[u] /\ HeldBy(u)' = HeldBy(u) /\ ~Inside(u)'
      /\ thread'[t] = Idle /\ ~Inside(t)' /\ HeldBy(t) = thread[t].tree
  <2>1. /\ thread'[t] = Idle
        /\ \A u \in Threads \ {t} : thread'[u] = thread[u] /\ ~Inside(u)
    BY <1>1, <1>2, OneInside DEF Moves
  <2>2. QED
    BY <1>1, <1>3, <2>1 DEF HeldBy, Inside
<1>5. Len(locks') = 1
  BY <1>1, <1>2 DEF Serialized
<1>6. Serialized'
  BY <1>1, <1>2, <1>3, <1>4, <1>5 DEF Serialized
<1>7. \A u \in Threads : Flushing(u)'
  <2>1. Flushing(t)'
    BY <1>3, <1>4 DEF Flushing
  <2>2. ASSUME NEW u \in Threads \ {t} PROVE Flushing(u)'
    BY <1>1, <1>2, <1>4 DEF Flushing
  <2>3. QED BY <2>1, <2>2
<1>8. ASSUME NEW s \in ended PROVE Accounted(s)'
  <2>1. thread[t].tree \subseteq dropped'
    BY <1>1, <1>2 DEF Flushing
  <2>2. QED
    BY <1>1, <1>2, <1>4, <2>1 DEF Accounted
<1>9. Flushed'
  <2>1. thread[t].pc = "flush" /\ thread[t].todo = {} => Roots(buffer) = {}
    BY <1>2 DEF Flushing
  <2>2. Roots(buffer)' = Roots(buffer)
    BY <1>1 DEF Roots
  <2>3. QED
    BY <1>1, <2>1, <2>2 DEF Flushed
<1>10. QED
  BY <1>1, <1>6, <1>7, <1>8, <1>9 DEF KeptInv

\* Every step preserves the invariant; an exporter that has its lock does not clear it.
LEMMA KeptStep == ProxyInv /\ KeptInv /\ [SpansNext]_spanVars => KeptInv'
<1> SUFFICES ASSUME ProxyInv, KeptInv, [SpansNext]_spanVars, ~fresh' PROVE KeptInv'
  BY DEF KeptInv
<1>1. fresh' = fresh /\ ~fresh
  <2>1. CASE \E r \in Requests : Number(r)
    BY <2>1 DEF Number, Setting
  <2>2. CASE \E t \in Threads : \E s \in Spans : Export(t, s)
    BY <2>2 DEF Export, Setting
  <2>3. ASSUME NEW t \in Threads, ClearLock(t) \/ EnsureLock(t) \/ AppendSpan(t)
        PROVE  fresh' = fresh
    BY <2>3 DEF ClearLock, EnsureLock, AppendSpan, Setting
  <2>4. ASSUME NEW t \in Threads, PopSubtree(t) PROVE fresh' = fresh
    BY <2>4 DEF PopSubtree, Setting
  <2>5. ASSUME NEW t \in Threads, AssignBuffer(t) PROVE fresh' = fresh
    BY <2>5 DEF AssignBuffer, Setting
  <2>6. ASSUME NEW t \in Threads, Send(t) PROVE fresh' = fresh
    BY <2>6 DEF Send, Setting
  <2>7. ASSUME NEW t \in Threads, SendFails(t) \/ Succeed(t) PROVE fresh' = fresh
    BY <2>7 DEF SendFails, Succeed, Setting
  <2>8. CASE UNCHANGED spanVars
    BY <2>8 DEF spanVars
  <2>9. fresh' = fresh
    BY <2>1, <2>2, <2>3, <2>4, <2>5, <2>6, <2>7, <2>8 DEF SpansNext
  <2>10. QED
    BY <2>9
<1>2. CASE UNCHANGED spanVars
  <2>1. UNCHANGED <<fresh, ended, buffer, owned, lock, locks, thread, stored, dropped, failed>>
    BY <1>2 DEF spanVars
  <2>2. QED
    BY <2>1 DEF KeptInv, Serialized, Flushing, Accounted, Flushed, Inside, HeldBy, Roots
<1>3. CASE \E t \in Threads : ClearLock(t) \/ EnsureLock(t)
  BY <1>1, <1>3 DEF ClearLock, EnsureLock, KeptInv, Serialized
<1>4. CASE \E t \in Threads : \/ AppendSpan(t) \/ PopSubtree(t) \/ AssignBuffer(t)
                              \/ Send(t) \/ SendFails(t) \/ Succeed(t)
  BY <1>1, <1>4, AppendKeeps, PopKeeps, AssignKeeps, SendKeeps, EndKeeps
<1>5. QED
  BY <1>1, <1>2, <1>3, <1>4, OutsideKeeps DEF SpansNext

\* An exporter that this process has used before loses no span, whatever threads share it
\* and wherever the store fails: a span is buffered, in hand, stored or given up openly,
\* and no root waits in the buffer but for the export after a failed one
\* (LightningSpanExporter.export, _maybe_flush).
THEOREM ProxyKeepsSpans == SpansSpec => []KeptOnceStarted
<1>1. SpansSpec => []ProxyInv
  BY ProxyInvInit, ProxyInvStep, PTL DEF SpansSpec
<1>2. QED
  BY <1>1, KeptMeans, KeptInit, KeptStep, PTL DEF SpansSpec

=============================================================================
