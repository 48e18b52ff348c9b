----------------------------- MODULE Supervisor -----------------------------
(***************************************************************************)
(* The desktop shell's daemon supervisor (app/src/supervisor.rs, with the  *)
(* window handler and the IPC commands of app/src/lib.rs).                 *)
(*                                                                         *)
(* Every asynchronous call of the Rust code is a task.  A task runs        *)
(* without interference only between two awaits, so each action below is   *)
(* the code of one lock acquisition, one signal, one spawn or one port     *)
(* probe; between two actions of a task any other task may run.  Tasks:    *)
(*   Main      start_all, called once by the setup hook                    *)
(*   Closers   one thread per CloseRequested event, running stop_all       *)
(*   Users     the restart/stop/start IPC commands and the wedge detector, *)
(*             which calls restart_one like a user does                    *)
(*   Watchers  the health watchers that start_one spawns                   *)
(* A task record holds its program counter, the index in Order of the      *)
(* daemon it works on, and the operation that called it, which decides     *)
(* where control goes when start_one or stop_one returns.                  *)
(***************************************************************************)
EXTENDS Naturals, Sequences, FiniteSets

CONSTANTS Daemons,     \* daemon names
          Order,       \* topo_order(): every daemon, dependencies first
          Main,        \* the task that runs start_all
          Closers,     \* bound: the CloseRequested events that may happen
          Users,       \* bound: the IPC commands and wedge restarts
          Watchers,    \* the health watchers that can exist at once
          Ops,         \* the operations Users may run
          MaxFailures  \* MAX_FAILURES

Tasks == {Main} \cup Closers \cup Users \cup Watchers
Operations == {"start", "stop", "restart", "wedge"}

ASSUME OrderAssumption ==
    /\ Len(Order) \in Nat \ {0}
    /\ Order \in [1 .. Len(Order) -> Daemons]
ASSUME SetsAssumption ==
    /\ Ops \subseteq Operations
    /\ MaxFailures \in Nat
ASSUME TasksAssumption ==
    /\ Main \notin Closers \cup Users \cup Watchers
    /\ Closers \cap (Users \cup Watchers) = {}
    /\ Users \cap Watchers = {}
\* start_all and every command spawn at most one watcher, and a watcher that
\* restarts its daemon is replaced by the one it spawns: so many are enough.
ASSUME WatchersAssumption ==
    Cardinality(Watchers) >= Len(Order) + Cardinality(Users)

VARIABLES state,         \* DaemonRuntime.state
          stopping,      \* DaemonRuntime.stopping
          failures,      \* DaemonRuntime.consecutive_failures
          shuttingDown,  \* Supervisor.shutting_down
          proc,          \* the operating system's process behind each daemon
          task,          \* what every task is doing
          destroyed,     \* window.destroy() was called: the app has exited
          external,      \* daemons built with externally_managed = true
          signalled      \* history: daemons the supervisor sent a signal to

rt == <<state, stopping, failures>>
vars == <<state, stopping, failures, shuttingDown, proc, task, destroyed,
          external, signalled>>

States == {"Stopped", "Starting", "Running", "Stopping", "Crashed", "Dead"}
ProcStates == {"down", "booting", "up", "dying"}

StartSection == {"prekill", "spawn", "probe", "ready"}
StopSection == {"ext", "term", "grace", "kill", "stopped"}
WatchSection == {"poll", "wprobe", "mark", "bury", "backoff"}
Pcs == {"idle", "check", "claim", "halt", "reset", "destroy"}
         \cup StartSection \cup StopSection \cup WatchSection

TaskRecords == [pc : Pcs, i : 1 .. Len(Order),
                op : Operations \cup {"none", "start_all", "stop_all", "watch"}]

TypeOK ==
    /\ state \in [Daemons -> States]
    /\ stopping \in [Daemons -> BOOLEAN]
    /\ failures \in [Daemons -> 0 .. MaxFailures + 1]
    /\ shuttingDown \in BOOLEAN
    /\ proc \in [Daemons -> ProcStates]
    /\ task \in [Tasks -> TaskRecords]
    /\ destroyed \in BOOLEAN
    /\ external \subseteq Daemons
    /\ signalled \subseteq Daemons

-----------------------------------------------------------------------------
\* The daemon a task works on, and the port probe of check_port and
\* wait_for_port: a process told to terminate still listens until it exits.
Target(t) == Order[task[t].i]
PortUp(d) == proc[d] \in {"up", "dying"}

\* Only whether the counter exceeds MAX_FAILURES matters, so it stops there.
Bump(n) == IF n > MaxFailures THEN n ELSE n + 1

\* The application exits with its only window, and its tasks with it.
At(t, pc) == task[t].pc = pc /\ ~destroyed

Goto(t, pc) == task' = [task EXCEPT ![t].pc = pc]

\* Where a task continues when its call of start_one returns: start_all goes
\* on with the next daemon whatever happened to this one.
AfterStart(k) ==
    IF k.op = "start_all" /\ k.i < Len(Order)
    THEN [k EXCEPT !.pc = "check", !.i = @ + 1]
    ELSE [k EXCEPT !.pc = "idle"]

\* Where a task continues when its call of stop_one returns: stop_all goes on
\* with the daemon before this one, down to the first.
AfterStop(k) ==
    IF k.op = "stop_all"
    THEN IF k.i > 1 THEN [k EXCEPT !.pc = "halt", !.i = @ - 1]
                    ELSE [k EXCEPT !.pc = "destroy"]
    ELSE [k EXCEPT !.pc = IF k.op \in {"restart", "wedge"} THEN "reset"
                                                           ELSE "idle"]

StartReturns(t) == task' = [task EXCEPT ![t] = AfterStart(@)]
StopReturns(t) == task' = [task EXCEPT ![t] = AfterStop(@)]

\* What pkill does to a process.  A daemon that the shell has not executed yet
\* does not match the pattern, so a booting process may be missed.
Terminated(p) == IF p = "up" THEN {"dying"}
                 ELSE IF p = "booting" THEN {"down", "booting"} ELSE {p}
Killed(p) == IF p = "booting" THEN {"down", "booting"} ELSE {"down"}

Init ==
    /\ state = [d \in Daemons |-> "Stopped"]
    /\ stopping = [d \in Daemons |-> FALSE]
    /\ failures = [d \in Daemons |-> 0]
    /\ shuttingDown = FALSE
    \* a daemon of an earlier session may still be running
    /\ proc \in [Daemons -> {"down", "up"}]
    /\ task = [t \in Tasks |->
                 IF t = Main THEN [pc |-> "check", i |-> 1, op |-> "start_all"]
                             ELSE [pc |-> "idle", i |-> 1, op |-> "none"]]
    /\ destroyed = FALSE
    /\ external \in SUBSET Daemons
    /\ signalled = {}

-----------------------------------------------------------------------------
\* start_one, up to its first await: give up when a shutdown has begun.
StartOneCheck(t) ==
    /\ At(t, "check")
    /\ IF shuttingDown THEN StartReturns(t) ELSE Goto(t, "claim")
    /\ UNCHANGED <<rt, shuttingDown, proc, destroyed, external, signalled>>

\* start_one, under the daemon's lock: leave a daemon that is up, or that someone
\* is starting, alone; claim any other one, and spare an external process.
Claim(t, taken, spared) ==
    LET d == Target(t) IN
    /\ At(t, "claim")
    /\ \/ /\ state[d] \in taken
          /\ StartReturns(t)
          /\ UNCHANGED rt
       \/ /\ state[d] \notin taken
          /\ state' = [state EXCEPT ![d] = "Starting"]
          /\ stopping' = [stopping EXCEPT ![d] = FALSE]
          /\ Goto(t, IF d \in spared THEN "spawn" ELSE "prekill")
          /\ UNCHANGED failures
    /\ UNCHANGED <<shuttingDown, proc, destroyed, external, signalled>>

\* Mutants: a claim that only respects a Running or a Starting daemon, and the
\* pre-kill of v0.2.14, which did not spare external daemons.
ClaimUnlessRunning(t) == Claim(t, {"Running"}, external)
ClaimUnlessStarting(t) == Claim(t, {"Starting"}, external)
ClaimSparingNone(t) == Claim(t, {"Starting", "Running"}, {})

StartOneClaim(t) == Claim(t, {"Starting", "Running"}, external)

\* start_one: kill what an earlier session may have left on the port.
PreKill(t) ==
    LET d == Target(t) IN
    /\ At(t, "prekill")
    /\ \E p \in Killed(proc[d]) : proc' = [proc EXCEPT ![d] = p]
    /\ signalled' = signalled \cup {d}
    /\ Goto(t, "spawn")
    /\ UNCHANGED <<rt, shuttingDown, destroyed, external>>

\* start_one: spawn the daemon.  If another process already holds the port the
\* new one fails to bind, which the supervisor does not see.
Spawn(t) ==
    LET d == Target(t) IN
    /\ At(t, "spawn")
    /\ proc' = [proc EXCEPT ![d] = IF @ = "down" THEN "booting" ELSE @]
    /\ Goto(t, "probe")
    /\ UNCHANGED <<rt, shuttingDown, destroyed, external, signalled>>

\* start_one's error path: wsl.exe itself could not be spawned.
SpawnFails(t) ==
    LET d == Target(t) IN
    /\ At(t, "spawn")
    /\ state' = [state EXCEPT ![d] = "Crashed"]
    /\ failures' = [failures EXCEPT ![d] = Bump(@)]
    /\ StartReturns(t)
    /\ UNCHANGED <<stopping, shuttingDown, proc, destroyed, external, signalled>>

\* wait_for_port sees the port accept a connection.
ReadyProbe(t) ==
    /\ At(t, "probe")
    /\ PortUp(Target(t))
    /\ Goto(t, "ready")
    /\ UNCHANGED <<rt, shuttingDown, proc, destroyed, external, signalled>>

\* Mutants: a timeout that returns without recording the failure, and a wait
\* without a limit.
ReadyTimeoutUnrecorded(t) ==
    /\ At(t, "probe")
    /\ ~PortUp(Target(t))
    /\ StartReturns(t)
    /\ UNCHANGED <<rt, shuttingDown, proc, destroyed, external, signalled>>
ReadyTimeoutNever(t) == At(t, "probe") /\ UNCHANGED vars

\* wait_for_port gives up: the last of its probes failed.
ReadyTimeout(t) ==
    LET d == Target(t) IN
    /\ At(t, "probe")
    /\ ~PortUp(d)
    /\ state' = [state EXCEPT ![d] = "Crashed"]
    /\ failures' = [failures EXCEPT ![d] = Bump(@)]
    /\ StartReturns(t)
    /\ UNCHANGED <<stopping, shuttingDown, proc, destroyed, external, signalled>>

\* start_one's last step: mark the daemon Running, whatever happened since the
\* claim, and spawn a watcher for it.
Up(t, n) ==
    LET d == Target(t) IN
    /\ At(t, "ready")
    /\ state' = [state EXCEPT ![d] = "Running"]
    /\ failures' = [failures EXCEPT ![d] = n]
    /\ \E w \in Watchers :
         /\ \/ task[w].pc = "idle"
            \/ w = t         \* the watcher that called start_one is finished
         /\ task' = [task EXCEPT ![t] = AfterStart(@),
                                 ![w] = [pc |-> "poll", i |-> task[t].i,
                                         op |-> "watch"]]
    /\ UNCHANGED <<stopping, shuttingDown, proc, destroyed, external, signalled>>

\* Mutant: the failures of earlier attempts are not forgotten.
MarkRunningKeepsCount(t) == Up(t, failures[Target(t)])

MarkRunning(t) == Up(t, 0)

-----------------------------------------------------------------------------
\* stop_one, under the daemon's lock: nothing to do for a daemon that is down
\* or that another caller is stopping.
StopOneClaim(t) ==
    LET d == Target(t) IN
    /\ At(t, "halt")
    /\ \/ /\ state[d] \in {"Stopped", "Dead", "Stopping"}
          /\ StopReturns(t)
          /\ UNCHANGED rt
       \/ /\ state[d] \notin {"Stopped", "Dead", "Stopping"}
          /\ state' = [state EXCEPT ![d] = "Stopping"]
          /\ stopping' = [stopping EXCEPT ![d] = TRUE]
          /\ Goto(t, IF d \in external THEN "ext" ELSE "term")
          /\ UNCHANGED failures
    /\ UNCHANGED <<shuttingDown, proc, destroyed, external, signalled>>

\* stop_one sends SIGTERM.
Terminate(t) ==
    LET d == Target(t) IN
    /\ At(t, "term")
    /\ \E p \in Terminated(proc[d]) : proc' = [proc EXCEPT ![d] = p]
    /\ signalled' = signalled \cup {d}
    /\ Goto(t, "grace")
    /\ UNCHANGED <<rt, shuttingDown, destroyed, external>>

\* Mutant: a stop that never escalates.
GraceNeverEnds(t) ==
    /\ At(t, "grace") /\ ~PortUp(Target(t))
    /\ Goto(t, "stopped")
    /\ UNCHANGED <<rt, shuttingDown, proc, destroyed, external, signalled>>

\* stop_one waits for the port to close, and kills the process if the grace
\* period ends first.
GraceEnds(t) ==
    /\ At(t, "grace")
    /\ Goto(t, IF PortUp(Target(t)) THEN "kill" ELSE "stopped")
    /\ UNCHANGED <<rt, shuttingDown, proc, destroyed, external, signalled>>

Kill(t) ==
    LET d == Target(t) IN
    /\ At(t, "kill")
    /\ \E p \in Killed(proc[d]) : proc' = [proc EXCEPT ![d] = p]
    /\ signalled' = signalled \cup {d}
    /\ Goto(t, "stopped")
    /\ UNCHANGED <<rt, shuttingDown, destroyed, external>>

\* stop_one's last step, also its early return for an external daemon.
MarkStopped(t) ==
    /\ At(t, "stopped") \/ At(t, "ext")
    /\ state' = [state EXCEPT ![Target(t)] = "Stopped"]
    /\ StopReturns(t)
    /\ UNCHANGED <<stopping, failures, shuttingDown, proc, destroyed, external,
                   signalled>>

\* restart_one between stop_one and start_one.
RestartReset(t) ==
    LET d == Target(t) IN
    /\ At(t, "reset")
    /\ state' = [state EXCEPT ![d] = "Stopped"]
    /\ failures' = [failures EXCEPT ![d] = 0]
    /\ Goto(t, "check")
    /\ UNCHANGED <<stopping, shuttingDown, proc, destroyed, external, signalled>>

-----------------------------------------------------------------------------
\* A watcher wakes up and reads shutting_down, state and stopping.
WatchPoll(w) ==
    LET d == Target(w) IN
    /\ At(w, "poll")
    /\ Goto(w, IF shuttingDown \/ stopping[d] \/ state[d] # "Running"
               THEN "idle" ELSE "wprobe")
    /\ UNCHANGED <<rt, shuttingDown, proc, destroyed, external, signalled>>

\* The watcher probes the port, with the lock released.
WatchProbe(w) ==
    /\ At(w, "wprobe")
    /\ Goto(w, IF PortUp(Target(w)) THEN "poll" ELSE "mark")
    /\ UNCHANGED <<rt, shuttingDown, proc, destroyed, external, signalled>>

\* The watcher records a crash, without reading state and stopping again.
WatchMark(w) ==
    LET d == Target(w) IN
    /\ At(w, "mark")
    /\ state' = [state EXCEPT ![d] = "Crashed"]
    /\ failures' = [failures EXCEPT ![d] = Bump(@)]
    /\ Goto(w, IF failures'[d] > MaxFailures THEN "bury" ELSE "backoff")
    /\ UNCHANGED <<stopping, shuttingDown, proc, destroyed, external, signalled>>

WatchBury(w) ==
    /\ At(w, "bury")
    /\ state' = [state EXCEPT ![Target(w)] = "Dead"]
    /\ Goto(w, "idle")
    /\ UNCHANGED <<stopping, failures, shuttingDown, proc, destroyed, external,
                   signalled>>

\* After the backoff the watcher restarts the daemon and ends.
WatchBackoff(w) ==
    /\ At(w, "backoff")
    /\ Goto(w, IF shuttingDown THEN "idle" ELSE "check")
    /\ UNCHANGED <<rt, shuttingDown, proc, destroyed, external, signalled>>

-----------------------------------------------------------------------------
\* The user closes the window: a new thread runs stop_all, last daemon first.
CloseRequested(c) ==
    /\ At(c, "idle") /\ task[c].op = "none"
    /\ shuttingDown' = TRUE
    /\ task' = [task EXCEPT ![c] = [pc |-> "halt", i |-> Len(Order),
                                    op |-> "stop_all"]]
    /\ UNCHANGED <<rt, proc, destroyed, external, signalled>>

\* stop_all has returned: the window is destroyed and the process exits.
Destroy(c) ==
    /\ At(c, "destroy")
    /\ destroyed' = TRUE
    /\ Goto(c, "idle")
    /\ UNCHANGED <<rt, shuttingDown, proc, external, signalled>>

\* An IPC command of the page that start_all has opened, or a tick of the wedge
\* detector that start_all has spawned and that saw its daemon Running.
UserCall(u, op, i) ==
    /\ At(u, "idle") /\ task[u].op = "none"
    /\ task[Main].pc = "idle"
    /\ op = "wedge" => ~shuttingDown /\ state[Order[i]] = "Running"
    /\ task' = [task EXCEPT ![u] = [pc |-> IF op = "start" THEN "check"
                                                           ELSE "halt",
                                    i |-> i, op |-> op]]
    /\ UNCHANGED <<rt, shuttingDown, proc, destroyed, external, signalled>>

-----------------------------------------------------------------------------
\* The processes themselves: a booting daemon opens its port or dies, a running
\* one may crash, a terminating one exits.
ProcStep(d, from, to) ==
    /\ proc[d] = from
    /\ proc' = [proc EXCEPT ![d] = to]
    /\ UNCHANGED <<rt, shuttingDown, task, destroyed, external, signalled>>

PortOpens(d) == ProcStep(d, "booting", "up")
BootFails(d) == ProcStep(d, "booting", "down")
DaemonCrashes(d) == ProcStep(d, "up", "down")
DaemonExits(d) == ProcStep(d, "dying", "down")

StartOne(t) ==
    \/ StartOneCheck(t) \/ StartOneClaim(t) \/ PreKill(t) \/ Spawn(t)
    \/ SpawnFails(t) \/ ReadyProbe(t) \/ ReadyTimeout(t) \/ MarkRunning(t)

StopOne(t) ==
    \/ StopOneClaim(t) \/ Terminate(t) \/ GraceEnds(t) \/ Kill(t)
    \/ MarkStopped(t)

Watch(w) ==
    \/ WatchPoll(w) \/ WatchProbe(w) \/ WatchMark(w) \/ WatchBury(w)
    \/ WatchBackoff(w)

\* The steps a task takes by itself once it has been started.
TaskStep(t) ==
    \/ StartOne(t)
    \/ StopOne(t)
    \/ RestartReset(t)
    \/ Watch(t)
    \/ Destroy(t)

Next ==
    \/ \E t \in Tasks : TaskStep(t)
    \/ \E c \in Closers : CloseRequested(c)
    \/ \E u \in Users, op \in Ops, i \in 1 .. Len(Order) : UserCall(u, op, i)
    \/ \E d \in Daemons : \/ PortOpens(d)
                          \/ BootFails(d)
                          \/ DaemonCrashes(d)
                          \/ DaemonExits(d)

Spec == Init /\ [][Next]_vars

\* The runtime polls every task that can make progress; nothing obliges a user
\* to close the window or a process to crash.
FairSpec == Spec /\ \A t \in Tasks : WF_vars(TaskStep(t))

-----------------------------------------------------------------------------
\* Task t is working on daemon d, at one of the given places.
Busy(t, d, pcs) == Target(t) = d /\ task[t].pc \in pcs

\* A daemon is Starting only while some start_one is in progress for it.  The
\* state makes every other start_one return at once, so a daemon left Starting
\* by a call that is gone could never be started again.
StartingIsOwned ==
    \A d \in Daemons :
        state[d] = "Starting" => \E t \in Tasks : Busy(t, d, StartSection)

\* Likewise for Stopping and stop_one: a daemon left Stopping could never be
\* stopped again, not even by closing the window.
StoppingIsOwned ==
    \A d \in Daemons :
        state[d] = "Stopping" => \E t \in Tasks : Busy(t, d, StopSection)

\* No transient state outlives the task that will move it on.
TransientIsOwned == StartingIsOwned /\ StoppingIsOwned

\* The supervisor never signals the user's own node: neither the kill before a
\* spawn nor the two signals of a stop reach an externally managed daemon.
ExternalNeverSignalled == signalled \cap external = {}

\* As long as nobody stops or restarts a daemon, two start_one calls are never
\* past their claim for the same daemon: they would kill each other's process.
OneStarter ==
    \A t, u \in Tasks :
        /\ task[t].pc \in StartSection
        /\ task[u].pc \in StartSection
        /\ Target(t) = Target(u)
        => t = u

\* As long as nobody stops or restarts a daemon, a Running one is watched, by
\* one watcher: a second one would count and restart every crash again.
RunningIsWatchedOnce ==
    \A d \in Daemons :
        state[d] = "Running" /\ ~shuttingDown =>
            /\ ~stopping[d]
            /\ \E w \in Watchers : Busy(w, d, {"poll", "wprobe", "mark"})
            /\ \A v, w \in Watchers :
                 /\ Busy(v, d, {"poll", "wprobe", "mark"})
                 /\ Busy(w, d, {"poll", "wprobe", "mark"})
                 => v = w

\* As long as nobody stops or restarts a daemon, its state and its failure count
\* follow the life cycle that the State enum documents.
Lifecycle == INSTANCE DaemonLifecycle
    WITH Daemons <- Daemons, MaxFailures <- MaxFailures, state <- state, failures <- failures
LifecycleSpec == Lifecycle!Spec

\* A crashed daemon is tried again until it has failed too often ("restart
\* pending", "Exceeded MAX_FAILURES consecutive restart attempts", the comments
\* on Crashed and Dead): someone is on the way to its next start.
RestartIsPending ==
    \A d \in Daemons :
        state[d] = "Crashed" /\ failures[d] \in 2 .. MaxFailures =>
            \E t \in Tasks : Busy(t, d, {"bury", "backoff", "check", "claim"})

\* A watcher never takes the shutdown of a daemon for a crash (comment of
\* DaemonRuntime::stopping).
CleanStopIsNoCrash ==
    [][\A w \in Watchers :
          task[w].pc = "mark" /\ task'[w].pc # "mark" => ~stopping[Target(w)]]_vars

\* A second CloseRequested is a no-op and the first one runs to completion
\* (comment in stop_one): the application never exits while one of them is
\* waiting for a daemon to go down.
CloseRunsToCompletion ==
    destroyed => \A c \in Closers : task[c].pc \notin StopSection

\* Closing the window ends the application, however the daemons behave: no
\* stop_one waits for ever.
CloseEndsTheApp ==
    \A c \in Closers : task[c].op = "stop_all" ~> destroyed

\* Every command returns to the page that sent it, unless the app has exited.
CommandsReturn ==
    \A u \in Users : task[u].pc # "idle" ~> task[u].pc = "idle" \/ destroyed

=============================================================================
