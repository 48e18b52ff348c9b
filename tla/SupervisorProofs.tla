-------------------------- MODULE SupervisorProofs --------------------------
(***************************************************************************)
(* Theorems about the daemon supervisor, for every set of daemons, every   *)
(* number of commands, windows and watchers, and every interleaving.       *)
(***************************************************************************)
EXTENDS Supervisor, TLAPS

USE OrderAssumption, SetsAssumption

-----------------------------------------------------------------------------
(* Lemmas on how a task moves. *)

\* Going to another place keeps a task's record well formed.
LEMMA GotoType ==
    ASSUME TypeOK, NEW t \in Tasks, NEW pc \in Pcs, Goto(t, pc)
    PROVE  task' \in [Tasks -> TaskRecords]
<1>1. [task[t] EXCEPT !.pc = pc] \in TaskRecords
  BY DEF TypeOK, TaskRecords
<1> QED
  BY <1>1 DEF TypeOK, Goto

\* start_all's loop never leaves the bounds of the topological order.
LEMMA StartReturnsType ==
    ASSUME TypeOK, NEW t \in Tasks
    PROVE  AfterStart(task[t]) \in TaskRecords
<1> DEFINE k == task[t]
<1>1. k \in TaskRecords
  BY DEF TypeOK
<1>2. CASE k.op = "start_all" /\ k.i < Len(Order)
  <2>1. k.i + 1 \in 1 .. Len(Order)
    BY <1>1, <1>2 DEF TaskRecords
  <2> QED
    BY <1>1, <1>2, <2>1 DEF AfterStart, TaskRecords, Pcs
<1>3. CASE ~(k.op = "start_all" /\ k.i < Len(Order))
  BY <1>1, <1>3 DEF AfterStart, TaskRecords, Pcs
<1> QED
  BY <1>2, <1>3

\* Nor does stop_all's, which runs backwards.
LEMMA StopReturnsType ==
    ASSUME TypeOK, NEW t \in Tasks
    PROVE  AfterStop(task[t]) \in TaskRecords
<1> DEFINE k == task[t]
<1>1. k \in TaskRecords
  BY DEF TypeOK
<1>2. CASE k.op = "stop_all" /\ k.i > 1
  <2>1. k.i - 1 \in 1 .. Len(Order)
    BY <1>1, <1>2 DEF TaskRecords
  <2> QED
    BY <1>1, <1>2, <2>1 DEF AfterStop, TaskRecords, Pcs
<1>3. CASE ~(k.op = "stop_all" /\ k.i > 1)
  BY <1>1, <1>3 DEF AfterStop, TaskRecords, Pcs
<1> QED
  BY <1>2, <1>3

LEMMA TargetType ==
    ASSUME TypeOK, NEW t \in Tasks
    PROVE  Target(t) \in Daemons
BY DEF TypeOK, TaskRecords, Target

\* The two ways of returning, seen as updates of the task function.
LEMMA ReturnsType ==
    ASSUME TypeOK, NEW t \in Tasks, StartReturns(t) \/ StopReturns(t)
    PROVE  task' \in [Tasks -> TaskRecords]
BY StartReturnsType, StopReturnsType DEF TypeOK, StartReturns, StopReturns

LEMMA BumpType ==
    ASSUME NEW n \in 0 .. MaxFailures + 1
    PROVE  Bump(n) \in 0 .. MaxFailures + 1
BY DEF Bump

\* One step of any task keeps every variable in its type.
LEMMA TaskStepType ==
    ASSUME TypeOK, NEW t \in Tasks, TaskStep(t)
    PROVE  TypeOK'
<1> USE TargetType, BumpType, GotoType, ReturnsType
<1>1. CASE StartOneCheck(t)
  <2>1. "claim" \in Pcs
    BY DEF Pcs
  <2>2. task' \in [Tasks -> TaskRecords]
    <3>1. CASE shuttingDown
      BY <1>1, <3>1, ReturnsType DEF StartOneCheck
    <3>2. CASE ~shuttingDown
      BY <1>1, <2>1, <3>2, GotoType DEF StartOneCheck
    <3> QED
      BY <3>1, <3>2
  <2> QED
    BY <1>1, <2>2 DEF StartOneCheck, rt, TypeOK
<1>2. CASE StartOneClaim(t)
  <2>1. "prekill" \in Pcs /\ "spawn" \in Pcs
    BY DEF Pcs, StartSection
  <2>2. task' \in [Tasks -> TaskRecords]
    <3>1. CASE StartReturns(t)
      BY <3>1, ReturnsType
    <3>2. CASE \E pc \in Pcs : Goto(t, pc)
      BY <3>2, GotoType
    <3> QED
      BY <1>2, <2>1, <3>1, <3>2 DEF StartOneClaim, Claim
  <2>3. UNCHANGED <<failures, shuttingDown, proc, destroyed, external, signalled>>
    BY <1>2 DEF StartOneClaim, Claim, rt
  <2>4. /\ UNCHANGED state \/ state' = [state EXCEPT ![Target(t)] = "Starting"]
        /\ UNCHANGED stopping \/ stopping' = [stopping EXCEPT ![Target(t)] = FALSE]
    BY <1>2 DEF StartOneClaim, Claim, rt
  <2>5. state' \in [Daemons -> States]
    BY <2>4 DEF TypeOK, States
  <2>6. stopping' \in [Daemons -> BOOLEAN]
    BY <2>4 DEF TypeOK
  <2> QED
    BY <2>2, <2>3, <2>5, <2>6 DEF TypeOK
<1>3. CASE PreKill(t)
  BY <1>3 DEF PreKill, Killed, rt, TypeOK, Pcs, ProcStates, StartSection
<1>4. CASE Spawn(t)
  BY <1>4 DEF Spawn, rt, TypeOK, Pcs, ProcStates, StartSection
<1>5. CASE SpawnFails(t)
  BY <1>5 DEF SpawnFails, rt, TypeOK, States
<1>6. CASE ReadyProbe(t)
  BY <1>6 DEF ReadyProbe, rt, TypeOK, Pcs, StartSection
<1>7. CASE ReadyTimeout(t)
  BY <1>7 DEF ReadyTimeout, rt, TypeOK, States
<1>8. CASE MarkRunning(t)
  <2>1. PICK w \in Watchers :
          task' = [task EXCEPT ![t] = AfterStart(@),
                               ![w] = [pc |-> "poll", i |-> task[t].i,
                                       op |-> "watch"]]
    BY <1>8 DEF MarkRunning, Up
  <2>2. [pc |-> "poll", i |-> task[t].i, op |-> "watch"] \in TaskRecords
    BY DEF TypeOK, TaskRecords, Pcs, WatchSection
  <2>3. task' \in [Tasks -> TaskRecords]
    BY <2>1, <2>2, StartReturnsType DEF TypeOK, Tasks
  <2>4. failures' \in [Daemons -> 0 .. MaxFailures + 1]
    BY <1>8 DEF MarkRunning, Up, TypeOK
  <2>5. state' \in [Daemons -> States]
    BY <1>8 DEF MarkRunning, Up, TypeOK, States
  <2> QED
    BY <1>8, <2>3, <2>4, <2>5 DEF MarkRunning, Up, TypeOK
<1>9. CASE StopOneClaim(t)
  <2>1. CASE StopReturns(t) /\ UNCHANGED rt
    BY <1>9, <2>1 DEF StopOneClaim, rt, TypeOK
  <2>2. CASE Goto(t, IF Target(t) \in external THEN "ext" ELSE "term")
    <3>1. task' \in [Tasks -> TaskRecords]
      BY <2>2 DEF Pcs, StopSection
    <3>2. CASE UNCHANGED rt
      BY <1>9, <3>1, <3>2 DEF StopOneClaim, rt, TypeOK
    <3>3. CASE /\ state' = [state EXCEPT ![Target(t)] = "Stopping"]
               /\ stopping' = [stopping EXCEPT ![Target(t)] = TRUE]
               /\ UNCHANGED failures
      BY <1>9, <3>1, <3>3 DEF StopOneClaim, TypeOK, States
    <3> QED
      BY <1>9, <3>2, <3>3 DEF StopOneClaim
  <2> QED
    BY <1>9, <2>1, <2>2 DEF StopOneClaim
<1>10. CASE Terminate(t)
  BY <1>10 DEF Terminate, Terminated, rt, TypeOK, Pcs, ProcStates, StopSection
<1>11. CASE GraceEnds(t)
  BY <1>11 DEF GraceEnds, rt, TypeOK, Pcs, StopSection
<1>12. CASE Kill(t)
  BY <1>12 DEF Kill, Killed, rt, TypeOK, Pcs, ProcStates, StopSection
<1>13. CASE MarkStopped(t)
  BY <1>13 DEF MarkStopped, rt, TypeOK, States
<1>14. CASE RestartReset(t)
  BY <1>14 DEF RestartReset, rt, TypeOK, Pcs, States
<1>15. CASE WatchPoll(t)
  BY <1>15 DEF WatchPoll, rt, TypeOK, Pcs, WatchSection
<1>16. CASE WatchProbe(t)
  BY <1>16 DEF WatchProbe, rt, TypeOK, Pcs, WatchSection
<1>17. CASE WatchMark(t)
  BY <1>17 DEF WatchMark, rt, TypeOK, Pcs, States, WatchSection
<1>18. CASE WatchBury(t)
  BY <1>18 DEF WatchBury, rt, TypeOK, Pcs, States
<1>19. CASE WatchBackoff(t)
  BY <1>19 DEF WatchBackoff, rt, TypeOK, Pcs
<1>20. CASE Destroy(t)
  BY <1>20 DEF Destroy, rt, TypeOK, Pcs
<1> QED
  BY <1>1, <1>2, <1>3, <1>4, <1>5, <1>6, <1>7, <1>8, <1>9, <1>10, <1>11, <1>12,
     <1>13, <1>14, <1>15, <1>16, <1>17, <1>18, <1>19, <1>20
     DEF TaskStep, StartOne, StopOne, Watch

\* The supervisor's variables always have their types: in particular no loop
\* over the daemons leaves the topological order, and no failure count passes
\* its cap.
THEOREM TypeCorrect == Spec => []TypeOK
<1>1. Init => TypeOK
  <2> SUFFICES ASSUME Init
               PROVE  TypeOK
    OBVIOUS
  <2>1. task \in [Tasks -> TaskRecords]
    BY DEF Init, TaskRecords, Pcs
  <2>2. failures \in [Daemons -> 0 .. MaxFailures + 1]
    BY DEF Init
  <2> QED
    BY <2>1, <2>2 DEF Init, TypeOK, States, ProcStates
<1>2. TypeOK /\ [Next]_vars => TypeOK'
  <2> SUFFICES ASSUME TypeOK, [Next]_vars
               PROVE  TypeOK'
    OBVIOUS
  <2>1. ASSUME NEW t \in Tasks, TaskStep(t)
        PROVE  TypeOK'
    BY <2>1, TaskStepType
  <2>2. ASSUME NEW c \in Closers, CloseRequested(c)
        PROVE  TypeOK'
    <3>1. [pc |-> "halt", i |-> Len(Order), op |-> "stop_all"] \in TaskRecords
      BY DEF TaskRecords, Pcs
    <3> QED
      BY <2>2, <3>1 DEF CloseRequested, TypeOK, rt, Tasks
  <2>3. ASSUME NEW u \in Users, NEW op \in Ops, NEW i \in 1 .. Len(Order),
               UserCall(u, op, i)
        PROVE  TypeOK'
    <3>1. [pc |-> IF op = "start" THEN "check" ELSE "halt", i |-> i, op |-> op]
            \in TaskRecords
      BY DEF TaskRecords, Pcs
    <3> QED
      BY <2>3, <3>1 DEF UserCall, TypeOK, rt, Tasks
  <2>4. ASSUME NEW d \in Daemons,
               PortOpens(d) \/ BootFails(d) \/ DaemonCrashes(d) \/ DaemonExits(d)
        PROVE  TypeOK'
    BY <2>4 DEF PortOpens, BootFails, DaemonCrashes, DaemonExits, ProcStep,
                TypeOK, rt, ProcStates
  <2>5. CASE UNCHANGED vars
    BY <2>5 DEF TypeOK, vars
  <2> QED
    BY <2>1, <2>2, <2>3, <2>4, <2>5 DEF Next
<1> QED
  BY <1>1, <1>2, PTL DEF Spec

-----------------------------------------------------------------------------
(* The transient states Starting and Stopping always have an owner. *)

\* What one step of task t may do to the other tasks and to the daemons: it
\* wakes at most an idle watcher, touches no daemon but its own, and leaves the
\* daemon Starting (Stopping) only from within start_one (stop_one), or as it
\* found it while being in neither.
Others(t) ==
    \A u \in Tasks \ {t} :
        task'[u] = task[u] \/ (task[u].pc = "idle" /\ task'[u].pc = "poll")
Leaves(t, transient, section) ==
    \A d \in Daemons :
        state'[d] = transient =>
            \/ d = Target(t) /\ task'[t].pc \in section /\ task'[t].i = task[t].i
            \/ /\ state[d] = transient
               /\ d = Target(t) => task[t].pc \notin section
Effect(t) ==
    /\ Others(t)
    /\ Leaves(t, "Starting", StartSection)
    /\ Leaves(t, "Stopping", StopSection)

LEMMA TaskStepEffect ==
    ASSUME TypeOK, NEW t \in Tasks, TaskStep(t)
    PROVE  Effect(t)
<1> USE TargetType DEF Effect, Others, Leaves, At, Goto, StartReturns, StopReturns,
                       AfterStart, AfterStop, TypeOK, rt,
                       StartSection, StopSection
<1>1. CASE StartOneCheck(t)
  BY <1>1 DEF StartOneCheck
<1>2. CASE StartOneClaim(t)
  <2>1. CASE StartReturns(t) /\ UNCHANGED rt
    BY <1>2, <2>1 DEF StartOneClaim, Claim
  <2>2. CASE /\ state' = [state EXCEPT ![Target(t)] = "Starting"]
             /\ Goto(t, IF Target(t) \in external THEN "spawn" ELSE "prekill")
    BY <1>2, <2>2 DEF StartOneClaim, Claim
  <2> QED
    BY <1>2, <2>1, <2>2 DEF StartOneClaim, Claim
<1>3. CASE PreKill(t)
  BY <1>3 DEF PreKill
<1>4. CASE Spawn(t)
  BY <1>4 DEF Spawn
<1>5. CASE SpawnFails(t)
  BY <1>5 DEF SpawnFails
<1>6. CASE ReadyProbe(t)
  BY <1>6 DEF ReadyProbe
<1>7. CASE ReadyTimeout(t)
  BY <1>7 DEF ReadyTimeout
<1>8. CASE MarkRunning(t)
  BY <1>8 DEF MarkRunning, Up
<1>9. CASE StopOneClaim(t)
  <2>1. CASE StopReturns(t) /\ UNCHANGED rt
    BY <1>9, <2>1 DEF StopOneClaim
  <2>2. CASE /\ state' = [state EXCEPT ![Target(t)] = "Stopping"]
             /\ Goto(t, IF Target(t) \in external THEN "ext" ELSE "term")
    BY <1>9, <2>2 DEF StopOneClaim
  <2> QED
    BY <1>9, <2>1, <2>2 DEF StopOneClaim
<1>10. CASE Terminate(t)
  BY <1>10 DEF Terminate
<1>11. CASE GraceEnds(t)
  BY <1>11 DEF GraceEnds
<1>12. CASE Kill(t)
  BY <1>12 DEF Kill
<1>13. CASE MarkStopped(t)
  BY <1>13 DEF MarkStopped
<1>14. CASE RestartReset(t)
  BY <1>14 DEF RestartReset
<1>15. CASE WatchPoll(t)
  BY <1>15 DEF WatchPoll
<1>16. CASE WatchProbe(t)
  BY <1>16 DEF WatchProbe
<1>17. CASE WatchMark(t)
  BY <1>17 DEF WatchMark
<1>18. CASE WatchBury(t)
  BY <1>18 DEF WatchBury
<1>19. CASE WatchBackoff(t)
  BY <1>19 DEF WatchBackoff
<1>20. CASE Destroy(t)
  BY <1>20 DEF Destroy
<1> QED
  BY <1>1, <1>2, <1>3, <1>4, <1>5, <1>6, <1>7, <1>8, <1>9, <1>10, <1>11, <1>12, <1>13, <1>14, <1>15, <1>16, <1>17, <1>18, <1>19, <1>20
     DEF TaskStep, StartOne, StopOne, Watch

\* No daemon is ever stuck in Starting or in Stopping: whenever it is in one of
\* them, the start_one or stop_one call that will move it on is still running,
\* whatever commands, crashes and window closings are interleaved.  The two parts
\* are one argument, on the effect of a step on either state.
THEOREM TransientStatesOwned == Spec => []TransientIsOwned
<1> DEFINE Owned == StartingIsOwned /\ StoppingIsOwned
<1>1. Init => Owned
  BY DEF Init, StartingIsOwned, StoppingIsOwned
<1>2. TypeOK /\ Owned /\ [Next]_vars => Owned'
  <2> SUFFICES ASSUME TypeOK, Owned, [Next]_vars
               PROVE  Owned'
    OBVIOUS
  <2> USE DEF StartingIsOwned, StoppingIsOwned, Busy, Target
  <2>1. ASSUME NEW t \in Tasks, TaskStep(t)
        PROVE  Owned'
    <3>1. Effect(t)
      BY <2>1, TaskStepEffect
    <3>2. StartingIsOwned'
      <4> SUFFICES ASSUME NEW d \in Daemons, state'[d] = "Starting"
                   PROVE  \E u \in Tasks : Busy(u, d, StartSection)'
        OBVIOUS
      <4>1. CASE d = Target(t) /\ task'[t].pc \in StartSection /\ task'[t].i = task[t].i
        BY <4>1
      <4>2. CASE state[d] = "Starting" /\ (d = Target(t) => task[t].pc \notin StartSection)
        <5>1. PICK u \in Tasks : Busy(u, d, StartSection)
          BY <4>2
        <5>2. u # t
          BY <4>2, <5>1
        <5>3. task'[u] = task[u]
          BY <3>1, <5>1, <5>2 DEF Effect, Others, StartSection
        <5> QED
          BY <5>1, <5>3
      <4> QED
        BY <3>1, <4>1, <4>2 DEF Effect, Leaves
    <3>3. StoppingIsOwned'
      <4> SUFFICES ASSUME NEW d \in Daemons, state'[d] = "Stopping"
                   PROVE  \E u \in Tasks : Busy(u, d, StopSection)'
        OBVIOUS
      <4>1. CASE d = Target(t) /\ task'[t].pc \in StopSection /\ task'[t].i = task[t].i
        BY <4>1
      <4>2. CASE state[d] = "Stopping" /\ (d = Target(t) => task[t].pc \notin StopSection)
        <5>1. PICK u \in Tasks : Busy(u, d, StopSection)
          BY <4>2
        <5>2. u # t
          BY <4>2, <5>1
        <5>3. task'[u] = task[u]
          BY <3>1, <5>1, <5>2 DEF Effect, Others, StopSection
        <5> QED
          BY <5>1, <5>3
      <4> QED
        BY <3>1, <4>1, <4>2 DEF Effect, Leaves
    <3> QED
      BY <3>2, <3>3
  <2>2. ASSUME NEW c \in Closers, CloseRequested(c)
        PROVE  Owned'
    <3>1. \A u \in Tasks : task'[u] = task[u] \/ task[u].pc = "idle"
      BY <2>2 DEF CloseRequested, At, TypeOK, Tasks
    <3>2. state' = state
      BY <2>2 DEF CloseRequested, rt
    <3> QED
      BY <3>1, <3>2 DEF StartSection, StopSection
  <2>3. ASSUME NEW u \in Users, NEW op \in Ops, NEW i \in 1 .. Len(Order),
               UserCall(u, op, i)
        PROVE  Owned'
    <3>1. \A v \in Tasks : task'[v] = task[v] \/ task[v].pc = "idle"
      BY <2>3 DEF UserCall, At, TypeOK, Tasks
    <3>2. state' = state
      BY <2>3 DEF UserCall, rt
    <3> QED
      BY <3>1, <3>2 DEF StartSection, StopSection
  <2>4. ASSUME NEW d \in Daemons,
               PortOpens(d) \/ BootFails(d) \/ DaemonCrashes(d) \/ DaemonExits(d)
        PROVE  Owned'
    BY <2>4 DEF PortOpens, BootFails, DaemonCrashes, DaemonExits, ProcStep, rt
  <2>5. CASE UNCHANGED vars
    BY <2>5 DEF vars
  <2> QED
    BY <2>1, <2>2, <2>3, <2>4, <2>5 DEF Next
<1> QED
  BY <1>1, <1>2, TypeCorrect, PTL DEF Spec, TransientIsOwned

-----------------------------------------------------------------------------
(* The user's own node is never signalled. *)

\* Only the tasks at these places send a signal next, and none of them works on
\* an external daemon.
Signalling == {"prekill", "term", "grace", "kill"}
Spared == \A t \in Tasks : task[t].pc \in Signalling => Target(t) \notin external

\* A call of start_one that returns leaves its task outside every stop.
LEMMA StartReturnsPc ==
    ASSUME TypeOK, NEW t \in Tasks
    PROVE  AfterStart(task[t]).pc \in {"check", "idle"}
BY DEF TypeOK, TaskRecords, AfterStart

LEMMA TaskStepSpares ==
    ASSUME TypeOK, Spared, NEW t \in Tasks, TaskStep(t)
    PROVE  /\ external' = external
           /\ signalled' \subseteq signalled \cup (Daemons \ external)
           /\ task'[t].pc \in Signalling =>
                  Order[task'[t].i] \notin external
<1> USE TargetType DEF Spared, At, Goto, StartReturns, StopReturns, AfterStart,
                       AfterStop, TypeOK, Signalling
<1>1. CASE StartOneCheck(t)
  <2>1. task'[t].pc \in {"check", "claim", "idle"}
    <3>1. CASE task' = [task EXCEPT ![t] = AfterStart(@)]
      BY <3>1, StartReturnsPc
    <3>2. CASE task' = [task EXCEPT ![t].pc = "claim"]
      BY <3>2
    <3> QED
      BY <1>1, <3>1, <3>2 DEF StartOneCheck
  <2> QED
    BY <1>1, <2>1 DEF StartOneCheck
<1>2. CASE StartOneClaim(t)
  <2>1. CASE StartReturns(t)
    BY <1>2, <2>1 DEF StartOneClaim, Claim, Target
  <2>2. CASE Goto(t, IF Target(t) \in external THEN "spawn" ELSE "prekill")
    BY <1>2, <2>2 DEF StartOneClaim, Claim, Target
  <2> QED
    BY <1>2, <2>1, <2>2 DEF StartOneClaim, Claim
<1>3. CASE PreKill(t)
  <2>1. Target(t) \in Daemons \ external
    BY <1>3 DEF PreKill
  <2> QED
    BY <1>3, <2>1 DEF PreKill, Target
<1>4. CASE Spawn(t)
  BY <1>4 DEF Spawn, Target
<1>5. CASE SpawnFails(t)
  BY <1>5 DEF SpawnFails, Target
<1>6. CASE ReadyProbe(t)
  BY <1>6 DEF ReadyProbe, Target
<1>7. CASE ReadyTimeout(t)
  BY <1>7 DEF ReadyTimeout, Target
<1>8. CASE MarkRunning(t)
  <2>1. task'[t].pc \in {"check", "idle", "poll"}
    <3>1. PICK w \in Watchers :
            task' = [task EXCEPT ![t] = AfterStart(@),
                                 ![w] = [pc |-> "poll", i |-> task[t].i,
                                         op |-> "watch"]]
      BY <1>8 DEF MarkRunning, Up
    <3>2. CASE w = t
      BY <3>1, <3>2 DEF Tasks
    <3>3. CASE w # t
      BY <3>1, <3>3, StartReturnsPc DEF Tasks
    <3> QED
      BY <3>2, <3>3
  <2> QED
    BY <1>8, <2>1 DEF MarkRunning, Up
<1>9. CASE StopOneClaim(t)
  <2>1. CASE StopReturns(t)
    BY <1>9, <2>1 DEF StopOneClaim, Target
  <2>2. CASE Goto(t, IF Target(t) \in external THEN "ext" ELSE "term")
    BY <1>9, <2>2 DEF StopOneClaim, Target
  <2> QED
    BY <1>9, <2>1, <2>2 DEF StopOneClaim
<1>10. CASE Terminate(t)
  <2>1. Target(t) \in Daemons \ external
    BY <1>10 DEF Terminate
  <2> QED
    BY <1>10, <2>1 DEF Terminate, Target
<1>11. CASE GraceEnds(t)
  BY <1>11 DEF GraceEnds, Target
<1>12. CASE Kill(t)
  <2>1. Target(t) \in Daemons \ external
    BY <1>12 DEF Kill
  <2> QED
    BY <1>12, <2>1 DEF Kill, Target
<1>13. CASE MarkStopped(t)
  BY <1>13 DEF MarkStopped, Target
<1>14. CASE RestartReset(t)
  BY <1>14 DEF RestartReset, Target
<1>15. CASE WatchPoll(t)
  BY <1>15 DEF WatchPoll, Target
<1>16. CASE WatchProbe(t)
  BY <1>16 DEF WatchProbe, Target
<1>17. CASE WatchMark(t)
  BY <1>17 DEF WatchMark, Target
<1>18. CASE WatchBury(t)
  BY <1>18 DEF WatchBury, Target
<1>19. CASE WatchBackoff(t)
  BY <1>19 DEF WatchBackoff, Target
<1>20. CASE Destroy(t)
  BY <1>20 DEF Destroy, Target
<1> QED
  BY <1>1, <1>2, <1>3, <1>4, <1>5, <1>6, <1>7, <1>8, <1>9, <1>10, <1>11, <1>12, <1>13, <1>14, <1>15, <1>16, <1>17, <1>18, <1>19, <1>20
     DEF TaskStep, StartOne, StopOne, Watch

\* The supervisor never signals an externally managed daemon, the user's own
\* node: neither before it spawns one, nor when it stops, restarts or closes.
THEOREM ExternalSpared == Spec => []ExternalNeverSignalled
<1> DEFINE SInv == Spared /\ ExternalNeverSignalled
<1>1. Init => SInv
  BY DEF Init, Spared, Signalling, ExternalNeverSignalled
<1>2. TypeOK /\ SInv /\ [Next]_vars => SInv'
  <2> SUFFICES ASSUME TypeOK, SInv, [Next]_vars
               PROVE  SInv'
    OBVIOUS
  <2> USE DEF Spared, ExternalNeverSignalled, Target
  <2>1. ASSUME NEW t \in Tasks, TaskStep(t)
        PROVE  SInv'
    <3>1. Others(t)
      BY <2>1, TaskStepEffect DEF Effect
    <3>2. /\ external' = external
          /\ signalled' \subseteq signalled \cup (Daemons \ external)
          /\ task'[t].pc \in Signalling => Order[task'[t].i] \notin external
      BY <2>1, TaskStepSpares
    <3>3. ASSUME NEW u \in Tasks, task'[u].pc \in Signalling
          PROVE  Order[task'[u].i] \notin external
      <4>1. CASE u = t
        BY <3>2, <3>3, <4>1
      <4>2. CASE u # t
        BY <3>1, <3>3, <4>2 DEF Others, Signalling
      <4> QED
        BY <4>1, <4>2
    <3> QED
      BY <3>2, <3>3
  <2>2. ASSUME NEW c \in Closers, CloseRequested(c)
        PROVE  SInv'
    BY <2>2 DEF CloseRequested, rt, TypeOK, Tasks, Signalling
  <2>3. ASSUME NEW u \in Users, NEW op \in Ops, NEW i \in 1 .. Len(Order),
               UserCall(u, op, i)
        PROVE  SInv'
    BY <2>3 DEF UserCall, rt, TypeOK, Tasks, Signalling
  <2>4. ASSUME NEW d \in Daemons,
               PortOpens(d) \/ BootFails(d) \/ DaemonCrashes(d) \/ DaemonExits(d)
        PROVE  SInv'
    BY <2>4 DEF PortOpens, BootFails, DaemonCrashes, DaemonExits, ProcStep
  <2>5. CASE UNCHANGED vars
    BY <2>5 DEF vars
  <2> QED
    BY <2>1, <2>2, <2>3, <2>4, <2>5 DEF Next
<1> QED
  BY <1>1, <1>2, TypeCorrect, PTL DEF Spec

-----------------------------------------------------------------------------
(***************************************************************************)
(* What the supervisor guarantees until the first stop: one start_one at a *)
(* time per daemon, one watcher per running daemon, and the life cycle     *)
(* that the State enum documents (DaemonLifecycle), also between several   *)
(* start_one calls for one daemon by start_all, commands and watchers.     *)
(***************************************************************************)

\* Nobody has stopped a daemon so far: no window was closed, no stop or restart
\* command was sent and the wedge detector has not fired.
Quiet ==
    /\ ~shuttingDown
    /\ \A t \in Tasks : task[t].op \notin {"stop", "restart", "wedge", "stop_all"}

Watching == {"poll", "wprobe", "mark"}
Stopping == StopSection \cup {"halt", "reset", "destroy"}

\* The inductive invariant of the quiet part of a run.  Whoever is past the claim
\* of start_one holds the daemon in Starting, whoever watches holds it in
\* Running, and each is alone; a Running daemon has no failure on record, so that
\* a watcher never counts more than one and never gives a daemon up.
NoStops == \A t \in Tasks : task[t].pc \notin Stopping
NotStopping == \A d \in Daemons : ~stopping[d]
StartersHold ==
    \A t \in Tasks : task[t].pc \in StartSection => state[Target(t)] = "Starting"
WatchersHold ==
    \A t \in Tasks :
        task[t].pc \in Watching => t \in Watchers /\ state[Target(t)] = "Running"
Alone(section) ==
    \A t, u \in Tasks :
        /\ task[t].pc \in section /\ task[u].pc \in section
        /\ Target(t) = Target(u)
        => t = u
RunningWatched ==
    \A d \in Daemons :
        state[d] = "Running" =>
            failures[d] = 0 /\ \E w \in Watchers : Busy(w, d, Watching)
NeverDead ==
    /\ \A d \in Daemons : state[d] \in {"Stopped", "Starting", "Running", "Crashed"}
    /\ \A t \in Tasks : task[t].pc # "bury"

QuietInv ==
    /\ NoStops /\ NotStopping /\ StartersHold /\ WatchersHold
    /\ Alone(StartSection) /\ Alone(Watching)
    /\ RunningWatched /\ NeverDead

-----------------------------------------------------------------------------
(* What a step of a task can do while it is quiet: one of the steps of the  *)
(* life cycle, or nothing to state and failures.                            *)

Becomes(d, to, n) ==
    /\ state' = [state EXCEPT ![d] = to]
    /\ failures' = [failures EXCEPT ![d] = n]

\* Task t moves on by itself, within its section or to a place that holds nothing.
Walks(t) ==
    /\ \A u \in Tasks \ {t} : task'[u] = task[u]
    /\ task'[t].pc \in Pcs \ (Stopping \cup {"bury"})

Idles(t) ==
    /\ Walks(t) /\ UNCHANGED <<state, failures>>
    /\ task'[t].pc \in StartSection \cup Watching => task'[t].i = task[t].i
    /\ task'[t].pc \in StartSection => task[t].pc \in StartSection
    /\ task'[t].pc \in Watching <=> task[t].pc \in Watching
Claims(t) ==
    /\ Walks(t) /\ state[Target(t)] \notin {"Starting", "Running"}
    /\ Becomes(Target(t), "Starting", failures[Target(t)])
    /\ task[t].pc = "claim"
    /\ task'[t].pc \in StartSection /\ task'[t].i = task[t].i
Fails(t) ==
    /\ Walks(t) /\ task[t].pc \in StartSection
    /\ Becomes(Target(t), "Crashed", Bump(failures[Target(t)]))
    /\ task'[t].pc \in {"check", "idle"}
ComesUp(t) ==
    /\ task[t].pc \in StartSection
    /\ Becomes(Target(t), "Running", 0)
    /\ \E w \in Watchers :
         /\ w = t \/ task[w].pc = "idle"
         /\ task'[w].pc = "poll" /\ task'[w].i = task[t].i
         /\ w # t => task'[t].pc \in {"check", "idle"}
         /\ \A u \in Tasks \ {t, w} : task'[u] = task[u]
Crashes(t) ==
    /\ Walks(t) /\ task[t].pc \in Watching
    /\ Becomes(Target(t), "Crashed", 1)
    /\ task'[t].pc = "backoff"

QuietStep(t) == Idles(t) \/ Claims(t) \/ Fails(t) \/ ComesUp(t) \/ Crashes(t)

LEMMA ReturnsQuietly ==
    ASSUME TypeOK, NEW t \in Tasks, StartReturns(t)
    PROVE  /\ \A u \in Tasks \ {t} : task'[u] = task[u]
           /\ task'[t].pc \in {"check", "idle"}
BY StartReturnsPc DEF StartReturns, TypeOK

LEMMA GoesQuietly ==
    ASSUME TypeOK, NEW t \in Tasks, NEW pc \in Pcs, Goto(t, pc)
    PROVE  /\ \A u \in Tasks \ {t} : task'[u] = task[u]
           /\ task'[t].pc = pc /\ task'[t].i = task[t].i
BY DEF Goto, TypeOK, TaskRecords

\* Every step of a task is one of the five.  The steps of stop_one and of
\* restart_one cannot be taken, and a watcher never finds too many failures.
LEMMA TaskStepIsQuiet ==
    ASSUME TypeOK, QuietInv, ~shuttingDown, MaxFailures > 0,
           NEW t \in Tasks, TaskStep(t)
    PROVE  QuietStep(t)
<1> DEFINE d == Target(t)
<1> USE TargetType, ReturnsQuietly, GoesQuietly
    DEF QuietStep, Walks, Becomes, At, Stopping, Watching, Pcs,
        StartSection, StopSection, WatchSection, rt
<1>0. /\ d \in Daemons /\ state \in [Daemons -> States]
      /\ failures \in [Daemons -> 0 .. MaxFailures + 1]
      /\ state = [state EXCEPT ![d] = state[d]]
      /\ failures = [failures EXCEPT ![d] = failures[d]]
  BY DEF TypeOK
<1>1. CASE StartOneCheck(t)
  BY <1>1 DEF StartOneCheck, Idles
<1>2. CASE StartOneClaim(t)
  <2>1. CASE StartReturns(t) /\ UNCHANGED rt
    BY <1>2, <2>1 DEF StartOneClaim, Claim, Idles
  <2>2. CASE /\ state[d] \notin {"Starting", "Running"}
             /\ state' = [state EXCEPT ![d] = "Starting"]
             /\ failures' = failures
             /\ Goto(t, IF d \in external THEN "spawn" ELSE "prekill")
    BY <1>0, <1>2, <2>2 DEF StartOneClaim, Claim, Claims
  <2> QED
    BY <1>2, <2>1, <2>2 DEF StartOneClaim, Claim
<1>3. CASE PreKill(t)
  BY <1>3 DEF PreKill, Idles
<1>4. CASE Spawn(t)
  BY <1>4 DEF Spawn, Idles
<1>5. CASE SpawnFails(t)
  BY <1>5 DEF SpawnFails, Fails
<1>6. CASE ReadyProbe(t)
  BY <1>6 DEF ReadyProbe, Idles
<1>7. CASE ReadyTimeout(t)
  BY <1>7 DEF ReadyTimeout, Fails
<1>8. CASE MarkRunning(t)
  <2>1. PICK w \in Watchers :
          /\ task[w].pc = "idle" \/ w = t
          /\ task' = [task EXCEPT ![t] = AfterStart(@),
                               ![w] = [pc |-> "poll", i |-> task[t].i,
                                       op |-> "watch"]]
    BY <1>8 DEF MarkRunning, Up
  <2>2. /\ task'[w].pc = "poll" /\ task'[w].i = task[t].i
        /\ w # t => task'[t] = AfterStart(task[t])
        /\ \A u \in Tasks \ {t, w} : task'[u] = task[u]
    BY <2>1 DEF Tasks, TypeOK
  <2>3. Becomes(d, "Running", 0)
    BY <1>8 DEF MarkRunning, Up
  <2> QED
    BY <1>8, <2>1, <2>2, <2>3, StartReturnsPc DEF ComesUp, MarkRunning, Up
<1>9. CASE StopOne(t) \/ RestartReset(t) \/ Destroy(t) \/ WatchBury(t)
  BY <1>9 DEF StopOne, StopOneClaim, Terminate, GraceEnds, Kill, MarkStopped,
              RestartReset, Destroy, WatchBury, QuietInv, NoStops, NeverDead
<1>10. CASE WatchPoll(t)
  <2>1. state[d] = "Running" /\ ~stopping[d]
    BY <1>0, <1>10 DEF WatchPoll, QuietInv, WatchersHold, NotStopping
  <2>2. Goto(t, "wprobe")
    BY <1>10, <2>1 DEF WatchPoll
  <2> QED
    BY <1>10, <2>2 DEF WatchPoll, Idles
<1>11. CASE WatchProbe(t)
  BY <1>11 DEF WatchProbe, Idles
<1>12. CASE WatchMark(t)
  <2>1. state[d] = "Running"
    BY <1>12 DEF WatchMark, QuietInv, WatchersHold
  <2>2. failures[d] = 0
    BY <1>0, <2>1 DEF QuietInv, RunningWatched
  <2>3. Bump(failures[d]) = 1
    BY <2>2 DEF Bump
  <2>4. failures' = [failures EXCEPT ![d] = 1]
    BY <1>12, <2>3 DEF WatchMark, Goto
  <2>5. ~(failures'[d] > MaxFailures)
    BY <1>0, <2>4
  <2>6. Goto(t, "backoff")
    BY <1>12, <2>5 DEF WatchMark, Goto
  <2>7. /\ state' = [state EXCEPT ![d] = "Crashed"]
        /\ task[t].pc = "mark"
    BY <1>12 DEF WatchMark, Goto
  <2> QED
    BY <2>4, <2>6, <2>7 DEF Crashes
<1>13. CASE WatchBackoff(t)
  BY <1>13 DEF WatchBackoff, Idles
<1> QED
  BY <1>1, <1>2, <1>3, <1>4, <1>5, <1>6, <1>7, <1>8, <1>9, <1>10, <1>11, <1>12,
     <1>13 DEF TaskStep, StartOne, Watch

\* And none of them marks a daemon as being stopped.
LEMMA TaskStepStopsNothing ==
    ASSUME TypeOK, QuietInv, NEW t \in Tasks, TaskStep(t)
    PROVE  NotStopping'
<1>1. CASE StopOneClaim(t)
  BY <1>1 DEF StopOneClaim, At, QuietInv, NoStops, Stopping
<1>2. CASE StartOneClaim(t)
  BY <1>2 DEF StartOneClaim, Claim, rt, QuietInv, NotStopping, TypeOK
<1>3. ASSUME ~StopOneClaim(t), ~StartOneClaim(t)
      PROVE  stopping' = stopping
  <2> USE DEF rt
  <2>1. CASE StartOne(t)
    BY <1>3, <2>1 DEF StartOne, StartOneCheck, PreKill, Spawn, SpawnFails,
                      ReadyProbe, ReadyTimeout, MarkRunning, Up
  <2>2. CASE StopOne(t)
    BY <1>3, <2>2 DEF StopOne, Terminate, GraceEnds, Kill, MarkStopped
  <2>3. CASE WatchMark(t)
    BY <2>3 DEF WatchMark, Goto
  <2>4. CASE ~WatchMark(t) /\ (RestartReset(t) \/ Watch(t) \/ Destroy(t))
    BY <2>4 DEF RestartReset, Watch, WatchPoll, WatchProbe, WatchBury,
                WatchBackoff, Destroy
  <2> QED
    BY <2>1, <2>2, <2>3, <2>4 DEF TaskStep, Watch
<1> QED
  BY <1>1, <1>2, <1>3 DEF QuietInv, NotStopping

-----------------------------------------------------------------------------
(* The five steps preserve the invariant. *)

\* Task u is in the section, at the place of the list where it was before.
Stays(u, S) == task[u].pc \in S /\ task'[u].i = task[u].i

\* If nobody enters a section, whoever is in it remains alone; and the same if a
\* task enters it for a daemon for which nobody is in it.
LEMMA AloneKept ==
    ASSUME NEW S, Alone(S), \A u \in Tasks : task'[u].pc \in S => Stays(u, S)
    PROVE  Alone(S)'
BY DEF Alone, Stays, Target

LEMMA AloneGained ==
    ASSUME NEW S, Alone(S), NEW v \in Tasks, NEW d, Order[task'[v].i] = d,
           \A u \in Tasks \ {v} : task'[u].pc \in S => Stays(u, S),
           \A u \in Tasks \ {v} : task'[u].pc \in S => Target(u) # d
    PROVE  Alone(S)'
BY DEF Alone, Stays, Target

\* A step that moves only its own task neither stops nor buries a daemon.
LEMMA WalkKeeps ==
    ASSUME QuietInv, NEW t \in Tasks, Walks(t)
    PROVE  /\ NoStops'
           /\ \A u \in Tasks : task'[u].pc # "bury"
BY DEF Walks, QuietInv, NoStops, NeverDead

LEMMA SectionsApart ==
    /\ StartSection \cap Watching = {}
    /\ "idle" \notin StartSection \cup Watching
    /\ "check" \notin StartSection \cup Watching
    /\ "claim" \notin StartSection \cup Watching
    /\ "backoff" \notin StartSection \cup Watching
    /\ "poll" \in Watching
BY DEF StartSection, Watching

LEMMA IdlesKeeps ==
    ASSUME TypeOK, QuietInv, NotStopping', NEW t \in Tasks, Idles(t)
    PROVE  QuietInv'
<1>1. NoStops' /\ \A u \in Tasks : task'[u].pc # "bury"
  BY WalkKeeps DEF Idles
<1>2. \A u \in Tasks : /\ task'[u].pc \in StartSection => Stays(u, StartSection)
                       /\ task'[u].pc \in Watching => Stays(u, Watching)
  BY DEF Idles, Walks, Stays
<1>3. Alone(StartSection)' /\ Alone(Watching)'
  BY <1>2, AloneKept DEF QuietInv
<1>4. StartersHold' /\ WatchersHold'
  BY <1>2 DEF Idles, QuietInv, StartersHold, WatchersHold, Stays, Target
<1>5. RunningWatched'
  BY DEF Idles, Walks, QuietInv, RunningWatched, Busy, Target, Tasks
<1> QED
  BY <1>1, <1>3, <1>4, <1>5 DEF Idles, QuietInv, NeverDead

LEMMA ClaimsKeeps ==
    ASSUME TypeOK, QuietInv, NotStopping', NEW t \in Tasks, Claims(t)
    PROVE  QuietInv'
<1> DEFINE d == Target(t)
<1>0. /\ d \in Daemons /\ state[d] \notin {"Starting", "Running"}
      /\ state'[d] = "Starting" /\ failures' = failures
      /\ \A e \in Daemons \ {d} : state'[e] = state[e]
  BY TargetType DEF Claims, Becomes, TypeOK
<1>1. NoStops' /\ \A u \in Tasks : task'[u].pc # "bury"
  BY WalkKeeps DEF Claims
<1>2. /\ task[t].pc = "claim" /\ task'[t].pc \in StartSection /\ Order[task'[t].i] = d
      /\ \A u \in Tasks \ {t} : task'[u] = task[u]
  BY DEF Claims, Walks, Target
<1>3. Alone(StartSection)'
  <2>1. \A u \in Tasks \ {t} : task'[u].pc \in StartSection =>
          Stays(u, StartSection) /\ Target(u) # d
    BY <1>0, <1>2 DEF Stays, QuietInv, StartersHold
  <2> QED
    BY <1>2, <2>1, AloneGained DEF QuietInv
<1>4. \A u \in Tasks : task'[u].pc \in Watching => u # t /\ Stays(u, Watching)
  BY <1>2, SectionsApart DEF Stays
<1>5. Alone(Watching)'
  BY <1>4, AloneKept DEF QuietInv
<1>6. StartersHold'
  BY <1>0, <1>2, TargetType DEF QuietInv, StartersHold, Target
<1>7. WatchersHold'
  BY <1>0, <1>2, <1>4, TargetType DEF QuietInv, WatchersHold, Target
<1>8. RunningWatched'
  BY <1>0, <1>2, SectionsApart DEF QuietInv, RunningWatched, Busy, Target, Tasks
<1> QED
  BY <1>0, <1>1, <1>3, <1>5, <1>6, <1>7, <1>8 DEF QuietInv, NeverDead

LEMMA FailsKeeps ==
    ASSUME TypeOK, QuietInv, NotStopping', NEW t \in Tasks, Fails(t)
    PROVE  QuietInv'
<1> DEFINE d == Target(t)
<1>0. /\ d \in Daemons /\ state[d] = "Starting" /\ state'[d] = "Crashed"
      /\ \A e \in Daemons \ {d} : state'[e] = state[e] /\ failures'[e] = failures[e]
  BY TargetType DEF Fails, Becomes, TypeOK, QuietInv, StartersHold
<1>1. NoStops' /\ \A u \in Tasks : task'[u].pc # "bury"
  BY WalkKeeps DEF Fails
<1>2. /\ task[t].pc \in StartSection /\ task'[t].pc \notin StartSection \cup Watching
      /\ \A u \in Tasks \ {t} : task'[u] = task[u]
  BY SectionsApart DEF Fails, Walks
<1>3. \A u \in Tasks : /\ task'[u].pc \in StartSection => u # t /\ Stays(u, StartSection)
                       /\ task'[u].pc \in Watching => u # t /\ Stays(u, Watching)
  BY <1>2 DEF Stays
<1>4. Alone(StartSection)' /\ Alone(Watching)'
  BY <1>3, AloneKept DEF QuietInv
<1>5. StartersHold'
  <2>1. \A u \in Tasks \ {t} : task[u].pc \in StartSection => Target(u) # d
    BY <1>2 DEF QuietInv, Alone
  <2> QED
    BY <1>0, <1>2, <2>1, TargetType DEF QuietInv, StartersHold, Target
<1>6. WatchersHold'
  BY <1>0, <1>2, TargetType DEF QuietInv, WatchersHold, Target
<1>7. RunningWatched'
  BY <1>0, <1>2, SectionsApart DEF QuietInv, RunningWatched, Busy, Target, Tasks
<1> QED
  BY <1>0, <1>1, <1>4, <1>5, <1>6, <1>7 DEF QuietInv, NeverDead

LEMMA CrashesKeeps ==
    ASSUME TypeOK, QuietInv, NotStopping', NEW t \in Tasks, Crashes(t)
    PROVE  QuietInv'
<1> DEFINE d == Target(t)
<1>0. /\ d \in Daemons /\ state[d] = "Running" /\ state'[d] = "Crashed"
      /\ \A e \in Daemons \ {d} : state'[e] = state[e] /\ failures'[e] = failures[e]
  BY TargetType DEF Crashes, Becomes, TypeOK, QuietInv, WatchersHold
<1>1. NoStops' /\ \A u \in Tasks : task'[u].pc # "bury"
  BY WalkKeeps DEF Crashes
<1>2. /\ task[t].pc \in Watching /\ task'[t].pc \notin StartSection \cup Watching
      /\ \A u \in Tasks \ {t} : task'[u] = task[u]
  BY SectionsApart DEF Crashes, Walks
<1>3. \A u \in Tasks : /\ task'[u].pc \in StartSection => u # t /\ Stays(u, StartSection)
                       /\ task'[u].pc \in Watching => u # t /\ Stays(u, Watching)
  BY <1>2 DEF Stays
<1>4. Alone(StartSection)' /\ Alone(Watching)'
  BY <1>3, AloneKept DEF QuietInv
<1>5. StartersHold'
  BY <1>0, <1>2, TargetType DEF QuietInv, StartersHold, Target
<1>6. WatchersHold'
  <2>1. \A u \in Tasks \ {t} : task[u].pc \in Watching => Target(u) # d
    BY <1>2 DEF QuietInv, Alone
  <2> QED
    BY <1>0, <1>2, <2>1, TargetType DEF QuietInv, WatchersHold, Target
<1>7. RunningWatched'
  BY <1>0, <1>2, SectionsApart DEF QuietInv, RunningWatched, Busy, Target, Tasks
<1> QED
  BY <1>0, <1>1, <1>4, <1>5, <1>6, <1>7 DEF QuietInv, NeverDead

LEMMA ComesUpKeeps ==
    ASSUME TypeOK, QuietInv, NotStopping', NEW t \in Tasks, ComesUp(t)
    PROVE  QuietInv'
<1> DEFINE d == Target(t)
<1>0. /\ d \in Daemons /\ state[d] = "Starting" /\ state'[d] = "Running"
      /\ failures'[d] = 0
      /\ \A e \in Daemons \ {d} : state'[e] = state[e] /\ failures'[e] = failures[e]
  BY TargetType DEF ComesUp, Becomes, TypeOK, QuietInv, StartersHold
<1>1. PICK w \in Watchers :
        /\ w = t \/ task[w].pc = "idle"
        /\ task'[w].pc = "poll" /\ task'[w].i = task[t].i
        /\ w # t => task'[t].pc \in {"check", "idle"}
        /\ \A u \in Tasks \ {t, w} : task'[u] = task[u]
  BY DEF ComesUp
<1>2. w \in Tasks /\ Order[task'[w].i] = d /\ task[t].pc \in StartSection
  BY <1>1 DEF ComesUp, Target, Tasks
<1>3. \A u \in Tasks : \/ u = w
                       \/ u = t /\ task'[u].pc \in {"check", "idle"}
                       \/ u # t /\ u # w /\ task'[u] = task[u]
  BY <1>1
<1>4. NoStops' /\ \A u \in Tasks : task'[u].pc # "bury"
  BY <1>1, <1>3 DEF QuietInv, NoStops, NeverDead, Stopping, StopSection
<1>5. \A u \in Tasks : task'[u].pc \in StartSection =>
          u # t /\ u # w /\ Stays(u, StartSection)
  BY <1>1, <1>3, SectionsApart DEF Stays
<1>6. \A u \in Tasks \ {w} : task'[u].pc \in Watching =>
          u # t /\ Stays(u, Watching) /\ Target(u) # d
  BY <1>0, <1>3, SectionsApart DEF Stays, QuietInv, WatchersHold
<1>7. Alone(StartSection)' /\ Alone(Watching)'
  BY <1>2, <1>5, <1>6, AloneKept, AloneGained DEF QuietInv
<1>8. StartersHold'
  <2>1. \A u \in Tasks \ {t} : task[u].pc \in StartSection => Target(u) # d
    BY <1>2 DEF QuietInv, Alone
  <2> QED
    BY <1>0, <1>5, <2>1, TargetType DEF QuietInv, StartersHold, Stays, Target
<1>9. WatchersHold'
  BY <1>0, <1>2, <1>6, TargetType DEF QuietInv, WatchersHold, Stays, Target
<1>10. RunningWatched'
  <2> SUFFICES ASSUME NEW e \in Daemons, state'[e] = "Running"
               PROVE  failures'[e] = 0 /\ \E v \in Watchers : Busy(v, e, Watching)'
    BY DEF RunningWatched
  <2>1. CASE e = d
    BY <1>0, <1>1, <1>2, <2>1, SectionsApart DEF Busy, Target
  <2>2. CASE e # d
    <3>1. state[e] = "Running" /\ failures'[e] = failures[e]
      BY <1>0, <2>2
    <3>2. PICK v \in Watchers : Busy(v, e, Watching)
      BY <3>1 DEF QuietInv, RunningWatched
    <3>3. v # t /\ v # w /\ v \in Tasks
      BY <1>1, <1>2, <2>2, <3>2, SectionsApart DEF Busy, Tasks
    <3> QED
      BY <1>3, <3>1, <3>2, <3>3 DEF QuietInv, RunningWatched, Busy, Target
  <2> QED
    BY <2>1, <2>2
<1> QED
  BY <1>0, <1>4, <1>7, <1>8, <1>9, <1>10 DEF QuietInv, NeverDead

LEMMA QuietStepKeeps ==
    ASSUME TypeOK, QuietInv, NotStopping', NEW t \in Tasks, QuietStep(t)
    PROVE  QuietInv'
BY IdlesKeeps, ClaimsKeeps, FailsKeeps, CrashesKeeps, ComesUpKeeps DEF QuietStep

-----------------------------------------------------------------------------
(* Once disturbed, always disturbed. *)

\* A watcher's record never says that it runs a command.
WatcherOps == \A w \in Watchers : task[w].op \in {"none", "watch"}

LEMMA GotoKeepsOps ==
    ASSUME TypeOK, NEW t \in Tasks, NEW pc, Goto(t, pc)
    PROVE  \A u \in Tasks : task'[u].op = task[u].op
BY DEF Goto, TypeOK, TaskRecords

LEMMA ReturnsKeepOps ==
    ASSUME TypeOK, NEW t \in Tasks, StartReturns(t) \/ StopReturns(t)
    PROVE  \A u \in Tasks : task'[u].op = task[u].op
<1>1. AfterStart(task[t]).op = task[t].op /\ AfterStop(task[t]).op = task[t].op
  BY DEF AfterStart, AfterStop, TypeOK, TaskRecords
<1> QED
  BY <1>1 DEF StartReturns, StopReturns, TypeOK

LEMMA TaskStepOps ==
    ASSUME TypeOK, NEW t \in Tasks, TaskStep(t)
    PROVE  /\ shuttingDown' = shuttingDown
           /\ \A u \in Tasks : \/ task'[u].op = task[u].op
                               \/ u \in Watchers /\ task'[u].op = "watch"
<1> USE GotoKeepsOps, ReturnsKeepOps
<1>1. CASE StartOneCheck(t) \/ PreKill(t) \/ Spawn(t) \/ SpawnFails(t)
           \/ ReadyProbe(t) \/ ReadyTimeout(t)
  BY <1>1 DEF StartOneCheck, PreKill, Spawn, SpawnFails, ReadyProbe, ReadyTimeout
<1>2. CASE StartOneClaim(t)
  BY <1>2 DEF StartOneClaim, Claim
<1>3. CASE MarkRunning(t)
  <2>1. AfterStart(task[t]).op = task[t].op
    BY DEF AfterStart, TypeOK, TaskRecords
  <2>2. PICK w \in Watchers :
          task' = [task EXCEPT ![t] = AfterStart(@),
                               ![w] = [pc |-> "poll", i |-> task[t].i,
                                       op |-> "watch"]]
    BY <1>3 DEF MarkRunning, Up
  <2>3. task'[w].op = "watch" /\ \A u \in Tasks \ {w} : task'[u].op = task[u].op
    BY <2>1, <2>2 DEF Tasks, TypeOK
  <2> QED
    BY <1>3, <2>3 DEF MarkRunning, Up
<1>4. CASE StopOne(t)
  BY <1>4 DEF StopOne, StopOneClaim, Terminate, GraceEnds, Kill, MarkStopped
<1>5. CASE WatchMark(t)
  BY <1>5 DEF WatchMark, Goto, TypeOK, TaskRecords
<1>6. CASE WatchPoll(t) \/ WatchProbe(t) \/ WatchBury(t) \/ WatchBackoff(t)
           \/ RestartReset(t)
  BY <1>6 DEF WatchPoll, WatchProbe, WatchBury, WatchBackoff, RestartReset
<1>7. CASE Destroy(t)
  BY <1>7 DEF Destroy
<1> QED
  BY <1>1, <1>2, <1>3, <1>4, <1>5, <1>6, <1>7 DEF TaskStep, StartOne, Watch

LEMMA WatchersRunNoCommand == Spec => []WatcherOps
<1>1. Init => WatcherOps
  BY TasksAssumption DEF Init, WatcherOps, Tasks
<1>2. TypeOK /\ WatcherOps /\ [Next]_vars => WatcherOps'
  <2> SUFFICES ASSUME TypeOK, WatcherOps, [Next]_vars
               PROVE  WatcherOps'
    OBVIOUS
  <2> USE DEF WatcherOps
  <2>1. ASSUME NEW t \in Tasks, TaskStep(t)
        PROVE  WatcherOps'
    BY <2>1, TaskStepOps DEF Tasks
  <2>2. ASSUME NEW c \in Closers, CloseRequested(c)
        PROVE  WatcherOps'
    BY <2>2, TasksAssumption DEF CloseRequested
  <2>3. ASSUME NEW u \in Users, NEW op \in Ops, NEW i \in 1 .. Len(Order),
               UserCall(u, op, i)
        PROVE  WatcherOps'
    BY <2>3, TasksAssumption DEF UserCall
  <2>4. ASSUME NEW d \in Daemons,
               PortOpens(d) \/ BootFails(d) \/ DaemonCrashes(d) \/ DaemonExits(d)
        PROVE  WatcherOps'
    BY <2>4 DEF PortOpens, BootFails, DaemonCrashes, DaemonExits, ProcStep
  <2>5. CASE UNCHANGED vars
    BY <2>5 DEF vars
  <2> QED
    BY <2>1, <2>2, <2>3, <2>4, <2>5 DEF Next
<1> QED
  BY <1>1, <1>2, TypeCorrect, PTL DEF Spec

\* A step into a quiet state starts from one; other than a step of a task it is
\* a start command, or leaves the supervisor as it is.
StartCommand(u) ==
    /\ task[u].pc = "idle" /\ task'[u].pc = "check"
    /\ \A v \in Tasks \ {u} : task'[v] = task[v]
    /\ UNCHANGED rt

LEMMA QuietSteps ==
    ASSUME TypeOK, WatcherOps, [Next]_vars, Quiet'
    PROVE  /\ Quiet
           /\ \/ \E t \in Tasks : TaskStep(t)
              \/ \E u \in Tasks : StartCommand(u)
              \/ UNCHANGED <<rt, task>>
<1> USE DEF Quiet
<1>1. ASSUME NEW t \in Tasks, TaskStep(t)
      PROVE  Quiet
  BY <1>1, TaskStepOps DEF WatcherOps
<1>2. ASSUME NEW c \in Closers, CloseRequested(c)
      PROVE  FALSE
  BY <1>2 DEF CloseRequested
<1>3. ASSUME NEW u \in Users, NEW op \in Ops, NEW i \in 1 .. Len(Order),
             UserCall(u, op, i)
      PROVE  Quiet /\ StartCommand(u)
  <2>1. /\ u \in Tasks /\ task[u].op = "none" /\ task[u].pc = "idle"
        /\ shuttingDown' = shuttingDown /\ UNCHANGED rt
        /\ task'[u] = [pc |-> IF op = "start" THEN "check" ELSE "halt", i |-> i, op |-> op]
        /\ \A v \in Tasks \ {u} : task'[v] = task[v]
    BY <1>3 DEF UserCall, At, Tasks, TypeOK
  <2>2. op = "start"
    BY <2>1 DEF Operations
  <2> QED
    BY <2>1, <2>2 DEF StartCommand
<1>4. ASSUME NEW d \in Daemons,
             PortOpens(d) \/ BootFails(d) \/ DaemonCrashes(d) \/ DaemonExits(d)
      PROVE  Quiet /\ UNCHANGED <<rt, task>>
  BY <1>4 DEF PortOpens, BootFails, DaemonCrashes, DaemonExits, ProcStep
<1>5. CASE UNCHANGED vars
  BY <1>5 DEF vars, rt
<1> QED
  BY <1>1, <1>2, <1>3, <1>4, <1>5 DEF Next, Tasks

LEMMA StartCommandKeeps ==
    ASSUME TypeOK, QuietInv, NEW u \in Tasks, StartCommand(u)
    PROVE  QuietInv'
<1> USE DEF StartCommand, rt
<1>1. NoStops' /\ NotStopping' /\ NeverDead'
  BY DEF QuietInv, NoStops, NotStopping, NeverDead, Stopping, StopSection
<1>2. \A v \in Tasks : task'[v].pc \in StartSection \cup Watching =>
          v # u /\ task'[v] = task[v]
  BY SectionsApart
<1>3. Alone(StartSection)' /\ Alone(Watching)'
  BY <1>2, AloneKept DEF QuietInv, Stays
<1>4. StartersHold' /\ WatchersHold'
  BY <1>2 DEF QuietInv, StartersHold, WatchersHold, Target
<1>5. RunningWatched'
  BY SectionsApart DEF QuietInv, RunningWatched, Busy, Target, Tasks
<1> QED
  BY <1>1, <1>3, <1>4, <1>5 DEF QuietInv

-----------------------------------------------------------------------------
(* The theorems.  MAX_FAILURES is 5 in the code; with 0 a watcher would give *)
(* up a daemon that a start command is just bringing up again.               *)

LEMMA QuietInvariant ==
    ASSUME MaxFailures > 0
    PROVE  Spec => [](Quiet => QuietInv)
<1> DEFINE QInv == Quiet => QuietInv
<1>1. Init => QInv
  <2> SUFFICES ASSUME Init
               PROVE  QuietInv
    OBVIOUS
  <2>1. \A t \in Tasks : task[t].pc \in {"check", "idle"}
    BY DEF Init
  <2>2. \A d \in Daemons : state[d] = "Stopped" /\ ~stopping[d]
    BY DEF Init
  <2> QED
    BY <2>1, <2>2, SectionsApart
       DEF QuietInv, NoStops, NotStopping, StartersHold, WatchersHold, Alone,
           RunningWatched, NeverDead, Stopping, StopSection
<1>2. TypeOK /\ WatcherOps /\ QInv /\ [Next]_vars => QInv'
  <2> SUFFICES ASSUME TypeOK, WatcherOps, QInv, [Next]_vars, Quiet'
               PROVE  QuietInv'
    OBVIOUS
  <2>1. Quiet /\ QuietInv /\ ~shuttingDown
    BY QuietSteps DEF Quiet
  <2>2. ASSUME NEW t \in Tasks, TaskStep(t)
        PROVE  QuietInv'
    BY <2>1, <2>2, TaskStepIsQuiet, TaskStepStopsNothing, QuietStepKeeps
  <2>3. ASSUME NEW u \in Tasks, StartCommand(u)
        PROVE  QuietInv'
    BY <2>1, <2>3, StartCommandKeeps
  <2>4. CASE UNCHANGED <<rt, task>>
    BY <2>1, <2>4
       DEF rt, QuietInv, NoStops, NotStopping, StartersHold, WatchersHold, Alone,
           RunningWatched, NeverDead, Busy, Target
  <2> QED
    BY <2>2, <2>3, <2>4, QuietSteps
<1> QED
  BY <1>1, <1>2, TypeCorrect, WatchersRunNoCommand, PTL DEF Spec

\* Until the first stop, two start_one calls never go past their claim for the
\* same daemon, whoever makes them: start_all, commands or watchers.
THEOREM OneStarterUntilStop ==
    ASSUME MaxFailures > 0
    PROVE  Spec => [](Quiet => OneStarter)
<1>1. QuietInv => OneStarter
  BY DEF QuietInv, Alone, OneStarter
<1> QED
  BY <1>1, QuietInvariant, PTL

\* Until the first stop, a running daemon has one watcher.
THEOREM WatchedOnceUntilStop ==
    ASSUME MaxFailures > 0
    PROVE  Spec => [](Quiet => RunningIsWatchedOnce)
<1>1. QuietInv => RunningIsWatchedOnce
  BY DEF QuietInv, NotStopping, RunningWatched, Alone, RunningIsWatchedOnce,
         Busy, Watching, Tasks
<1> QED
  BY <1>1, QuietInvariant, PTL

\* Until the first stop no daemon is ever given up: a watcher counts from 0 and
\* ends with its first restart, and a start that fails leaves no watcher.  So the
\* state that follows too many restart attempts is not reached by restarting.
THEOREM NeverGivenUp ==
    ASSUME MaxFailures > 0
    PROVE  Spec => [](Quiet => \A d \in Daemons : state[d] # "Dead")
<1>1. QuietInv => \A d \in Daemons : state[d] # "Dead"
  BY DEF QuietInv, NeverDead
<1> QED
  BY <1>1, QuietInvariant, PTL

\* A run in which nobody stops a daemon follows the life cycle of the State enum.
THEOREM ImplementsLifecycle ==
    ASSUME MaxFailures > 0
    PROVE  Spec /\ []Quiet => LifecycleSpec
<1>1. Init => Lifecycle!Init
  BY DEF Init, Lifecycle!Init
<1>2. TypeOK /\ WatcherOps /\ (Quiet => QuietInv) /\ Quiet /\ Quiet' /\ [Next]_vars
        => [Lifecycle!Next]_Lifecycle!vars
  <2> SUFFICES ASSUME TypeOK, WatcherOps, QuietInv, Quiet, Quiet', [Next]_vars
               PROVE  Lifecycle!Next \/ UNCHANGED <<state, failures>>
    BY DEF Lifecycle!vars
  <2>1. ASSUME NEW t \in Tasks, TaskStep(t)
        PROVE  Lifecycle!Next \/ UNCHANGED <<state, failures>>
    <3> DEFINE d == Target(t)
    <3>1. d \in Daemons /\ failures[d] \in 0 .. MaxFailures + 1
      BY TargetType DEF TypeOK
    <3>2. QuietStep(t)
      BY <2>1, TaskStepIsQuiet DEF Quiet
    <3> USE DEF Lifecycle!Next, Lifecycle!Move, Becomes
    <3>3. CASE Idles(t)
      BY <3>3 DEF Idles
    <3>4. CASE Claims(t)
      <4>1. state[d] \in {"Stopped", "Crashed", "Dead"}
        BY <3>1, <3>4 DEF Claims, QuietInv, NeverDead
      <4>2. Lifecycle!Start(d)
        BY <3>4, <4>1 DEF Claims, Lifecycle!Start
      <4> QED
        BY <3>1, <4>2
    <3>5. CASE Fails(t)
      <4>1. state[d] = "Starting"
        BY <3>5 DEF Fails, QuietInv, StartersHold
      <4>2. Lifecycle!FailToStart(d)
        BY <3>5, <4>1 DEF Fails, Lifecycle!FailToStart, Lifecycle!OneMore, Bump
      <4> QED
        BY <3>1, <4>2
    <3>6. CASE ComesUp(t)
      <4>1. state[d] = "Starting"
        BY <3>6 DEF ComesUp, QuietInv, StartersHold
      <4>2. Lifecycle!ComeUp(d)
        BY <3>6, <4>1 DEF ComesUp, Lifecycle!ComeUp
      <4> QED
        BY <3>1, <4>2
    <3>7. CASE Crashes(t)
      <4>1. state[d] = "Running"
        BY <3>7 DEF Crashes, QuietInv, WatchersHold
      <4>2. Lifecycle!Crash(d)
        BY <3>7, <4>1 DEF Crashes, Lifecycle!Crash
      <4> QED
        BY <3>1, <4>2
    <3> QED
      BY <3>2, <3>3, <3>4, <3>5, <3>6, <3>7 DEF QuietStep
  <2>2. CASE (\E u \in Tasks : StartCommand(u)) \/ UNCHANGED <<rt, task>>
    BY <2>2 DEF StartCommand, rt
  <2> QED
    BY <2>1, <2>2, QuietSteps
<1> QED
  BY <1>1, <1>2, QuietInvariant, TypeCorrect, WatchersRunNoCommand, PTL
     DEF Spec, LifecycleSpec, Lifecycle!Spec

-----------------------------------------------------------------------------
(* The same for an application that nobody can stop, as SupervisorCrash.cfg *)
(* has it.                                                                  *)

NobodyStops == Closers = {} /\ Ops \subseteq {"start"}

LEMMA AlwaysQuiet ==
    ASSUME NobodyStops
    PROVE  Spec => []Quiet
<1>1. Init => Quiet
  BY DEF Init, Quiet
<1>2. TypeOK /\ Quiet /\ [Next]_vars => Quiet'
  <2> SUFFICES ASSUME TypeOK, Quiet, [Next]_vars
               PROVE  Quiet'
    OBVIOUS
  <2>1. ASSUME NEW t \in Tasks, TaskStep(t)
        PROVE  Quiet'
    BY <2>1, TaskStepOps DEF Quiet
  <2>2. ASSUME NEW u \in Users, NEW op \in Ops, NEW i \in 1 .. Len(Order),
               UserCall(u, op, i)
        PROVE  Quiet'
    BY <2>2 DEF NobodyStops, UserCall, Quiet, TypeOK, Tasks
  <2>3. ASSUME NEW d \in Daemons,
               PortOpens(d) \/ BootFails(d) \/ DaemonCrashes(d) \/ DaemonExits(d)
        PROVE  Quiet'
    BY <2>3 DEF PortOpens, BootFails, DaemonCrashes, DaemonExits, ProcStep, Quiet
  <2>4. CASE UNCHANGED vars
    BY <2>4 DEF vars, Quiet
  <2> QED
    BY <2>1, <2>2, <2>3, <2>4 DEF Next, NobodyStops
<1> QED
  BY <1>1, <1>2, TypeCorrect, PTL DEF Spec

\* With nobody to stop a daemon, it is an invariant that a daemon has at most one
\* start_one past its claim ...
THEOREM OneStarterCorrect ==
    ASSUME MaxFailures > 0, NobodyStops
    PROVE  Spec => []OneStarter
BY OneStarterUntilStop, AlwaysQuiet, PTL

\* ... and one watcher while it runs, ...
THEOREM WatchedOnceCorrect ==
    ASSUME MaxFailures > 0, NobodyStops
    PROVE  Spec => []RunningIsWatchedOnce
BY WatchedOnceUntilStop, AlwaysQuiet, PTL

\* ... and the supervisor implements the life cycle.
THEOREM LifecycleCorrect ==
    ASSUME MaxFailures > 0, NobodyStops
    PROVE  Spec => LifecycleSpec
BY ImplementsLifecycle, AlwaysQuiet, PTL

=============================================================================
