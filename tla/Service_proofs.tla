--------------------------- MODULE Service_proofs ---------------------------
(***************************************************************************)
(* The shim's task service for any number of ids, clients, lives, starts   *)
(* and slots, and whichever statements are taken as repaired: its types,   *)
(* that a task that says stopped has its streams closed, and that no exit  *)
(* overtakes its start.                                                    *)
(***************************************************************************)
EXTENDS Service, TLAPS

USE ServiceAssumption

\* Only a holder of the mutex has an event to send, and a start's is a task's.
\* CloseIO holds the mutex without one.
SenderHolds  == mu = Free => out = NoEvent
StartHasTask == out.kind = "start" => out.task \in Tasks

TypeInv == TypeOK /\ StartHasTask

\* What the table and the goroutines refer to has been created, an exit is
\* recorded after the streams are closed, and so is a goroutine past them.
ExitedIsSignalled == \A t \in Tasks : task[t].exited => task[t].exitIOch
FoundIsBorn == \A id \in Ids : Found(id) => task[TaskOf(id)].status # "none"
RunIsBorn   == \A r \in Runs : go[r].waiter # "none" => task[r[1]].status # "none"
LockIsSignalled == \A r \in Runs : go[r].waiter = "lock" => task[r[1]].exitIOch

SignalInv ==
    /\ TypeInv
    /\ StoppedIsSignalled /\ ExitedIsSignalled
    /\ FoundIsBorn /\ RunIsBorn /\ LockIsSignalled

\* A goroutine runs for a task whose start has been sent or is the event that
\* the holder of the mutex is sending; from the mutex on it has been sent.
RunIsTold ==
    \A r \in Runs : go[r].waiter # "none" =>
        r[1] \in told \/ out = [kind |-> "start", task |-> r[1]]
ReportIsTold == \A r \in Runs : go[r].waiter = "report" => r[1] \in told
HeardIsTold  == ec # NoTask => ec \in told

ClosingHolds == \A c \in Clients : rpc[c].at = "closing" => mu = c /\ out = NoEvent

OrderInv ==
    /\ TypeInv
    /\ SenderHolds /\ ClosingHolds /\ ExitAfterStart
    /\ RunIsTold /\ ReportIsTold /\ HeardIsTold
-----------------------------------------------------------------------------
(* Helpers *)

\* A task that the table holds is one of the tasks.
LEMMA FoundIsTask ==
    ASSUME TypeOK, NEW id \in Ids, Found(id)
    PROVE  TaskOf(id) \in Tasks
  BY DEF TypeOK, Found, TaskOf, Tasks

\* Closing the streams of a task keeps its type and all but its channel.
LEMMA ioExitType ==
    ASSUME NEW rec \in ShimContainer
    PROVE  /\ ioExit(rec) \in ShimContainer
           /\ ioExit(rec).exitIOch
           /\ ioExit(rec).status = rec.status
           /\ ioExit(rec).exited = rec.exited
  BY DEF ioExit, ShimContainer

\* What getContainerStatus answers is a status, and stopped only for a task
\* whose exit is recorded.
LEMMA ContainerStatusType ==
    ASSUME NEW t, NEW s \in ContainerStatus(t)
    PROVE  s \in Status /\ (s = "STOPPED" => task[t].exited)
  BY DEF ContainerStatus, Status

\* The tasks after a step that creates none: of their types, none unborn, no
\* channel opened again, and stopped or recorded only with the channel closed.
Advance(tasks) ==
    /\ tasks \in [Tasks -> ShimContainer]
    /\ \A t \in Tasks :
          /\ task[t].exitIOch => tasks[t].exitIOch
          /\ task[t].status # "none" => tasks[t].status # "none"
          /\ tasks[t].status = "STOPPED" => tasks[t].exitIOch
          /\ tasks[t].exited => tasks[t].exitIOch

\* A step that leaves the tasks alone advances them.
LEMMA AdvanceSame ==
    ASSUME SignalInv
    PROVE  Advance(task)
  BY DEF SignalInv, TypeInv, TypeOK, StoppedIsSignalled, ExitedIsSignalled, Advance

\* So does one that replaces one task by a record with what Advance asks of it.
LEMMA AdvanceOne ==
    ASSUME SignalInv, NEW t \in Tasks, NEW rec \in ShimContainer,
           task[t].exitIOch => rec.exitIOch,
           rec.status # "none",
           rec.status = "STOPPED" => rec.exitIOch,
           rec.exited => rec.exitIOch
    PROVE  Advance([task EXCEPT ![t] = rec])
  BY DEF SignalInv, TypeInv, TypeOK, StoppedIsSignalled, ExitedIsSignalled, Advance

\* Setting a status advances the tasks, if it is stopped only for a recorded one.
LEMMA AdvanceStatus ==
    ASSUME SignalInv, NEW t \in Tasks, NEW s \in Status,
           s = "STOPPED" => task[t].exited
    PROVE  Advance([task EXCEPT ![t].status = s])
  <1> DEFINE rec == [task[t] EXCEPT !.status = s]
  <1>1. task[t] \in ShimContainer /\ (task[t].exited => task[t].exitIOch)
    BY DEF SignalInv, TypeInv, TypeOK, ExitedIsSignalled
  <1>2. /\ rec \in ShimContainer
        /\ rec.status = s /\ rec.exitIOch = task[t].exitIOch /\ rec.exited = task[t].exited
    BY <1>1 DEF ShimContainer
  <1>3. s # "none"
    BY DEF Status
  <1>4. Advance([task EXCEPT ![t] = rec])
    BY <1>1, <1>2, <1>3, AdvanceOne
  <1> QED
    BY <1>4

\* A task whose streams are closed advances with whatever status.
LEMMA AdvanceClosed ==
    ASSUME SignalInv, NEW t \in Tasks, NEW s \in Status
    PROVE  Advance([task EXCEPT ![t] = ioExit([@ EXCEPT !.status = s])])
  <1> DEFINE rec == [task[t] EXCEPT !.status = s]
  <1>1. task[t] \in ShimContainer
    BY DEF SignalInv, TypeInv, TypeOK
  <1>2. rec \in ShimContainer /\ rec.status = s /\ s # "none"
    BY <1>1 DEF ShimContainer, Status
  <1>3. /\ ioExit(rec) \in ShimContainer
        /\ ioExit(rec).exitIOch /\ ioExit(rec).status = s
    BY <1>2, ioExitType
  <1>4. Advance([task EXCEPT ![t] = ioExit(rec)])
    BY <1>2, <1>3, AdvanceOne
  <1> QED
    BY <1>4

\* SIGKILL and SIGTERM advance the tasks.
LEMMA KillAdvances ==
    ASSUME SignalInv, NEW id \in Ids, NEW k \in Kill(id)
    PROVE  Advance(k.task) /\ k.sandbox \in BOOLEAN /\ k.panics \in BOOLEAN
  <1> DEFINE t == TaskOf(id)
             killed(s) == [task EXCEPT ![t] = ioExit([@ EXCEPT !.status = s])]
  <1>0. sandbox \in BOOLEAN
    BY DEF SignalInv, TypeInv, TypeOK
  <1>1. CASE ~Found(id)
    <2>1. k = KillOutcome(task, sandbox, TRUE, FALSE)
      BY <1>1 DEF Kill
    <2> QED
      BY <2>1, <1>0, AdvanceSame DEF KillOutcome
  <1>2. CASE Found(id) /\ task[t].status = "STOPPED"
    <2>1. k = KillOutcome(task, sandbox, FALSE, FALSE)
      BY <1>2 DEF Kill
    <2> QED
      BY <2>1, <1>0, AdvanceSame DEF KillOutcome
  <1>3. CASE Found(id) /\ task[t].status # "STOPPED"
    <2>1. t \in Tasks /\ task[t] \in ShimContainer
      BY <1>3, FoundIsTask DEF SignalInv, TypeInv, TypeOK
    <2>2. Advance(task) /\ Advance(killed("STOPPED")) /\ Advance(killed("UNKNOWN"))
      BY <2>1, AdvanceSame, AdvanceClosed DEF Status
    <2>3. \A s \in ContainerStatus(t) : Advance([task EXCEPT ![t].status = s])
      BY <2>1, ContainerStatusType, AdvanceStatus
    <2>4. ioExitPanics(task[t]) \in BOOLEAN
      BY <2>1 DEF ioExitPanics, ShimContainer
    <2>5. CASE id = Owner
      <3>1. k = KillOutcome(killed("STOPPED"), FALSE, FALSE, ioExitPanics(task[t]))
        BY <1>3, <2>5 DEF Kill
      <3> QED
        BY <3>1, <2>2, <2>4 DEF KillOutcome
    <2>6. CASE id # Owner /\ ~sandbox
      <3>1. k = KillOutcome(task, sandbox, TRUE, FALSE)
        BY <1>3, <2>6 DEF Kill
      <3> QED
        BY <3>1, <1>0, <2>2 DEF KillOutcome
    <2>7. CASE id # Owner /\ sandbox
      <3>1. \/ k = KillOutcome(killed("UNKNOWN"), sandbox, FALSE, ioExitPanics(task[t]))
            \/ \E s \in ContainerStatus(t) :
                  k = KillOutcome([task EXCEPT ![t].status = s], sandbox, TRUE, FALSE)
        BY <1>3, <2>7 DEF Kill
      <3>2. CASE k = KillOutcome(killed("UNKNOWN"), sandbox, FALSE, ioExitPanics(task[t]))
        BY <3>2, <1>0, <2>2, <2>4 DEF KillOutcome
      <3>3. ASSUME NEW s \in ContainerStatus(t),
                   k = KillOutcome([task EXCEPT ![t].status = s], sandbox, TRUE, FALSE)
            PROVE  Advance(k.task) /\ k.sandbox \in BOOLEAN /\ k.panics \in BOOLEAN
        <4>1. k.task = [task EXCEPT ![t].status = s] /\ k.sandbox = sandbox /\ k.panics = FALSE
          BY <3>3 DEF KillOutcome
        <4> QED
          BY <4>1, <1>0, <2>3
      <3> QED
        BY <3>1, <3>2, <3>3
    <2> QED
      BY <2>5, <2>6, <2>7
  <1> QED
    BY <1>1, <1>2, <1>3

\* And so does a goroutine's kill, which closes the streams of its own task as
\* well if the call fails.
LEMMA GoroutineKillAdvances ==
    ASSUME SignalInv, NEW t \in Tasks, NEW k \in requestContainerKill(t)
    PROVE  Advance(k.task) /\ k.sandbox \in BOOLEAN
  <1>1. t[1] \in Ids
    BY DEF Tasks
  <1>2. PICK q \in Kill(t[1]) :
           k = IF q.err THEN [q EXCEPT !.task[t] = ioExit(@),
                                       !.panics = ioExitPanics(q.task[t])]
                        ELSE q
    BY DEF requestContainerKill
  <1>3. Advance(q.task) /\ q.sandbox \in BOOLEAN
    BY <1>1, <1>2, KillAdvances
  <1>4. CASE ~q.err
    BY <1>2, <1>3, <1>4
  <1>5. CASE q.err
    <2>1. PICK tk, box, e, p : q = KillOutcome(tk, box, e, p)
      BY <1>2 DEF Kill
    <2>2. k.task = [q.task EXCEPT ![t] = ioExit(@)] /\ k.sandbox = q.sandbox
      BY <1>2, <1>5, <2>1 DEF KillOutcome
    <2>3. q.task[t] \in ShimContainer
      BY <1>3 DEF Advance
    <2>4. /\ ioExit(q.task[t]) \in ShimContainer
          /\ ioExit(q.task[t]).exitIOch
          /\ ioExit(q.task[t]).status = q.task[t].status
      BY <2>3, ioExitType
    <2> QED
      BY <1>3, <2>2, <2>4 DEF Advance
  <1> QED
    BY <1>4, <1>5
-----------------------------------------------------------------------------
(* The steps *)

\* A start leaves a task running, with its streams closed if they were before.
LEMMA StartAdvances ==
    ASSUME SignalInv, NEW t \in Tasks
    PROVE  Advance([task EXCEPT ![t] = Running(t)])
  <1>1. task[t] \in ShimContainer /\ (task[t].exited => task[t].exitIOch)
    BY DEF SignalInv, TypeInv, TypeOK, ExitedIsSignalled
  <1>2. ExitsAtOnce(t) \in BOOLEAN
    BY DEF ExitsAtOnce
  <1>3. /\ Running(t) \in ShimContainer
        /\ Running(t).status = "RUNNING"
        /\ Running(t).exited = task[t].exited
        /\ task[t].exitIOch => Running(t).exitIOch
    BY <1>1, <1>2 DEF Running, ShimContainer, Status
  <1> QED
    BY <1>1, <1>3, AdvanceOne

\* The goroutine that stops its task found the streams closed.
LEMMA StopAdvances ==
    ASSUME SignalInv, NEW r \in Runs, go[r].waiter = "lock"
    PROVE  Advance([task EXCEPT ![r[1]].status = "STOPPED", ![r[1]].exited = TRUE])
  <1> DEFINE t == r[1]
             rec == [task[t] EXCEPT !.status = "STOPPED", !.exited = TRUE]
  <1>1. t \in Tasks
    BY DEF Runs
  <1>2. task[t] \in ShimContainer /\ task \in [Tasks -> ShimContainer]
    BY <1>1 DEF SignalInv, TypeInv, TypeOK
  <1>3. task[t].exitIOch
    BY DEF SignalInv, LockIsSignalled
  <1>4. /\ rec \in ShimContainer /\ rec.status = "STOPPED"
        /\ rec.exitIOch = task[t].exitIOch
    BY <1>2 DEF ShimContainer, Status
  <1>5. Advance([task EXCEPT ![t] = rec])
    BY <1>1, <1>3, <1>4, AdvanceOne
  <1>6. [task EXCEPT ![t].status = "STOPPED", ![t].exited = TRUE] = [task EXCEPT ![t] = rec]
    BY <1>1, <1>2
  <1> QED
    BY <1>5, <1>6

\* Closing stdinCloser or exitIOch advances the tasks, whatever they are after a
\* kill.
LEMMA CloseAdvances ==
    ASSUME SignalInv, NEW r \in Runs, NEW tasks, Advance(tasks)
    PROVE  /\ Advance([tasks EXCEPT ![r[1]].stdinCloser = TRUE])
           /\ Advance([tasks EXCEPT ![r[1]].exitIOch = TRUE])
  <1>1. r[1] \in Tasks
    BY DEF Runs
  <1>2. tasks[r[1]] \in ShimContainer
    BY <1>1 DEF Advance
  <1> QED
    BY <1>1, <1>2 DEF Advance, ShimContainer

\* The actions that write to a task.
Writes ==
    \/ \E c \in Clients, id \in Ids :
          \/ StartWithoutStreams(c, id) \/ Start(c, id)
          \/ Pause(c, id) \/ Resume(c, id) \/ KillRequest(c, id) \/ Signal(c, id)
    \/ \E r \in Runs :
          WaiterKills(r) \/ WaiterStops(r) \/ StdinKills(r) \/ StdinEnds(r) \/ ioCopy(r)

Creates == \E c \in Clients, id \in Ids : Create(c, id)

\* All others leave them alone.
LEMMA OthersKeepTasks ==
    ASSUME Next
    PROVE  Writes \/ Creates \/ task' = task
  <1>1. ASSUME NEW c \in Clients, Call(c)
        PROVE  Writes \/ Creates \/ task' = task
    BY <1>1 DEF Call, Writes, Creates, CreateUnconfigured, DeleteAgain, DeleteRefused, Delete,
                CloseIO, Wait, Read, Shutdown, svc, vars
  <1>2. ASSUME NEW c \in Clients, Continue(c) \/ WaitCancelled(c)
        PROVE  task' = task
    BY <1>2 DEF Continue, CloseIODone, WaitSignalled, WaitCancelled, WaitDone, Exit, svc
  <1>3. ASSUME NEW r \in Runs,
               \/ WaiterSignalled(r) \/ WaiterReports(r) \/ WaiterGivesUp(r)
               \/ StdinInterrupted(r) \/ StdoutEnds(r)
        PROVE  task' = task
    BY <1>3 DEF WaiterSignalled, WaiterReports, WaiterGivesUp, StdinInterrupted, StdoutEnds, svc
  <1>4. Events \/ Ended => task' = task
    BY DEF Events, Send, Forward, reportExit, Ended, svc, vars
  <1> QED
    BY <1>1, <1>2, <1>3, <1>4 DEF Next, Waiter, Writes

\* Every step but Create advances the tasks.
LEMMA StepAdvances ==
    ASSUME SignalInv, Next, ~Creates
    PROVE  Advance(task')
  <1>1. ASSUME NEW c \in Clients, NEW id \in Ids,
               \/ StartWithoutStreams(c, id) \/ Start(c, id) \/ Pause(c, id)
               \/ Resume(c, id) \/ Signal(c, id)
        PROVE  Advance(task')
    <2>1. Found(id)
      BY <1>1 DEF StartWithoutStreams, Start, Pause, Resume, Signal
    <2>2. TaskOf(id) \in Tasks
      BY <2>1, FoundIsTask DEF SignalInv, TypeInv
    <2>3. \A s \in Status \ {"STOPPED"} : Advance([task EXCEPT ![TaskOf(id)].status = s])
      BY <2>2, AdvanceStatus
    <2>4. \A s \in ContainerStatus(TaskOf(id)) :
             Advance([task EXCEPT ![TaskOf(id)].status = s])
      BY <2>2, ContainerStatusType, AdvanceStatus
    <2>5. CASE StartWithoutStreams(c, id)
      BY <2>3, <2>5 DEF StartWithoutStreams, Status
    <2>6. CASE Start(c, id)
      BY <2>2, <2>6, StartAdvances DEF Start
    <2>7. CASE Pause(c, id)
      BY <2>3, <2>4, <2>7 DEF Pause, SetStatus, Status
    <2>8. CASE Resume(c, id)
      BY <2>3, <2>4, <2>8 DEF Resume, SetStatus, Status
    <2>9. CASE Signal(c, id)
      <3>1. PICK s \in ContainerStatus(TaskOf(id)) :
               task' = [task EXCEPT ![TaskOf(id)].status = s]
        BY <2>9 DEF Signal, SetStatus
      <3> QED
        BY <3>1, <2>4
    <2> QED
      BY <1>1, <2>5, <2>6, <2>7, <2>8, <2>9
  <1>2. ASSUME NEW c \in Clients, NEW id \in Ids, KillRequest(c, id)
        PROVE  Advance(task')
    BY <1>2, KillAdvances DEF KillRequest
  <1>3. ASSUME NEW r \in Runs, WaiterKills(r)
        PROVE  Advance(task')
    BY <1>3, GoroutineKillAdvances DEF WaiterKills, Runs
  <1>4. ASSUME NEW r \in Runs, WaiterStops(r)
        PROVE  Advance(task')
    BY <1>4, StopAdvances DEF WaiterStops
  <1>5. ASSUME NEW r \in Runs, StdinKills(r)
        PROVE  Advance(task')
    <2>1. PICK k \in requestContainerKill(r[1]) :
             task' = [k.task EXCEPT ![r[1]].stdinCloser = TRUE]
      BY <1>5 DEF StdinKills
    <2>2. Advance(k.task)
      BY GoroutineKillAdvances DEF Runs
    <2> QED
      BY <2>1, <2>2, CloseAdvances
  <1>6. ASSUME NEW r \in Runs, StdinEnds(r) \/ ioCopy(r)
        PROVE  Advance(task')
    <2>1. /\ Advance([task EXCEPT ![r[1]].stdinCloser = TRUE])
          /\ Advance([task EXCEPT ![r[1]].exitIOch = TRUE])
      BY AdvanceSame, CloseAdvances
    <2> QED
      BY <1>6, <2>1 DEF StdinEnds, ioCopy
  <1>7. CASE task' = task
    BY <1>7, AdvanceSame
  <1>8. CASE \E c \in Clients, id \in Ids :
                \/ StartWithoutStreams(c, id) \/ Start(c, id)
                \/ Pause(c, id) \/ Resume(c, id) \/ KillRequest(c, id) \/ Signal(c, id)
    <2>1. PICK c \in Clients, id \in Ids :
             \/ StartWithoutStreams(c, id) \/ Start(c, id)
             \/ Pause(c, id) \/ Resume(c, id) \/ KillRequest(c, id) \/ Signal(c, id)
      BY <1>8
    <2>2. CASE KillRequest(c, id)
      BY <2>2, <1>2
    <2>3. CASE ~KillRequest(c, id)
      BY <2>1, <2>3, <1>1
    <2> QED
      BY <2>2, <2>3
  <1>9. CASE \E r \in Runs :
                \/ WaiterKills(r) \/ WaiterStops(r) \/ StdinKills(r) \/ StdinEnds(r)
                \/ ioCopy(r)
    BY <1>3, <1>4, <1>5, <1>6, <1>9
  <1> QED
    BY <1>7, <1>8, <1>9, OthersKeepTasks DEF Writes

\* What Create does if it does not lock the mutex again.
LEMMA CreateEffect ==
    ASSUME SignalInv, NEW c \in Clients, NEW id \in Ids, Create(c, id), "relock" \in Fixed
    PROVE  \E n \in 1..Lives, io \in SUBSET {"in", "out"} :
              /\ task[<<id, n>>].status = "none"
              /\ table' = [table EXCEPT ![id] = n]
              /\ sandbox' = TRUE
              /\ task' = [task EXCEPT ![<<id, n>>] = [Unborn EXCEPT !.status = "CREATED", !.io = io]]
              /\ ReplySending(c, "create", <<id, n>>)
  <1>1. \E n \in Fresh(id), io \in IoKinds[id] :
              /\ table' = [table EXCEPT ![id] = n]
              /\ sandbox' = TRUE
              /\ task' = [task EXCEPT ![<<id, n>>] = [Unborn EXCEPT !.status = "CREATED", !.io = io]]
              /\ ReplySending(c, "create", <<id, n>>)
    BY DEF Create, svc
  <1>2. PICK n \in Fresh(id), io \in IoKinds[id] :
              /\ table' = [table EXCEPT ![id] = n]
              /\ sandbox' = TRUE
              /\ task' = [task EXCEPT ![<<id, n>>] = [Unborn EXCEPT !.status = "CREATED", !.io = io]]
              /\ ReplySending(c, "create", <<id, n>>)
    BY <1>1
  <1>3. n \in 1..Lives /\ task[<<id, n>>].status = "none"
    BY <1>2 DEF Fresh, Unborns
  <1>4. io \in SUBSET {"in", "out"}
    BY <1>2, ServiceAssumption DEF ServiceAssumption
  <1> QED
    BY <1>2, <1>3, <1>4

\* A handler that sends is typed if its event is.
LEMMA SendingType ==
    ASSUME TypeOK, NEW c \in Clients, NEW kind \in Kinds, NEW t \in Tasks \cup {NoTask},
           kind = "start" => t \in Tasks, ReplySending(c, kind, t)
    PROVE  /\ rpc' \in [Clients -> Request] /\ mu' \in Clients \cup {Free, Listener}
           /\ out' \in Event \cup {NoEvent} /\ StartHasTask'
  <1>1. rpc' \in [Clients -> Request]
    BY DEF TypeOK, ReplySending, Request
  <1>2. out' \in Event
    BY DEF ReplySending, Event
  <1> QED
    BY <1>1, <1>2 DEF ReplySending, StartHasTask

\* And one that returns is.
LEMMA ReplyType ==
    ASSUME TypeInv, NEW c \in Clients, Reply(c)
    PROVE  /\ rpc' \in [Clients -> Request] /\ mu' \in Clients \cup {Free, Listener}
           /\ out' \in Event \cup {NoEvent} /\ StartHasTask'
  <1>1. NoRequest \in Request
    BY DEF NoRequest, Request
  <1> QED
    BY <1>1 DEF TypeInv, TypeOK, StartHasTask, Reply, lock

\* Types are kept by the handlers, up to where they block or return, ...
LEMMA CallType ==
    ASSUME SignalInv, NEW c \in Clients, NEW id \in Ids, task' \in [Tasks -> ShimContainer],
           \/ CreateUnconfigured(c, id) \/ Create(c, id)
           \/ StartWithoutStreams(c, id) \/ Start(c, id)
           \/ DeleteAgain(c, id) \/ DeleteRefused(c, id) \/ Delete(c, id)
           \/ Pause(c, id) \/ Resume(c, id) \/ KillRequest(c, id) \/ Signal(c, id)
           \/ CloseIO(c, id) \/ Wait(c, id)
    PROVE  TypeInv'
  <1>0. TypeInv /\ TypeOK
    BY DEF SignalInv, TypeInv
  <1>1. Found(id) => TaskOf(id) \in Tasks
    BY <1>0, FoundIsTask
  <1>2. CASE CreateUnconfigured(c, id)
    BY <1>0, <1>2 DEF CreateUnconfigured, TypeInv, TypeOK, StartHasTask, svc, lock, bus
  <1>3. CASE Create(c, id)
    <2>1. CASE "relock" \notin Fixed
      <3>1. /\ rpc' = [rpc EXCEPT ![c].at = "relock"] /\ mu' = c
            /\ UNCHANGED <<svc, go, out, bus, proc>>
        BY <1>3, <2>1 DEF Create
      <3>2. rpc' \in [Clients -> Request]
        BY <1>0, <3>1 DEF TypeOK, Request
      <3> QED
        BY <1>0, <3>1, <3>2 DEF TypeInv, TypeOK, StartHasTask, svc, bus
    <2>2. CASE "relock" \in Fixed
      <3>1. PICK n \in Fresh(id) :
               /\ table' = [table EXCEPT ![id] = n] /\ sandbox' = TRUE
               /\ proc' \in {proc, "nilmap"} /\ UNCHANGED <<go, bus>>
               /\ ReplySending(c, "create", <<id, n>>)
        BY <1>3, <2>2 DEF Create
      <3>2. n \in 1..Lives /\ <<id, n>> \in Tasks
        BY <3>1 DEF Fresh, Unborns, Tasks
      <3>3. /\ rpc' \in [Clients -> Request] /\ mu' \in Clients \cup {Free, Listener}
            /\ out' \in Event \cup {NoEvent} /\ StartHasTask'
        BY <1>0, <3>1, <3>2, SendingType DEF Kinds
      <3>4. table' \in [Ids -> 0..Lives]
        BY <1>0, <3>1, <3>2 DEF TypeOK
      <3> QED
        BY <1>0, <3>1, <3>3, <3>4 DEF TypeInv, TypeOK, bus
    <2> QED
      BY <2>1, <2>2
  <1>4. CASE StartWithoutStreams(c, id)
    BY <1>0, <1>4, ReplyType DEF StartWithoutStreams, TypeInv, TypeOK, bus
  <1>5. CASE Start(c, id)
    <2> DEFINE t == TaskOf(id)
    <2>1. t \in Tasks /\ ReplySending(c, "start", t) /\ Launch(t)
      BY <1>1, <1>5 DEF Start
    <2>2. /\ rpc' \in [Clients -> Request] /\ mu' \in Clients \cup {Free, Listener}
          /\ out' \in Event \cup {NoEvent} /\ StartHasTask'
      BY <1>0, <2>1, SendingType DEF Kinds
    <2>3. Launched(task[t].io) \in Goroutines
      BY DEF Launched, NotRun, Goroutines
    <2>4. go' \in [Runs -> Goroutines]
      <3>1. PICK j \in 1..Starts : go' = [go EXCEPT ![<<t, j>>] = Launched(task[t].io)]
        BY <2>1 DEF Launch, Unused
      <3> QED
        BY <1>0, <2>3, <3>1 DEF TypeOK
    <2>5. proc' \in {proc, "reclosed"} /\ UNCHANGED <<table, sandbox, bus>>
      BY <1>5 DEF Start
    <2> QED
      BY <1>0, <2>2, <2>4, <2>5 DEF TypeInv, TypeOK, bus
  <1>6. CASE DeleteAgain(c, id)
    <2>1. /\ rpc' \in [Clients -> Request] /\ mu' \in Clients \cup {Free, Listener}
          /\ out' \in Event \cup {NoEvent} /\ StartHasTask'
      BY <1>0, <1>6, SendingType DEF DeleteAgain, Kinds
    <2> QED
      BY <1>0, <1>6, <2>1 DEF DeleteAgain, TypeInv, TypeOK, svc, bus
  <1>7. CASE DeleteRefused(c, id)
    BY <1>0, <1>7, ReplyType DEF DeleteRefused, SandboxAfterDelete, TypeInv, TypeOK, bus
  <1>8. CASE Delete(c, id)
    <2>1. /\ rpc' \in [Clients -> Request] /\ mu' \in Clients \cup {Free, Listener}
          /\ out' \in Event \cup {NoEvent} /\ StartHasTask'
      BY <1>0, <1>1, <1>8, SendingType DEF Delete, Kinds
    <2>2. table' \in [Ids -> 0..Lives]
      BY <1>0, <1>8, ServiceAssumption DEF Delete, TypeOK, ServiceAssumption
    <2> QED
      BY <1>0, <1>8, <2>1, <2>2 DEF Delete, SandboxAfterDelete, TypeInv, TypeOK, bus
  <1>9. CASE Pause(c, id) \/ Resume(c, id)
    <2>1. Found(id) /\ UNCHANGED <<table, sandbox, go, bus, proc>>
      BY <1>9 DEF Pause, Resume
    <2>2. \/ Reply(c)
          \/ ReplySending(c, "paused", TaskOf(id)) \/ ReplySending(c, "resumed", TaskOf(id))
      BY <1>9 DEF Pause, Resume
    <2>3. /\ rpc' \in [Clients -> Request] /\ mu' \in Clients \cup {Free, Listener}
          /\ out' \in Event \cup {NoEvent} /\ StartHasTask'
      BY <1>0, <1>1, <2>1, <2>2, SendingType, ReplyType DEF Kinds
    <2> QED
      BY <1>0, <2>1, <2>3 DEF TypeInv, TypeOK, bus
  <1>10. CASE KillRequest(c, id)
    <2>1. sandbox' \in BOOLEAN /\ proc' \in {proc, "doubleclose"}
      BY <1>10, KillAdvances DEF KillRequest, ProcessAfter
    <2> QED
      BY <1>0, <1>10, <2>1, ReplyType DEF KillRequest, TypeInv, TypeOK, bus
  <1>11. CASE Signal(c, id)
    BY <1>0, <1>11, ReplyType DEF Signal, TypeInv, TypeOK, bus
  <1>12. CASE CloseIO(c, id)
    <2>1. \A r \in Runs : [go[r] EXCEPT !.fifo = "shut"] \in Goroutines /\ go[r] \in Goroutines
      BY <1>0 DEF TypeOK, Goroutines
    <2>2. go' \in [Runs -> Goroutines]
      BY <1>12, <2>1 DEF CloseIO
    <2>3. rpc' \in [Clients -> Request]
      BY <1>0, <1>1, <1>12 DEF CloseIO, TypeOK, Request
    <2> QED
      BY <1>0, <1>12, <2>2, <2>3 DEF CloseIO, TypeInv, TypeOK, StartHasTask, svc, bus
  <1>13. CASE Wait(c, id)
    <2>1. rpc' \in [Clients -> Request]
      BY <1>0, <1>1, <1>13 DEF Wait, TypeOK, Request
    <2> QED
      BY <1>0, <1>13, <2>1 DEF Wait, TypeInv, TypeOK, StartHasTask, svc, lock, bus
  <1> QED
    BY <1>2, <1>3, <1>4, <1>5, <1>6, <1>7, <1>8, <1>9, <1>10, <1>11, <1>12, <1>13

\* ... and by everything else.
LEMMA TypeStep ==
    ASSUME SignalInv, [Next]_vars
    PROVE  TypeInv'
  <1>0. TypeInv /\ TypeOK
    BY DEF SignalInv, TypeInv
  <1>1. Next => task' \in [Tasks -> ShimContainer]
    <2>1. CASE Next /\ ~Creates
      BY <2>1, StepAdvances DEF Advance
    <2>2. ASSUME NEW c \in Clients, NEW id \in Ids, Create(c, id)
          PROVE  task' \in [Tasks -> ShimContainer]
      <3>1. CASE "relock" \notin Fixed
        BY <1>0, <2>2, <3>1 DEF Create, TypeOK, svc
      <3>2. CASE "relock" \in Fixed
        <4>1. PICK n \in 1..Lives, io \in SUBSET {"in", "out"} :
                 /\ task[<<id, n>>].status = "none"
                 /\ table' = [table EXCEPT ![id] = n]
                 /\ sandbox' = TRUE
                 /\ task' = [task EXCEPT ![<<id, n>>] =
                               [Unborn EXCEPT !.status = "CREATED", !.io = io]]
                 /\ ReplySending(c, "create", <<id, n>>)
          BY <2>2, <3>2, CreateEffect
        <4>2. [Unborn EXCEPT !.status = "CREATED", !.io = io] \in ShimContainer
          BY DEF Unborn, ShimContainer, Status
        <4> QED
          BY <1>0, <4>1, <4>2 DEF TypeOK
      <3> QED
        BY <3>1, <3>2
    <2> QED
      BY <2>1, <2>2 DEF Creates
  <1>2. ASSUME NEW c \in Clients, Next, Call(c)
        PROVE  TypeInv'
    <2>1. CASE Read(c) \/ Shutdown(c)
      <3>1. CASE Read(c)
        BY <1>0, <3>1 DEF Read, TypeInv, TypeOK, StartHasTask, vars
      <3>2. CASE Shutdown(c)
        <4>1. rpc' \in [Clients -> Request]
          BY <1>0, <3>2 DEF Shutdown, TypeOK, Request
        <4> QED
          BY <1>0, <3>2, <4>1 DEF Shutdown, TypeInv, TypeOK, StartHasTask, svc, lock, bus
      <3> QED
        BY <2>1, <3>1, <3>2
    <2>2. CASE ~(Read(c) \/ Shutdown(c))
      <3>1. PICK id \in Ids :
               \/ CreateUnconfigured(c, id) \/ Create(c, id)
               \/ StartWithoutStreams(c, id) \/ Start(c, id)
               \/ DeleteAgain(c, id) \/ DeleteRefused(c, id) \/ Delete(c, id)
               \/ Pause(c, id) \/ Resume(c, id) \/ KillRequest(c, id) \/ Signal(c, id)
               \/ CloseIO(c, id) \/ Wait(c, id)
        BY <1>2, <2>2 DEF Call
      <3> QED
        BY <1>1, <1>2, <3>1, CallType
    <2> QED
      BY <2>1, <2>2
  <1>3. ASSUME NEW c \in Clients, Continue(c) \/ WaitCancelled(c)
        PROVE  TypeInv'
    <2>1. NoRequest \in Request
      BY DEF NoRequest, Request
    <2>2. rpc' \in [Clients -> Request]
      BY <1>0, <1>3, <2>1 DEF Continue, CloseIODone, WaitSignalled, WaitCancelled, WaitDone, Exit,
                              Reply, TypeOK, Request
    <2>3. mu' \in {mu, Free} /\ proc' \in {proc, "exited"}
      BY <1>3 DEF Continue, CloseIODone, WaitSignalled, WaitCancelled, WaitDone, Exit, Reply, lock
    <2>4. UNCHANGED <<svc, go, out, bus>>
      BY <1>3 DEF Continue, CloseIODone, WaitSignalled, WaitCancelled, WaitDone, Exit, Reply, lock
    <2> QED
      BY <1>0, <2>2, <2>3, <2>4 DEF TypeInv, TypeOK, StartHasTask, svc, bus
  <1>4. ASSUME NEW r \in Runs, Next,
               \/ Waiter(r) \/ WaiterGivesUp(r)
               \/ StdinInterrupted(r) \/ StdinKills(r) \/ StdinEnds(r) \/ StdoutEnds(r)
               \/ ioCopy(r)
        PROVE  TypeInv'
    <2>0. r[1] \in Tasks
      BY DEF Runs
    <2>1. go' \in [Runs -> Goroutines]
      <3>1. go[r] \in Goroutines
        BY <1>0 DEF TypeOK
      <3>2. PICK g \in Goroutines : go' = [go EXCEPT ![r] = g]
        BY <1>4, <3>1 DEF Waiter, WaiterSignalled, WaiterKills, WaiterStops, WaiterReports,
              WaiterGivesUp, StdinInterrupted, StdinKills, StdinEnds, StdoutEnds, ioCopy, Goroutines
      <3> QED
        BY <1>0, <3>2 DEF TypeOK
    <2>2. sandbox' \in BOOLEAN /\ proc' \in {proc, "doubleclose"}
      <3>1. CASE WaiterKills(r)
        BY <2>0, <3>1, GoroutineKillAdvances DEF WaiterKills, ProcessAfter
      <3>2. CASE StdinKills(r)
        BY <2>0, <3>2, GoroutineKillAdvances DEF StdinKills, ProcessAfter
      <3>3. CASE ~WaiterKills(r) /\ ~StdinKills(r)
        BY <1>0, <1>4, <3>3 DEF Waiter, WaiterSignalled, WaiterStops, WaiterReports, WaiterGivesUp,
              StdinInterrupted, StdinEnds, StdoutEnds, ioCopy, ProcessAfter, TypeOK, svc
      <3> QED
        BY <3>1, <3>2, <3>3
    <2>3. ec' \in {ec, r[1]} /\ UNCHANGED <<table, rpc, lock, events, told>>
      BY <1>4 DEF Waiter, WaiterSignalled, WaiterKills, WaiterStops, WaiterReports,
              WaiterGivesUp, StdinInterrupted, StdinKills, StdinEnds, StdoutEnds, ioCopy, svc, bus
    <2> QED
      BY <1>0, <1>1, <1>4, <2>0, <2>1, <2>2, <2>3 DEF TypeInv, TypeOK, StartHasTask, lock
  <1>5. CASE Send
    <2>1. rpc' \in [Clients -> Request]
      BY <1>0, <1>5 DEF Send, NoRequest, Request, TypeOK
    <2>2. told' \in SUBSET Tasks
      BY <1>0, <1>5 DEF Send, TypeInv, TypeOK, StartHasTask
    <2>3. events' \in 0..Slots
      BY <1>0, <1>5, ServiceAssumption DEF Send, TypeOK, ServiceAssumption
    <2>4. out' = NoEvent /\ mu' = Free /\ ec' \in {ec, NoTask} /\ UNCHANGED <<svc, go, proc>>
      BY <1>5 DEF Send
    <2> QED
      BY <1>0, <2>1, <2>2, <2>3, <2>4 DEF TypeInv, TypeOK, StartHasTask, NoEvent, svc
  <1>6. CASE Forward
    <2>1. events' \in 0..Slots
      BY <1>0, <1>6, ServiceAssumption DEF Forward, TypeOK, ServiceAssumption
    <2> QED
      BY <1>0, <1>6, <2>1 DEF Forward, TypeInv, TypeOK, StartHasTask, svc, lock
  <1>7. CASE reportExit
    <2>1. out' \in Event /\ out'.kind = "exit"
      BY <1>0, <1>7 DEF reportExit, Event, Kinds, TypeOK
    <2> QED
      BY <1>0, <1>7, <2>1 DEF reportExit, TypeInv, TypeOK, StartHasTask, svc, bus
  <1>8. CASE Ended \/ UNCHANGED vars
    BY <1>0, <1>8 DEF Ended, TypeInv, TypeOK, StartHasTask, vars
  <1> QED
    BY <1>2, <1>3, <1>4, <1>5, <1>6, <1>7, <1>8 DEF Next, Events

\* What a step that creates no task does to the table and the waiters.
LEMMA StepRefers ==
    ASSUME SignalInv, Next, ~Creates
    PROVE  /\ \A id \in Ids : table'[id] \in {0, table[id]}
           /\ \A r \in Runs :
                 /\ \/ go'[r].waiter = "none" \/ go[r].waiter # "none"
                    \/ \E id \in Ids : Found(id) /\ r[1] = TaskOf(id)
                 /\ go'[r].waiter = "lock" => go[r].waiter = "lock" \/ task[r[1]].exitIOch
  <1> DEFINE Refers ==
               /\ \A id \in Ids : table'[id] \in {0, table[id]}
               /\ \A r \in Runs :
                     /\ \/ go'[r].waiter = "none" \/ go[r].waiter # "none"
                        \/ \E id \in Ids : Found(id) /\ r[1] = TaskOf(id)
                     /\ go'[r].waiter = "lock" => go[r].waiter = "lock" \/ task[r[1]].exitIOch
  <1>0. TypeOK
    BY DEF SignalInv, TypeInv
  <1>1. UNCHANGED <<table, go>> => Refers
    OBVIOUS
  <1>2. ASSUME NEW c \in Clients, NEW id \in Ids, Start(c, id)
        PROVE  Refers
    <2>1. PICK j \in 1..Starts :
             go' = [go EXCEPT ![<<TaskOf(id), j>>] = Launched(task[TaskOf(id)].io)]
      BY <1>2 DEF Start, Launch, Unused
    <2>2. Launched(task[TaskOf(id)].io).waiter = "select"
      BY DEF Launched, NotRun
    <2>3. Found(id) /\ table' = table
      BY <1>2 DEF Start
    <2>4. ASSUME NEW r \in Runs
          PROVE  \/ go'[r] = go[r]
                 \/ go'[r].waiter = "select" /\ r[1] = TaskOf(id)
      BY <1>0, <2>1, <2>2 DEF TypeOK, Runs
    <2> QED
      BY <2>3, <2>4
  <1>3. ASSUME NEW c \in Clients, NEW id \in Ids, CloseIO(c, id)
        PROVE  Refers
    <2>1. \A r \in Runs : go'[r].waiter = go[r].waiter
      BY <1>0, <1>3 DEF CloseIO, TypeOK, Goroutines
    <2> QED
      BY <1>3, <2>1 DEF CloseIO, svc
  <1>4. ASSUME NEW c \in Clients, NEW id \in Ids, Delete(c, id)
        PROVE  Refers
    BY <1>0, <1>4 DEF Delete, TypeOK
  <1>5. ASSUME NEW c \in Clients, Call(c)
        PROVE  Refers
    <2>1. \/ UNCHANGED <<table, go>>
          \/ \E id \in Ids : Start(c, id) \/ CloseIO(c, id) \/ Delete(c, id)
      BY <1>5 DEF Call, Creates, CreateUnconfigured, StartWithoutStreams, DeleteAgain,
                  DeleteRefused, Pause, Resume, KillRequest, Signal, Wait, Read, Shutdown,
                  svc, vars
    <2> QED
      BY <1>1, <1>2, <1>3, <1>4, <2>1
  <1>6. ASSUME NEW c \in Clients, Continue(c) \/ WaitCancelled(c)
        PROVE  Refers
    BY <1>1, <1>6 DEF Continue, CloseIODone, WaitSignalled, WaitDone, Exit, WaitCancelled, svc
  <1>7. ASSUME NEW r \in Runs,
               \/ Waiter(r) \/ WaiterGivesUp(r)
               \/ StdinInterrupted(r) \/ StdinKills(r) \/ StdinEnds(r) \/ StdoutEnds(r)
               \/ ioCopy(r)
        PROVE  Refers
    <2>1. table' = table
      BY <1>7 DEF Waiter, WaiterSignalled, WaiterKills, WaiterStops, WaiterReports,
            WaiterGivesUp, StdinInterrupted, StdinKills, StdinEnds, StdoutEnds, ioCopy, svc
    <2>2. PICK g \in Goroutines :
             /\ go' = [go EXCEPT ![r] = g]
             /\ g.waiter = "none" \/ go[r].waiter # "none"
             /\ g.waiter = "lock" => go[r].waiter = "lock" \/ task[r[1]].exitIOch
      <3>1. go[r] \in Goroutines
        BY <1>0 DEF TypeOK
      <3> QED
        BY <1>7, <3>1 DEF Waiter, WaiterSignalled, WaiterKills, WaiterStops, WaiterReports,
              WaiterGivesUp, StdinInterrupted, StdinKills, StdinEnds, StdoutEnds, ioCopy, Goroutines
    <2> QED
      BY <1>0, <2>1, <2>2 DEF TypeOK
  <1>8. Events \/ Ended => Refers
    BY <1>1 DEF Events, Send, Forward, reportExit, Ended, svc, vars
  <1> QED
    BY <1>5, <1>6, <1>7, <1>8 DEF Next

\* What is stopped or recorded has its streams closed after every step.
LEMMA SignalStep ==
    ASSUME SignalInv, [Next]_vars
    PROVE  SignalInv'
  <1>1. TypeInv'
    BY TypeStep
  <1>2. CASE Next /\ ~Creates
    <2>1. Advance(task')
      BY <1>2, StepAdvances
    <2>2. StoppedIsSignalled' /\ ExitedIsSignalled'
      BY <2>1 DEF Advance, StoppedIsSignalled, ExitedIsSignalled
    <2>3. FoundIsBorn'
      <3>1. ASSUME NEW id \in Ids, table'[id] # 0
            PROVE  task'[<<id, table'[id]>>].status # "none"
        <4>1. table'[id] = table[id] /\ Found(id)
          BY <1>2, <3>1, StepRefers DEF Found
        <4>2. <<id, table[id]>> \in Tasks /\ task[<<id, table[id]>>].status # "none"
          BY <4>1, FoundIsTask DEF SignalInv, TypeInv, FoundIsBorn, TaskOf
        <4> QED
          BY <2>1, <4>1, <4>2 DEF Advance
      <3> QED
        BY <3>1 DEF FoundIsBorn, Found, TaskOf
    <2>4. ASSUME NEW r \in Runs
          PROVE  /\ go'[r].waiter # "none" => task'[r[1]].status # "none"
                 /\ go'[r].waiter = "lock" => task'[r[1]].exitIOch
      <3>1. r[1] \in Tasks
        BY DEF Runs
      <3>2. go'[r].waiter # "none" => task[r[1]].status # "none"
        BY <1>2, StepRefers DEF SignalInv, RunIsBorn, FoundIsBorn
      <3>3. go'[r].waiter = "lock" => task[r[1]].exitIOch
        BY <1>2, StepRefers DEF SignalInv, LockIsSignalled
      <3> QED
        BY <2>1, <3>1, <3>2, <3>3 DEF Advance
    <2> QED
      BY <1>1, <2>2, <2>3, <2>4 DEF SignalInv, RunIsBorn, LockIsSignalled
  <1>3. ASSUME UNCHANGED <<svc, go>>
        PROVE  SignalInv'
    BY <1>1, <1>3 DEF SignalInv, StoppedIsSignalled, ExitedIsSignalled, FoundIsBorn, RunIsBorn,
                      LockIsSignalled, Found, TaskOf, svc
  <1>4. ASSUME NEW c \in Clients, NEW id \in Ids, Create(c, id)
        PROVE  SignalInv'
    <2>1. CASE "relock" \notin Fixed
      BY <1>3, <1>4, <2>1 DEF Create
    <2>2. CASE "relock" \in Fixed
      <3>1. PICK n \in 1..Lives, io \in SUBSET {"in", "out"} :
               /\ task[<<id, n>>].status = "none"
               /\ table' = [table EXCEPT ![id] = n]
               /\ sandbox' = TRUE
               /\ task' = [task EXCEPT ![<<id, n>>] =
                             [Unborn EXCEPT !.status = "CREATED", !.io = io]]
               /\ ReplySending(c, "create", <<id, n>>)
        BY <1>4, <2>2, CreateEffect
      <3>2. go' = go /\ TypeOK
        BY <1>4 DEF Create, SignalInv, TypeInv
      <3>3. \A t \in Tasks :
               \/ t # <<id, n>> /\ task'[t] = task[t]
               \/ /\ t = <<id, n>>
                  /\ task'[t].status = "CREATED" /\ task'[t].exited = FALSE
        BY <3>1, <3>2 DEF TypeOK, Unborn
      <3>4. StoppedIsSignalled' /\ ExitedIsSignalled'
        BY <3>3 DEF SignalInv, StoppedIsSignalled, ExitedIsSignalled
      <3>5. FoundIsBorn'
        <4>1. ASSUME NEW i \in Ids, table'[i] # 0
              PROVE  task'[<<i, table'[i]>>].status # "none"
          <5>1. CASE i = id
            <6>1. <<i, table'[i]>> = <<id, n>> /\ <<id, n>> \in Tasks
              BY <3>1, <3>2, <5>1 DEF TypeOK, Tasks
            <6> QED
              BY <3>3, <6>1
          <5>2. CASE i # id
            <6>1. table'[i] = table[i] /\ Found(i)
              BY <3>1, <3>2, <4>1, <5>2 DEF TypeOK, Found
            <6>2. TaskOf(i) \in Tasks /\ task[TaskOf(i)].status # "none"
              BY <3>2, <6>1, FoundIsTask DEF SignalInv, FoundIsBorn
            <6> QED
              BY <3>3, <6>1, <6>2 DEF TaskOf
          <5> QED
            BY <5>1, <5>2
        <4> QED
          BY <4>1 DEF FoundIsBorn, Found, TaskOf
      <3>6. RunIsBorn' /\ LockIsSignalled'
        <4>1. \A r \in Runs : r[1] \in Tasks
          BY DEF Runs
        <4> QED
          BY <3>1, <3>2, <3>3, <4>1 DEF SignalInv, RunIsBorn, LockIsSignalled
      <3> QED
        BY <1>1, <3>4, <3>5, <3>6 DEF SignalInv
    <2> QED
      BY <2>1, <2>2
  <1>5. UNCHANGED vars => UNCHANGED <<svc, go>>
    BY DEF vars, svc
  <1> QED
    BY <1>2, <1>3, <1>4, <1>5 DEF Creates

\* A handler that starts with the mutex free keeps the order, if it sends no exit
\* and launches a waiter only for the task whose start it is about to send.
LEMMA HandlerKeepsOrder ==
    ASSUME OrderInv, TypeInv', NEW c \in Clients, mu = Free, UNCHANGED <<ec, told>>,
           out'.kind # "exit",
           mu' = Free => out' = NoEvent,
           \A d \in Clients : rpc'[d].at = "closing" => mu' = d /\ out' = NoEvent,
           \A r \in Runs : \/ go'[r].waiter = go[r].waiter
                           \/ /\ go'[r].waiter = "select"
                              /\ out' = [kind |-> "start", task |-> r[1]]
    PROVE  OrderInv'
  <1>1. out = NoEvent
    BY DEF OrderInv, SenderHolds
  <1>2. \A r \in Runs : go[r].waiter # "none" => r[1] \in told
    BY <1>1 DEF OrderInv, RunIsTold, NoEvent
  <1>3. RunIsTold' /\ ReportIsTold'
    BY <1>2 DEF RunIsTold, ReportIsTold
  <1>4. SenderHolds' /\ ClosingHolds' /\ ExitAfterStart'
    BY DEF SenderHolds, ClosingHolds, ExitAfterStart
  <1>5. HeardIsTold'
    BY DEF OrderInv, HeardIsTold
  <1> QED
    BY <1>3, <1>4, <1>5 DEF OrderInv

\* With the mutex free no handler is in CloseIO.
LEMMA FreeIsOpen ==
    ASSUME OrderInv, mu = Free
    PROVE  \A d \in Clients : rpc[d].at # "closing"
  BY ServiceAssumption DEF OrderInv, ClosingHolds, ServiceAssumption

\* No step lets an exit overtake its start.
LEMMA OrderStep ==
    ASSUME SignalInv, OrderInv, [Next]_vars
    PROVE  OrderInv'
  <1>0. TypeInv' /\ TypeOK
    BY TypeStep DEF SignalInv, TypeInv
  <1>1. ASSUME NEW c \in Clients, Call(c)
        PROVE  OrderInv'
    <2>1. mu = Free /\ out = NoEvent /\ c # Free
      <3>1. mu = Free
        BY <1>1 DEF Call, CreateUnconfigured, Create, StartWithoutStreams, Start, DeleteAgain,
             DeleteRefused, Delete, Pause, Resume, KillRequest, Signal, CloseIO, Wait, Read,
             Shutdown, Enter
      <3> QED
        BY <3>1, ServiceAssumption DEF OrderInv, SenderHolds, ServiceAssumption
    <2>2. \A d \in Clients : rpc[d].at # "closing"
      BY <2>1, FreeIsOpen
    <2>3. ASSUME NEW kind \in Kinds \ {"exit"}, NEW t, ReplySending(c, kind, t),
                 UNCHANGED <<ec, told>>,
                 \A r \in Runs : \/ go'[r].waiter = go[r].waiter
                                 \/ go'[r].waiter = "select" /\ kind = "start" /\ t = r[1]
          PROVE  OrderInv'
      <3>1. mu' = c /\ out' = [kind |-> kind, task |-> t]
        BY <2>3 DEF ReplySending
      <3>2. \A d \in Clients : rpc'[d].at # "closing"
        BY <1>0, <2>2, <2>3 DEF ReplySending, TypeOK, Request
      <3> QED
        BY <1>0, <2>1, <2>3, <3>1, <3>2, HandlerKeepsOrder
    <2>4. ASSUME UNCHANGED <<go, ec, told, lock>>,
                 \A d \in Clients : rpc'[d].at # "closing"
          PROVE  OrderInv'
      BY <1>0, <2>1, <2>4, HandlerKeepsOrder DEF lock, NoEvent
    <2>5. ASSUME Reply(c), UNCHANGED <<go, ec, told>>
          PROVE  OrderInv'
      <3>1. \A d \in Clients : rpc'[d].at # "closing"
        BY <1>0, <2>2, <2>5 DEF Reply, NoRequest, TypeOK
      <3> QED
        BY <2>4, <2>5, <3>1 DEF Reply
    <2>6. ASSUME NEW id \in Ids, Create(c, id)
          PROVE  OrderInv'
      <3>1. CASE "relock" \notin Fixed
        <4>1. /\ rpc' = [rpc EXCEPT ![c].at = "relock"] /\ mu' = c
              /\ UNCHANGED <<go, out, ec, told>>
          BY <2>6, <3>1 DEF Create, svc, bus
        <4>2. \A d \in Clients : rpc'[d].at # "closing"
          BY <1>0, <2>2, <4>1 DEF TypeOK, Request
        <4> QED
          BY <1>0, <2>1, <4>1, <4>2, HandlerKeepsOrder DEF NoEvent
      <3>2. CASE "relock" \in Fixed
        <4>1. PICK n \in Fresh(id) : ReplySending(c, "create", <<id, n>>)
          BY <2>6, <3>2 DEF Create
        <4> QED
          BY <2>3, <2>6, <4>1 DEF Create, bus, Kinds
      <3> QED
        BY <3>1, <3>2
    <2>7. ASSUME NEW id \in Ids, Start(c, id)
          PROVE  OrderInv'
      <3>1. PICK j \in 1..Starts :
               go' = [go EXCEPT ![<<TaskOf(id), j>>] = Launched(task[TaskOf(id)].io)]
        BY <2>7 DEF Start, Launch, Unused
      <3>2. Launched(task[TaskOf(id)].io).waiter = "select"
        BY DEF Launched, NotRun
      <3>3. \A r \in Runs : \/ go'[r].waiter = go[r].waiter
                            \/ go'[r].waiter = "select" /\ TaskOf(id) = r[1]
        BY <1>0, <3>1, <3>2 DEF TypeOK, Runs
      <3> QED
        BY <2>3, <2>7, <3>3 DEF Start, bus, Kinds
    <2>8. ASSUME NEW id \in Ids, DeleteAgain(c, id) \/ Delete(c, id) \/ Pause(c, id) \/ Resume(c, id)
          PROVE  OrderInv'
      <3>1. UNCHANGED <<go, ec, told>>
        BY <2>8 DEF DeleteAgain, Delete, Pause, Resume, bus
      <3>2. \/ Reply(c)
            \/ ReplySending(c, "delete", NoTask) \/ ReplySending(c, "delete", TaskOf(id))
            \/ ReplySending(c, "paused", TaskOf(id)) \/ ReplySending(c, "resumed", TaskOf(id))
        BY <2>8 DEF DeleteAgain, Delete, Pause, Resume
      <3> QED
        BY <2>3, <2>5, <3>1, <3>2 DEF Kinds
    <2>9. ASSUME NEW id \in Ids, CloseIO(c, id)
          PROVE  OrderInv'
      <3>1. \A r \in Runs : go'[r].waiter = go[r].waiter
        BY <1>0, <2>9 DEF CloseIO, TypeOK, Goroutines
      <3>2. /\ mu' = c /\ out' = NoEvent /\ UNCHANGED <<ec, told>>
            /\ \A d \in Clients : rpc'[d].at = "closing" => d = c
        BY <1>0, <2>1, <2>2, <2>9 DEF CloseIO, TypeOK, bus
      <3> QED
        BY <1>0, <2>1, <3>1, <3>2, HandlerKeepsOrder DEF NoEvent
    <2>10. ASSUME \/ \E id \in Ids :
                        \/ CreateUnconfigured(c, id) \/ StartWithoutStreams(c, id)
                        \/ DeleteRefused(c, id) \/ KillRequest(c, id) \/ Signal(c, id)
                        \/ Wait(c, id)
                  \/ Read(c) \/ Shutdown(c)
           PROVE  OrderInv'
      <3>1. UNCHANGED <<go, ec, told, lock>>
        BY <2>10 DEF CreateUnconfigured, StartWithoutStreams, DeleteRefused, KillRequest, Signal,
              Wait, Read, Shutdown, Reply, lock, bus, vars
      <3>2. \A d \in Clients : rpc'[d].at # "closing"
        <4>1. CASE \E id \in Ids : Wait(c, id)
          BY <1>0, <2>2, <4>1 DEF Wait, TypeOK
        <4>2. CASE ~\E id \in Ids : Wait(c, id)
          BY <1>0, <2>2, <2>10, <4>2 DEF CreateUnconfigured, StartWithoutStreams, DeleteRefused,
              KillRequest, Signal, Read, Shutdown, Reply, NoRequest, TypeOK, Request, vars
        <4> QED
          BY <4>1, <4>2
      <3> QED
        BY <2>4, <3>1, <3>2
    <2> QED
      BY <1>1, <2>6, <2>7, <2>8, <2>9, <2>10 DEF Call
  <1>2. ASSUME NEW c \in Clients, CloseIODone(c)
        PROVE  OrderInv'
    <2>1. out = NoEvent /\ mu = c
      BY <1>2 DEF CloseIODone, OrderInv, ClosingHolds
    <2>2. mu' = Free /\ UNCHANGED <<go, out, ec, told>>
      BY <1>2 DEF CloseIODone, svc, bus
    <2>3. \A d \in Clients : rpc'[d].at # "closing"
      BY <1>0, <1>2, <2>1 DEF CloseIODone, NoRequest, OrderInv, ClosingHolds, TypeOK
    <2> QED
      BY <1>0, <2>1, <2>2, <2>3 DEF OrderInv, SenderHolds, ClosingHolds, ExitAfterStart, RunIsTold,
            ReportIsTold, HeardIsTold
  <1>3. ASSUME NEW c \in Clients, WaitSignalled(c) \/ WaitDone(c) \/ Exit(c) \/ WaitCancelled(c)
        PROVE  OrderInv'
    <2>1. UNCHANGED <<go, lock, ec, told>>
      BY <1>3 DEF WaitSignalled, WaitDone, Exit, WaitCancelled, Reply, lock, bus
    <2>2. \A d \in Clients : rpc'[d].at = "closing" => rpc[d].at = "closing"
      BY <1>0, <1>3 DEF WaitSignalled, WaitDone, Exit, WaitCancelled, Reply, NoRequest, TypeOK, Request
    <2> QED
      BY <1>0, <2>1, <2>2 DEF OrderInv, SenderHolds, ClosingHolds, ExitAfterStart, RunIsTold,
            ReportIsTold, HeardIsTold, lock
  <1>4. ASSUME NEW r \in Runs,
               \/ Waiter(r) \/ WaiterGivesUp(r)
               \/ StdinInterrupted(r) \/ StdinKills(r) \/ StdinEnds(r) \/ StdoutEnds(r)
               \/ ioCopy(r)
        PROVE  OrderInv'
    <2>1. UNCHANGED <<rpc, lock, told>>
      BY <1>4 DEF Waiter, WaiterSignalled, WaiterKills, WaiterStops, WaiterReports,
            WaiterGivesUp, StdinInterrupted, StdinKills, StdinEnds, StdoutEnds, ioCopy, bus
    <2>2. PICK g \in Goroutines :
             /\ go' = [go EXCEPT ![r] = g]
             /\ g.waiter = "none" \/ go[r].waiter # "none"
             /\ g.waiter = "report" => go[r].waiter = "report" \/ (mu = Free /\ go[r].waiter = "lock")
      <3>1. go[r] \in Goroutines
        BY <1>0 DEF TypeOK
      <3> QED
        BY <1>4, <3>1 DEF Waiter, WaiterSignalled, WaiterKills, WaiterStops, WaiterReports,
              WaiterGivesUp, StdinInterrupted, StdinKills, StdinEnds, StdoutEnds, ioCopy, Goroutines
    <2>3. ec' = ec \/ (ec' = r[1] /\ go[r].waiter = "report")
      BY <1>4 DEF Waiter, WaiterSignalled, WaiterKills, WaiterStops, WaiterReports,
            WaiterGivesUp, StdinInterrupted, StdinKills, StdinEnds, StdoutEnds, ioCopy, bus
    <2>4. mu = Free /\ go[r].waiter = "lock" => r[1] \in told
      BY DEF OrderInv, SenderHolds, RunIsTold, NoEvent
    <2>5. \A q \in Runs : go'[q] = IF q = r THEN g ELSE go[q]
      BY <1>0, <2>2 DEF TypeOK
    <2>6. ReportIsTold'
      BY <2>1, <2>2, <2>4, <2>5 DEF OrderInv, ReportIsTold
    <2>7. RunIsTold'
      BY <2>1, <2>2, <2>5 DEF OrderInv, RunIsTold, lock
    <2>8. HeardIsTold'
      BY <2>1, <2>3 DEF OrderInv, HeardIsTold, ReportIsTold
    <2> QED
      BY <1>0, <2>1, <2>6, <2>7, <2>8 DEF OrderInv, SenderHolds, ClosingHolds, ExitAfterStart, lock
  <1>5. CASE Send
    <2>1. /\ out # NoEvent /\ out' = NoEvent /\ mu' = Free /\ go' = go
          /\ ec' \in {ec, NoTask} /\ told \subseteq told'
          /\ out.kind = "start" => out.task \in told'
      BY <1>5 DEF Send
    <2>2. \A d \in Clients : rpc'[d].at # "closing"
      BY <1>0, <1>5 DEF Send, NoRequest, OrderInv, ClosingHolds, TypeOK
    <2>3. RunIsTold' /\ ReportIsTold'
      BY <2>1 DEF OrderInv, RunIsTold, ReportIsTold
    <2>4. HeardIsTold'
      BY <2>1 DEF OrderInv, HeardIsTold
    <2> QED
      BY <1>0, <2>1, <2>2, <2>3, <2>4 DEF OrderInv, SenderHolds, ClosingHolds, ExitAfterStart, NoEvent
  <1>6. CASE reportExit
    <2>1. /\ mu = Free /\ out = NoEvent /\ mu' = Listener /\ Listener # Free
          /\ ec # NoTask /\ out' = [kind |-> "exit", task |-> ec]
          /\ UNCHANGED <<rpc, go, ec, told>>
      BY <1>6, ServiceAssumption DEF reportExit, OrderInv, SenderHolds, ServiceAssumption, bus
    <2>2. \A d \in Clients : rpc'[d].at # "closing"
      BY <2>1, FreeIsOpen
    <2>3. ExitAfterStart' /\ HeardIsTold'
      BY <2>1 DEF OrderInv, HeardIsTold, ExitAfterStart
    <2>4. RunIsTold' /\ ReportIsTold'
      BY <2>1 DEF OrderInv, RunIsTold, ReportIsTold, NoEvent
    <2> QED
      BY <1>0, <2>1, <2>2, <2>3, <2>4 DEF OrderInv, SenderHolds, ClosingHolds
  <1>7. CASE Forward \/ Ended \/ UNCHANGED vars
    <2>1. UNCHANGED <<rpc, go, mu, out, ec, told>>
      BY <1>7 DEF Forward, Ended, lock, vars
    <2> QED
      BY <1>0, <2>1 DEF OrderInv, SenderHolds, ClosingHolds, ExitAfterStart, RunIsTold,
            ReportIsTold, HeardIsTold
  <1> QED
    BY <1>1, <1>2, <1>3, <1>4, <1>5, <1>6, <1>7 DEF Next, Continue, Events
-----------------------------------------------------------------------------
(* Theorems *)

\* Both invariants hold of a new service.
LEMMA InitInv ==
    ASSUME Init
    PROVE  SignalInv /\ OrderInv
  <1>1. TypeOK
    <2>1. Unborn \in ShimContainer
      BY DEF Unborn, ShimContainer
    <2>2. NotRun \in Goroutines
      BY DEF NotRun, Goroutines
    <2>3. NoRequest \in Request
      BY DEF NoRequest, Request
    <2>4. 0 \in 0..Lives /\ 0 \in 0..Slots
      BY ServiceAssumption DEF ServiceAssumption
    <2> QED
      BY <2>1, <2>2, <2>3, <2>4 DEF Init, TypeOK
  <1>2. StartHasTask /\ SenderHolds /\ ExitAfterStart /\ HeardIsTold
    BY DEF Init, StartHasTask, SenderHolds, ExitAfterStart, HeardIsTold, NoEvent
  <1>3. ClosingHolds
    BY DEF Init, ClosingHolds, NoRequest
  <1>4. RunIsTold /\ ReportIsTold /\ RunIsBorn /\ LockIsSignalled
    BY DEF Init, RunIsTold, ReportIsTold, RunIsBorn, LockIsSignalled, NotRun
  <1>5. StoppedIsSignalled /\ ExitedIsSignalled /\ FoundIsBorn
    BY DEF Init, StoppedIsSignalled, ExitedIsSignalled, FoundIsBorn, Found, Unborn
  <1> QED
    BY <1>1, <1>2, <1>3, <1>4, <1>5 DEF SignalInv, OrderInv, TypeInv

LEMMA SignalAlways == Spec => []SignalInv
  BY InitInv, SignalStep, PTL DEF Spec

\* Type correctness.
THEOREM ServiceTypes == Spec => []TypeOK
  <1>1. SignalInv => TypeOK
    BY DEF SignalInv, TypeInv
  <1> QED
    BY <1>1, SignalAlways, PTL

\* A task that says stopped has its streams closed, whichever handler or
\* goroutine said so: nobody who waits for it, in Wait or in waitContainerExit,
\* is left waiting.
THEOREM StoppedSafety == Spec => []StoppedIsSignalled
  <1>1. SignalInv => StoppedIsSignalled
    BY DEF SignalInv
  <1> QED
    BY <1>1, SignalAlways, PTL

\* A task's exit is sent only after its start, because the handler that launches
\* its goroutines keeps the mutex until the start is sent, and the listener
\* takes the mutex to report.
THEOREM ExitOrder == Spec => []ExitAfterStart
  <1>1. OrderInv => ExitAfterStart
    BY DEF OrderInv
  <1>2. SignalInv /\ OrderInv /\ [Next]_vars => OrderInv'
    BY OrderStep
  <1> QED
    BY <1>1, <1>2, InitInv, SignalAlways, PTL DEF Spec
=============================================================================
