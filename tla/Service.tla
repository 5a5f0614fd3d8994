------------------------------ MODULE Service ------------------------------
(***************************************************************************)
(* The shim's task service (pkg/shim): the handlers of containerd's task   *)
(* API under the service's one mutex, the goroutines that a started task   *)
(* leaves behind (waitContainerExit, and ioCopy with its two copies), and  *)
(* the two channels that carry exits and events to containerd.             *)
(*                                                                         *)
(* A handler is one step from taking the mutex to giving it back, or to    *)
(* the point where it blocks with the mutex held: it sends an event while  *)
(* holding it, and CloseIO waits for a goroutine.  What the sandbox        *)
(* answers is left open here; module Sandbox says what it does.            *)
(*                                                                         *)
(* Three statements stop the code before a task exists or is reported      *)
(* ended.  Fixed names those taken as repaired, so that what lies behind   *)
(* them can be examined; the code as it is has Fixed = {}.                 *)
(***************************************************************************)
EXTENDS Naturals

CONSTANTS Ids,        \* container ids
          Owner,      \* the one whose type CanBeSandbox
          CriSandbox, \* Owner is a PodSandbox, not a SingleContainer
          IoKinds,    \* the fifos a request for an id may name: sets of "in", "out"
          Clients,    \* concurrent requests
          Requests,   \* the calls they make
          Slots,      \* capacity of the event channel (channelSize)
          Lives,      \* bound: how often an id is created
          Starts,     \* bound: how often a task is started
          Fixed,      \* "relock": create does not lock s.mu again; "map": New
                      \* makes s.containers; "ec": New makes s.ec
          Free, Listener \* who holds the mutex, besides the clients

Calls == {"Create", "Start", "Delete", "Pause", "Resume", "Kill", "Signal",
          "CloseIO", "Wait", "Read", "Shutdown"}

ASSUME ServiceAssumption ==
    /\ Owner \in Ids
    /\ CriSandbox \in BOOLEAN
    /\ IoKinds \in [Ids -> SUBSET SUBSET {"in", "out"}]
    /\ Requests \subseteq Calls
    /\ Slots \in Nat \ {0} /\ Lives \in Nat \ {0} /\ Starts \in Nat \ {0}
    /\ Fixed \subseteq {"relock", "map", "ec"}
    /\ Free # Listener /\ {Free, Listener} \cap Clients = {}

VARIABLES
    table,   \* s.containers: which task of an id it holds, 0 if none
    sandbox, \* s.sandbox is not nil
    task,    \* the shimContainer objects
    go,      \* the goroutines of each start of a task
    rpc,     \* the request each client makes
    mu,      \* who holds s.mu
    out,     \* the event its holder is about to send
    events,  \* how many events are in the event channel
    ec,      \* the task whose exit the listener is reporting
    told,    \* the tasks whose start has been sent
    proc     \* the process is up, has exited, or why it panicked

svc  == <<table, sandbox, task>>
lock == <<mu, out>>
bus  == <<events, ec, told>>
vars == <<table, sandbox, task, go, rpc, mu, out, events, ec, told, proc>>

Tasks == Ids \X (1..Lives)
Runs  == Tasks \X (1..Starts)

Status == {"CREATED", "RUNNING", "PAUSING", "PAUSED", "STOPPED", "UNKNOWN"}

\* exitIOch and stdinCloser: closed; exitIoOnce: used; exited: exit code and
\* time are set.
ShimContainer ==
    [status : Status \cup {"none"}, io : SUBSET {"in", "out"}, exitIOch : BOOLEAN,
     exitIoOnce : BOOLEAN, stdinCloser : BOOLEAN, exited : BOOLEAN]

Unborn == [status |-> "none", io |-> {}, exitIOch |-> FALSE, exitIoOnce |-> FALSE,
           stdinCloser |-> FALSE, exited |-> FALSE]

Goroutines ==
    [waiter : {"none", "select", "kill", "again", "lock", "report", "done"},
     stdin  : {"none", "read", "kill", "done"},
     fifo   : {"none", "open", "shut"},
     stdout : {"none", "copy", "done"},
     copy   : {"none", "wait", "done"}]

NotRun == [waiter |-> "none", stdin |-> "none", fifo |-> "none", stdout |-> "none",
           copy |-> "none"]

Kinds == {"create", "start", "exit", "delete", "paused", "resumed"}

NoTask == <<Owner, 0>>

\* An event names its container; the task it is about is known here only.
Event   == [kind : Kinds, task : Tasks \cup {NoTask}]
NoEvent == [kind |-> "none", task |-> NoTask]

\* Where the handler of a client's request is, and the task it looked up.
Request == [at : {"idle", "relock", "send", "closing", "waiting", "fetch", "exit"},
            task : Tasks \cup {NoTask}]
NoRequest == [at |-> "idle", task |-> NoTask]

TypeOK ==
    /\ table \in [Ids -> 0..Lives]
    /\ sandbox \in BOOLEAN
    /\ task \in [Tasks -> ShimContainer]
    /\ go \in [Runs -> Goroutines]
    /\ rpc \in [Clients -> Request]
    /\ mu \in Clients \cup {Free, Listener}
    /\ out \in Event \cup {NoEvent}
    /\ events \in 0..Slots
    /\ ec \in Tasks \cup {NoTask}
    /\ told \in SUBSET Tasks
    /\ proc \in {"up", "exited", "nilconfig", "nilmap", "reclosed", "doubleclose"}

Init ==
    /\ table = [id \in Ids |-> 0]
    /\ sandbox = FALSE
    /\ task = [t \in Tasks |-> Unborn]
    /\ go = [r \in Runs |-> NotRun]
    /\ rpc = [c \in Clients |-> NoRequest]
    /\ mu = Free
    /\ out = NoEvent
    /\ events = 0
    /\ ec = NoTask
    /\ told = {}
    /\ proc = "up"

Up == proc = "up"
-----------------------------------------------------------------------------
(* Requests *)

\* A client's request has reached the service and takes the mutex.
Enter(c, call) ==
    /\ Up
    /\ call \in Requests
    /\ mu = Free
    /\ rpc[c].at = "idle"

\* It returns, having given the mutex back, ...
Reply(c) == rpc' = [rpc EXCEPT ![c] = NoRequest] /\ UNCHANGED lock

\* ... or is about to send an event, which it does with the mutex held.
ReplySending(c, kind, t) ==
    /\ rpc' = [rpc EXCEPT ![c].at = "send"]
    /\ mu' = c
    /\ out' = [kind |-> kind, task |-> t]

\* Mutant: an event does not wait for a slot.
Send_unbounded ==
    /\ Up
    /\ out # NoEvent
    /\ events' = events + 1
    /\ told' = IF out.kind = "start" THEN told \cup {out.task} ELSE told
    /\ out' = NoEvent
    /\ mu' = Free
    /\ IF mu = Listener
       THEN ec' = NoTask /\ UNCHANGED rpc
       ELSE rpc' = [rpc EXCEPT ![mu] = NoRequest] /\ UNCHANGED ec
    /\ UNCHANGED <<svc, go, proc>>

Send ==
    /\ Up
    /\ out # NoEvent /\ events < Slots
    /\ events' = events + 1
    /\ told' = IF out.kind = "start" THEN told \cup {out.task} ELSE told
    /\ out' = NoEvent
    /\ mu' = Free
    /\ IF mu = Listener
       THEN ec' = NoTask /\ UNCHANGED rpc
       ELSE rpc' = [rpc EXCEPT ![mu] = NoRequest] /\ UNCHANGED ec
    /\ UNCHANGED <<svc, go, proc>>

\* Mutant: the forwarder is not started.
Forward_never == FALSE /\ UNCHANGED vars

\* The forwarder publishes an event or, at the latest after its timeout, not.
Forward ==
    /\ Up
    /\ events > 0
    /\ events' = events - 1
    /\ UNCHANGED <<svc, go, rpc, lock, ec, told, proc>>

Found(id) == table[id] # 0
TaskOf(id) == <<id, table[id]>>

\* Closing a channel twice panics.
ProcessAfter(panics) == proc' = IF panics THEN "doubleclose" ELSE proc

ioExit(rec) == [rec EXCEPT !.exitIOch = TRUE, !.exitIoOnce = TRUE]
ioExitPanics(rec) == rec.exitIOch /\ ~rec.exitIoOnce

\* getContainerStatus: what StatusContainer says of a container, and unknown if
\* it fails, as it does for a stopped workload, which has no client.  The infra
\* container has none to miss, but is stopped only with the sandbox.
ContainerStatus(t) ==
    {"CREATED", "RUNNING", "PAUSED", "UNKNOWN"} \cup
    (IF task[t].exited THEN {"STOPPED"} ELSE {})
-----------------------------------------------------------------------------
(* Create, Start, Delete *)

Unborns(id) == {n \in 1..Lives : task[<<id, n>>].status = "none"}

\* The next life of an id.
Fresh(id) == {n \in Unborns(id) : \A m \in Unborns(id) : n <= m}

\* The error of loadRuntimeConfig is shadowed: the first sandbox may then be
\* created from a nil config.
CreateUnconfigured(c, id) ==
    /\ Enter(c, "Create")
    /\ id = Owner /\ 1 \in Fresh(id)
    /\ "relock" \in Fixed
    /\ proc' = "nilconfig"
    /\ UNCHANGED <<svc, go, rpc, lock, bus>>

\* Create holds the mutex that loadRuntimeConfig and then Create itself take.
Create(c, id) ==
    /\ Enter(c, "Create")
    /\ IF "relock" \notin Fixed
       THEN /\ rpc' = [rpc EXCEPT ![c].at = "relock"]
            /\ mu' = c
            /\ UNCHANGED <<svc, out, proc>>
       ELSE \E n \in Fresh(id), io \in IoKinds[id] :
            /\ sandbox <=> id # Owner
            /\ sandbox' = TRUE
            /\ table' = [table EXCEPT ![id] = n]
            /\ task' = [task EXCEPT ![<<id, n>>] =
                           [Unborn EXCEPT !.status = "CREATED", !.io = io]]
            /\ proc' = IF "map" \in Fixed THEN proc ELSE "nilmap"
            /\ ReplySending(c, "create", <<id, n>>)
    /\ UNCHANGED <<go, bus>>

\* The sandbox has started the task, but its streams cannot be had: a scheme
\* that is not implemented, a fifo that cannot be opened, or a sandbox that is
\* not running.
StartWithoutStreams(c, id) ==
    /\ Enter(c, "Start")
    /\ Found(id) /\ sandbox
    /\ id # Owner \/ task[TaskOf(id)].io # {}
    /\ task' = [task EXCEPT ![TaskOf(id)].status = "RUNNING"]
    /\ Reply(c)
    /\ UNCHANGED <<table, sandbox, go, bus, proc>>

\* The goroutines of a start.  Without a fifo for stdin nothing copies it, and
\* stdinCloser is closed at once.
Launched(io) ==
    IF io = {}
    THEN [NotRun EXCEPT !.waiter = "select"]
    ELSE [waiter |-> "select",
          stdin  |-> IF "in" \in io THEN "read" ELSE "done",
          fifo   |-> IF "in" \in io THEN "open" ELSE "none",
          stdout |-> IF "out" \in io THEN "copy" ELSE "done",
          copy   |-> "wait"]

\* A task without streams has exited at once, unless it is the infra container.
ExitsAtOnce(t) == task[t].io = {} /\ ~(t[1] = Owner /\ CriSandbox)

Unused(t) == {k \in 1..Starts : go[<<t, k>>].waiter = "none"}

\* The task as a start leaves it.
Running(t) ==
    [task[t] EXCEPT !.status = "RUNNING", !.stdinCloser = @ \/ "in" \notin task[t].io,
                    !.exitIOch = @ \/ ExitsAtOnce(t), !.exitIoOnce = @ \/ ExitsAtOnce(t)]

Launch(t) == \E k \in Unused(t) : go' = [go EXCEPT ![<<t, k>>] = Launched(task[t].io)]

\* Mutant: the event of the start is not sent.
Start_silent(c, id) ==
    /\ Enter(c, "Start")
    /\ Found(id) /\ sandbox
    /\ Launch(TaskOf(id))
    /\ task' = [task EXCEPT ![TaskOf(id)] = Running(TaskOf(id))]
    /\ Reply(c)
    /\ UNCHANGED <<table, sandbox, bus, proc>>

\* A second start closes a channel twice if there is nothing to copy.
Start(c, id) ==
    /\ Enter(c, "Start")
    /\ Found(id) /\ sandbox
    /\ LET t == TaskOf(id)
       IN  /\ Launch(t)
           /\ task' = [task EXCEPT ![t] = Running(t)]
           /\ proc' = IF \/ "in" \notin task[t].io /\ task[t].stdinCloser
                         \/ ExitsAtOnce(t) /\ ioExitPanics(task[t])
                      THEN "reclosed" ELSE proc
           /\ ReplySending(c, "start", t)
    /\ UNCHANGED <<table, sandbox, bus>>

\* A container that is not there is reported deleted again.
DeleteAgain(c, id) ==
    /\ Enter(c, "Delete")
    /\ ~Found(id)
    /\ ReplySending(c, "delete", NoTask)
    /\ UNCHANGED <<svc, go, bus, proc>>

\* The container that came with the sandbox takes it along.
SandboxAfterDelete(id) == sandbox /\ id # Owner

\* The sandbox keeps a pod container, or its rootfs cannot be unmounted.
DeleteRefused(c, id) ==
    /\ Enter(c, "Delete")
    /\ Found(id)
    /\ sandbox' = SandboxAfterDelete(id)
    /\ Reply(c)
    /\ UNCHANGED <<table, task, go, bus, proc>>

Delete(c, id) ==
    /\ Enter(c, "Delete")
    /\ Found(id)
    /\ sandbox' = SandboxAfterDelete(id)
    /\ table' = [table EXCEPT ![id] = 0]
    /\ ReplySending(c, "delete", TaskOf(id))
    /\ UNCHANGED <<task, go, bus, proc>>
-----------------------------------------------------------------------------
(* Pause, Resume, Kill *)

SetStatus(t, s) == task' = [task EXCEPT ![t].status = s]

\* The task is marked before the sandbox is looked for.
Pause(c, id) ==
    /\ Enter(c, "Pause")
    /\ Found(id)
    /\ LET t == TaskOf(id)
       IN  \/ /\ ~sandbox
              /\ SetStatus(t, "PAUSING") /\ Reply(c)
           \/ /\ sandbox
              /\ SetStatus(t, "PAUSED") /\ ReplySending(c, "paused", t)
           \/ /\ sandbox
              /\ \E s \in ContainerStatus(t) : SetStatus(t, s)
              /\ Reply(c)
    /\ UNCHANGED <<table, sandbox, go, bus, proc>>

Resume(c, id) ==
    /\ Enter(c, "Resume")
    /\ Found(id) /\ sandbox
    /\ LET t == TaskOf(id)
       IN  \/ SetStatus(t, "RUNNING") /\ ReplySending(c, "resumed", t)
           \/ \E s \in ContainerStatus(t) : SetStatus(t, s) /\ Reply(c)
    /\ UNCHANGED <<table, sandbox, go, bus, proc>>

\* What SIGKILL or SIGTERM for an id can come to.
KillOutcome(tasks, box, err, panics) ==
    [task |-> tasks, sandbox |-> box, err |-> err, panics |-> panics]

\* Mutant: the task is stopped, its streams are not.
Kill_noIoExit(id) ==
    LET t == TaskOf(id)
    IN  IF ~Found(id) THEN {KillOutcome(task, sandbox, TRUE, FALSE)}
        ELSE IF task[t].status = "STOPPED" THEN {KillOutcome(task, sandbox, FALSE, FALSE)}
        ELSE IF id = Owner THEN {KillOutcome([task EXCEPT ![t].status = "STOPPED"],
                                             FALSE, FALSE, FALSE)}
        ELSE IF ~sandbox THEN {KillOutcome(task, sandbox, TRUE, FALSE)}
        ELSE {KillOutcome([task EXCEPT ![t].status = "UNKNOWN"], sandbox, FALSE, FALSE)}
             \cup {KillOutcome([task EXCEPT ![t].status = s], sandbox, TRUE, FALSE) :
                     s \in ContainerStatus(t)}

Kill(id) ==
    LET t == TaskOf(id)
        killed(s) == [task EXCEPT ![t] = ioExit([@ EXCEPT !.status = s])]
    IN  IF ~Found(id) THEN {KillOutcome(task, sandbox, TRUE, FALSE)}
        ELSE IF task[t].status = "STOPPED" THEN {KillOutcome(task, sandbox, FALSE, FALSE)}
        ELSE IF id = Owner
        THEN {KillOutcome(killed("STOPPED"), FALSE, FALSE, ioExitPanics(task[t]))}
        ELSE IF ~sandbox THEN {KillOutcome(task, sandbox, TRUE, FALSE)}
        ELSE {KillOutcome(killed("UNKNOWN"), sandbox, FALSE, ioExitPanics(task[t]))}
             \cup {KillOutcome([task EXCEPT ![t].status = s], sandbox, TRUE, FALSE) :
                     s \in ContainerStatus(t)}

KillRequest(c, id) ==
    /\ Enter(c, "Kill")
    /\ \E k \in Kill(id) :
          task' = k.task /\ sandbox' = k.sandbox /\ ProcessAfter(k.panics)
    /\ Reply(c)
    /\ UNCHANGED <<table, go, bus>>

\* Mutant: the error of the kill is logged only.
requestContainerKill_logged(t) == Kill(t[1])

\* A goroutine of t kills by id: it gets whatever task now has that id.  If
\* that fails, t's streams are closed all the same.
requestContainerKill(t) ==
    {IF k.err THEN [k EXCEPT !.task[t] = ioExit(@), !.panics = ioExitPanics(k.task[t])]
              ELSE k : k \in Kill(t[1])}

\* SIGSTOP and SIGCONT both pause, and leave a paused task's status alone: only
\* a pause that fails changes it.
Signal(c, id) ==
    /\ Enter(c, "Signal")
    /\ Found(id) /\ sandbox
    /\ task[TaskOf(id)].status \notin {"PAUSING", "STOPPED"}
    /\ \E s \in ContainerStatus(TaskOf(id)) : SetStatus(TaskOf(id), s)
    /\ Reply(c)
    /\ UNCHANGED <<table, sandbox, go, bus, proc>>
-----------------------------------------------------------------------------
(* CloseIO, Wait, Shutdown and the calls that change nothing here *)

Latest(t) == {k \in 1..Starts : /\ go[<<t, k>>].fifo # "none"
                                /\ \A j \in 1..Starts : go[<<t, j>>].fifo # "none" => j <= k}

\* The reader of stdin is closed, then its goroutine is waited for, with the
\* mutex held.
CloseIO(c, id) ==
    /\ Enter(c, "CloseIO")
    /\ Found(id)
    /\ go' = [r \in Runs |-> IF r[1] = TaskOf(id) /\ r[2] \in Latest(r[1])
                             THEN [go[r] EXCEPT !.fifo = "shut"] ELSE go[r]]
    /\ rpc' = [rpc EXCEPT ![c] = [at |-> "closing", task |-> TaskOf(id)]]
    /\ mu' = c
    /\ UNCHANGED <<svc, out, bus, proc>>

CloseIODone(c) ==
    /\ Up
    /\ rpc[c].at = "closing"
    /\ task[rpc[c].task].stdinCloser
    /\ rpc' = [rpc EXCEPT ![c] = NoRequest]
    /\ mu' = Free
    /\ UNCHANGED <<svc, go, out, bus, proc>>

\* Wait looks at the task, ...
Wait(c, id) ==
    /\ Enter(c, "Wait")
    /\ Found(id)
    /\ LET stopped == task[TaskOf(id)].status = "STOPPED"
       IN  rpc' = [rpc EXCEPT ![c] = [at |-> IF stopped THEN "fetch" ELSE "waiting",
                                      task |-> TaskOf(id)]]
    /\ UNCHANGED <<svc, go, lock, bus, proc>>

\* ... waits without the mutex until the streams are closed or it is given up, ...
WaitSignalled(c) ==
    /\ Up
    /\ rpc[c].at = "waiting"
    /\ task[rpc[c].task].exitIOch
    /\ rpc' = [rpc EXCEPT ![c].at = "fetch"]
    /\ UNCHANGED <<svc, go, lock, bus, proc>>

WaitCancelled(c) ==
    /\ Up
    /\ rpc[c].at = "waiting"
    /\ Reply(c)
    /\ UNCHANGED <<svc, go, bus, proc>>

\* ... and takes it once more to read exit code and time.
WaitDone(c) ==
    /\ Up
    /\ mu = Free
    /\ rpc[c].at = "fetch"
    /\ Reply(c)
    /\ UNCHANGED <<svc, go, bus, proc>>

\* State, Pids, Stats, Connect, ResizePty and Update; and any call that is
\* refused before it changes anything: a bad id, bundle or rootfs, a second
\* sandbox, a task or a sandbox that is not there, or the sandbox's own refusal.
Read(c) == Enter(c, "Read") /\ UNCHANGED vars

\* Shutdown looks at the table and gives the mutex back before it exits.
Shutdown(c) ==
    /\ Enter(c, "Shutdown")
    /\ \A id \in Ids : ~Found(id)
    /\ rpc' = [rpc EXCEPT ![c].at = "exit"]
    /\ UNCHANGED <<svc, go, lock, bus, proc>>

Exit(c) ==
    /\ Up
    /\ rpc[c].at = "exit"
    /\ proc' = "exited"
    /\ UNCHANGED <<svc, go, rpc, lock, bus>>
-----------------------------------------------------------------------------
(* The goroutines of a started task *)

\* waitContainerExit: until the streams are closed ...
WaiterSignalled(r) ==
    /\ Up
    /\ go[r].waiter \in {"select", "again"}
    /\ task[r[1]].exitIOch
    /\ go' = [go EXCEPT ![r].waiter = "lock"]
    /\ UNCHANGED <<svc, rpc, lock, bus, proc>>

\* ... or the timer runs out, or the context of the Start request ends, ...
HasTimer(r) == ~(r[1][1] = Owner /\ CriSandbox)

WaiterGivesUp(r) ==
    /\ Up
    /\ go[r].waiter = "select"
    /\ go' = [go EXCEPT ![r].waiter = "kill"]
    /\ UNCHANGED <<svc, rpc, lock, bus, proc>>

\* ... when it kills the task and waits for its streams again.
WaiterKills(r) ==
    /\ Up
    /\ mu = Free
    /\ go[r].waiter = "kill"
    /\ \E k \in requestContainerKill(r[1]) :
          task' = k.task /\ sandbox' = k.sandbox /\ ProcessAfter(k.panics)
    /\ go' = [go EXCEPT ![r].waiter = "again"]
    /\ UNCHANGED <<table, rpc, lock, bus>>

\* Then it stops the container or the sandbox, whose object stays.
WaiterStops(r) ==
    /\ Up
    /\ mu = Free
    /\ go[r].waiter = "lock"
    /\ task' = [task EXCEPT ![r[1]].status = "STOPPED", ![r[1]].exited = TRUE]
    /\ go' = [go EXCEPT ![r].waiter = "report"]
    /\ UNCHANGED <<table, sandbox, rpc, lock, bus, proc>>

\* Sending on the nil channel of the code as it is blocks for ever.
WaiterReports(r) ==
    /\ Up
    /\ go[r].waiter = "report"
    /\ "ec" \in Fixed /\ ec = NoTask
    /\ ec' = r[1]
    /\ go' = [go EXCEPT ![r].waiter = "done"]
    /\ UNCHANGED <<svc, rpc, lock, events, told, proc>>

reportExit ==
    /\ Up
    /\ mu = Free
    /\ ec # NoTask
    /\ mu' = Listener
    /\ out' = [kind |-> "exit", task |-> ec]
    /\ UNCHANGED <<svc, go, rpc, bus, proc>>

\* The copy of stdin finds a control character and kills the task ...
StdinInterrupted(r) ==
    /\ Up
    /\ go[r].stdin = "read" /\ go[r].fifo = "open"
    /\ go' = [go EXCEPT ![r].stdin = "kill"]
    /\ UNCHANGED <<svc, rpc, lock, bus, proc>>

\* ... before it closes stdinCloser, as its last act.
StdinKills(r) ==
    /\ Up
    /\ mu = Free
    /\ go[r].stdin = "kill"
    /\ \E k \in requestContainerKill(r[1]) :
          /\ task' = [k.task EXCEPT ![r[1]].stdinCloser = TRUE]
          /\ sandbox' = k.sandbox
          /\ ProcessAfter(k.panics \/ task[r[1]].stdinCloser)
    /\ go' = [go EXCEPT ![r].stdin = "done"]
    /\ UNCHANGED <<table, rpc, lock, bus>>

\* It reads the end of the fifo, an error, or finds its context ended.
StdinEnds(r) ==
    /\ Up
    /\ go[r].stdin = "read"
    /\ go' = [go EXCEPT ![r].stdin = "done"]
    /\ task' = [task EXCEPT ![r[1]].stdinCloser = TRUE]
    /\ ProcessAfter(task[r[1]].stdinCloser)
    /\ UNCHANGED <<table, sandbox, rpc, lock, bus>>

\* The copy of stdout closes the reader of stdin when it ends.
StdoutEnds(r) ==
    /\ Up
    /\ go[r].stdout = "copy"
    /\ go' = [go EXCEPT ![r].stdout = "done",
                        ![r].fifo = IF @ = "open" THEN "shut" ELSE @]
    /\ UNCHANGED <<svc, rpc, lock, bus, proc>>

\* ioCopy closes exitIOch itself, without exitIoOnce.
ioCopy(r) ==
    /\ Up
    /\ go[r].copy = "wait" /\ go[r].stdin = "done" /\ go[r].stdout = "done"
    /\ go' = [go EXCEPT ![r].copy = "done"]
    /\ task' = [task EXCEPT ![r[1]].exitIOch = TRUE]
    /\ ProcessAfter(task[r[1]].exitIOch)
    /\ UNCHANGED <<table, sandbox, rpc, lock, bus>>

\* The process has ended.
Ended == ~Up /\ UNCHANGED vars
-----------------------------------------------------------------------------
Call(c) ==
    \/ \E id \in Ids :
          \/ CreateUnconfigured(c, id) \/ Create(c, id)
          \/ StartWithoutStreams(c, id) \/ Start(c, id)
          \/ DeleteAgain(c, id) \/ DeleteRefused(c, id) \/ Delete(c, id)
          \/ Pause(c, id) \/ Resume(c, id) \/ KillRequest(c, id) \/ Signal(c, id)
          \/ CloseIO(c, id) \/ Wait(c, id)
    \/ Read(c) \/ Shutdown(c)

\* What goes on in a handler without its caller.
Continue(c) == CloseIODone(c) \/ WaitSignalled(c) \/ WaitDone(c) \/ Exit(c)

Waiter(r) ==
    WaiterSignalled(r) \/ WaiterKills(r) \/ WaiterStops(r) \/ WaiterReports(r)

\* What goes on in the copies without an end of the streams.
Copies(r) ==
    \/ StdinKills(r) \/ ioCopy(r)
    \/ go[r].fifo = "shut" /\ StdinEnds(r)

Events == Send \/ Forward \/ reportExit

Next ==
    \/ \E c \in Clients : Call(c) \/ Continue(c) \/ WaitCancelled(c)
    \/ \E r \in Runs :
          \/ Waiter(r) \/ WaiterGivesUp(r)
          \/ StdinInterrupted(r) \/ StdinKills(r) \/ StdinEnds(r) \/ StdoutEnds(r)
          \/ ioCopy(r)
    \/ Events
    \/ Ended

Spec == Init /\ [][Next]_vars

\* The mutex is handed over in the order of arrival, so who waits for it gets it
\* when it is free again and again; the timer runs out; a goroutine that can go
\* on does.  Nothing is assumed of clients, of streams or of contexts.
Fairness ==
    /\ \A c \in Clients : SF_vars(Continue(c))
    /\ \A r \in Runs :
          /\ SF_vars(Waiter(r))
          /\ SF_vars(Copies(r))
          /\ HasTimer(r) => WF_vars(WaiterGivesUp(r))
    /\ SF_vars(Send) /\ WF_vars(Forward) /\ SF_vars(reportExit)

FairSpec == Spec /\ Fairness
-----------------------------------------------------------------------------
(* Properties *)

\* Once a task says stopped, everyone waiting for its streams can go on.  Kill
\* answers a stopped task without touching them, so a waiter whose own kill
\* comes too late depends on this.
StoppedIsSignalled ==
    \A t \in Tasks : task[t].status = "STOPPED" => task[t].exitIOch

\* containerd never sees a task exit before it has seen it start, however soon
\* its goroutines end.
ExitAfterStart == out.kind = "exit" => out.task \in told

\* Whoever holds the mutex gives it back, though it sends events on a bounded
\* channel while it holds it: no call hangs the service.  This needs "relock"
\* and no CloseIO, which waits for a goroutine that may never have been started.
LockReleased == []<>(mu = Free \/ ~Up)

\* A started workload's goroutine ends, with the exit on its way to containerd:
\* the timer is there because no end of the RTOS is ever noticed.
WaitersEnd ==
    \A r \in Runs : HasTimer(r) /\ go[r].waiter = "select" ~> go[r].waiter = "done" \/ ~Up

\* A call of Wait for a started workload returns.
WaitReturns ==
    \A c \in Clients, r \in Runs :
        HasTimer(r) /\ go[r].waiter # "none" /\ rpc[c].at = "waiting" /\ rpc[c].task = r[1]
        ~> rpc[c].at = "idle" \/ ~Up

\* What follows is what the sources' own comments say.

\* "Wait for IO streams to close, or mock an exit after a timeout": the streams'
\* end and the mocked exit may both happen, in either order.
StreamsCloseOnce == proc # "doubleclose"

\* "Re-acquire lock to fetch final status/time": what a completed Wait answers
\* has been recorded.
WaitAnswersExit ==
    [][\A c \in Clients :
          rpc[c].at = "fetch" /\ rpc'[c].at = "idle" => task[rpc[c].task].exited]_vars
=============================================================================
