# Formal models of micrun

micrun is a containerd shim that runs RTOS images as containers: a *container*
is a *client* of the mica daemon (micad), started on a pedestal such as Xen.
This directory holds TLA+ models of the code at this commit, the TLC
configurations that check them on small instances, and proofs of their main
theorems for every instance. Source paths are relative to the repository root.

    tlc -config MCSandbox_pod.cfg MCSandbox        # one run
    tlc -config MCService_ends.cfg MCService
    tlapm Sandbox_proofs.tla                       # one proof module

## 1. The system

| part | source | state | operations |
|---|---|---|---|
| shim service | `pkg/shim/shim_services.go`, `create.go`, `start.go`, `delete.go`, `utils.go` | task table, sandbox object, config, one mutex | the task API: Create, Start, Delete, Pause, Resume, Kill, CloseIO, Update, Wait, Shutdown, Cleanup |
| shim task and IO | `shimContainer.go`, `shimio.go`, `kill.go` | per task: status, `exitIOch`, `stdinCloser`, goroutines | `waitContainerExit`, `ioCopy`, host interrupts |
| shim events | `events.go` | channel of 128 events, exit channel | `send`, `forward`, `listenAndReportExits` |
| sandbox | `pkg/micantainer/sandbox.go` | state, container map, container configs, file under the data directory | CreateSandbox, Start, Stop, Delete, {Create, Start, Stop, Kill, Pause, Resume, Update, Status, Delete}Container |
| container | `pkg/micantainer/container.go` | state, two state files, exit notifier | create, start, stop, kill, pause, resume, delete, checkState |
| cleanup process | `CleanupContainer`, `loadSandbox` | what it loads from the files | stop and delete one container, then the sandbox |
| mica control | `pkg/libmica/client.go`, `socket.go`, `utils.go` | nothing kept; one socket per client | create, start, pause, rm, set, status |
| mica executor | `pkg/libmica/resource_manager.go`, `client_xl_workaround.go` | memory limit and threshold, cpuset, vCPUs as last set | EnsureMemoryLimit, UpdateMemory, UpdatePCPUConstrains, UpdateVCPUNum |
| resource mapping | `pkg/pedestal`, `pkg/cpuset`, `container_resources.go` | none | OCI resources to client resources |
| namespace holders | `pkg/netns` | table of holder processes | Create, RegisterExisting, Cleanup |
| configuration | `pkg/oci`, `pkg/configstack` | the shim's `RuntimeConfig` | discovery and precedence of files and annotations; sizes of a container |

The shim's handlers run under one mutex and call the sandbox, which calls its
containers, which call micad over a socket. Whether a client exists is read
from the file system (`libmica.ClientNotExist` looks for the client's socket)
every time it matters, so the recorded state of a container is a cache of
something that changes by itself. After a crash containerd starts a second
process, the cleanup, which knows only the files.

What makes each part hard, and what makes it correct:

* **container and sandbox** - failures part of the way through a loop over the
  containers; answers of micad that get lost; writes that fail; clients that
  die between two steps; a crash between two writes. Correct when the recorded
  state agrees with the client, when nothing leaves the map while its client
  lives, when map, configs and files do not drift apart, and when a restart
  finds what the crash interrupted.
* **cleanup** - works from files written by a process that died anywhere.
  Correct when a success means that the client is gone.
* **task, IO and events** - three goroutines per task and two per shim around
  one mutex and four channels. Correct when no two wait for each other, every
  task ends once, and every exit is published.
* **control** - the answer comes in pieces, after output that may look like an
  answer, late, or never. Correct when the nil of a deed means that it was carried
  out, when a verdict that arrived is heeded, and when the call returns. The nil of
  an update cannot mean as much: some are passed over (section 3).
* **executor and pinning** - an update is up to six commands, each of which may
  fail, to a client that may have been replaced. Correct when the threshold
  stays at or above the limit and never sinks, when room is made before memory
  is given, and when recorded cpusets and configurations agree once pinning has
  succeeded.
* **holders** - a process, a goroutine that waits for it, a table, and callers
  that overlap. Correct when no holder process is lost, and cleanup ends.
* **configuration** - three ways to name a file, three places to find some, and
  annotations; sizes in 64 bits that become 32. Correct when a setting can be
  traced to the layer that gave it, and when what a client is registered with
  is consistent and something the hypervisor takes.

`PROJECT.json` lists the hazards line by line with the properties that cover
them, or why none does.

## 2. What is modelled

| module | models | state and actions |
|---|---|---|
| `States` | `states.go` | the transition table and the two `Transition` methods |
| `Container` | `container.go`, `startClient`, the libmica commands | no state: each operation maps the record of a container (state, state file, client, whether the sandbox was stored, error) to the *set* of records it may end in |
| `Sandbox` | `sandbox.go`, `CleanupContainer`, the order of the shim's calls | ten variables, one action per call, or per round of a loop |
| `Service` | `pkg/shim`: the task API's handlers, `shimContainer.go`, `shimio.go`, `kill.go`, `events.go` | eleven variables; a handler is one step from lock to unlock, or to where it blocks |
| `Exchange` | what a caller of libmica is promised for one command | three variables: the call, what became of the command, and what nil must mean of it |
| `Control` | `client.go`, `socket.go`, `utils.go` of libmica; micad is external | twelve variables; one action per check, connect, write, read, deadline, and per thing micad does |
| `Executor` | `resource_manager.go`, the xl workaround, `Container.update`, `setupMemory`, `pinVCPU`, `checkVCPUsPinning` | configuration, record and client of each container; one action per command of an update |
| `Netns` | `pkg/netns` and the calls of the shim that reach it | the table, each holder with its process, channel and goroutine, each caller; one action per locked section, signal or wait |
| `Settings` | `loadRuntimeConfig`, `pkg/oci/runtime_*.go`, `pkg/configstack`, `ParseINI` | where a load is, the files and how many were applied, the resulting configuration |
| `Mapping` | `ParseContainerCfg`, `ParseOCIResources`, `createMicaClientConf`, `ShareToWeight`, `cpuset.Parse` | extends `Settings`: a container's and its client's configuration; the arithmetic as operators |
| `MCSandbox`, `MCService`, `MCControl`, `MCExecutor`, `MCNetns`, `MCMapping` | | sets of values and symmetries for TLC |
| `Container_proofs` | | lemmas about the operations of `Container`: what they keep of a record, and when they release the client |
| `Sandbox_proofs` | | inductive invariant, `TypeCorrect`, `ConfigSafety` |
| `Release_proofs` | | every other safety property of `Sandbox` |
| `Service_proofs` | | `ServiceTypes`, `StoppedSafety`, `ExitOrder` |
| `Control_proofs` | | `ControlTypes`, `Heeded`, `SuccessKept`, `Promised` (a refinement) |
| `Executor_proofs` | | `ExecutorTypes`, `Covered`, `RoomKept`, `NeverSinks`, `Pinned`, `Pooled` |
| `Netns_proofs` | | `HolderTypes`, `Watched`, `Answered`, `StaysKnown`, `NoneLeft` |
| `Mapping_proofs` | | `TypesFit`, `ReservationFits`, `SizesFit`, `WeightFits`, `Fits`, `LayersHold`, `Obeyed` |

`Service` leaves the sandbox's answers open, `Sandbox` gives them; `Sandbox`
uses `Container`, whose commands succeed and fail as `Control` shows that they
may; `Executor` is the part of a sandbox that concerns resources, with the
lifecycle reduced to what it needs; `Mapping` computes the configuration that
`Executor` starts from, out of what `Settings` has loaded.

**Variables of `Sandbox`.** `obj` tells which process holds a `Sandbox` object;
`sb`, `cfg` and `cst` are its state, the keys of its `ContainerConfigs` and its
container map. `dsb`, `dcfg` are the sandbox's file and `file` the containers'
state files in the bundle. `client` is what micad has. `op` is the operation in
progress with the containers its loop has still to visit; `ret` is what the
last operation returned.

**Granularity.** The shim holds its mutex over a call, so calls do not overlap.
A call on one container is one step. `Start`, `Stop`, `Delete` and
`initContainers` take one step per container, in any order (the order of a Go
map is random), and between two steps the process may crash and clients may
appear and vanish. Within one step the presence of the client is read once: a
client that dies between two reads of one container's call is not modelled,
one that dies between two containers of a loop is.

**Faults** are a constant, so a run names the environment it is about: `micad`
(a command is refused, or carried out and its answer lost, or the client dies
of it), `store` (a write or removal fails), `tear` (a crash truncates the
sandbox's file, which `os.WriteFile` rewrites in place), `net`, `pin`,
`firmware`, and `recreate` (somebody registers a new client under a container's
id). Without `recreate` a client appears only before its container exists.

**Abstractions.** Resources (in `Executor`), annotations and firmware paths (in
`Mapping`) and mounts are left out; `updateResources` is modelled by its side effect, which is to ask every
container for its state and so to mark those without a client down. The copy
of a container's state under the state directory is not a variable because
`RestoreState` never finds it (section 3). The infra container's
helper process is not modelled: nothing calls `startInfraProcess`.

**Which calls happen.** The callers are the shim's handlers as written:
`Stop` is always forced and always followed by `Delete` (`Kill`, `Delete`,
`waitContainerExit`); the container that came with the sandbox is started,
stopped and deleted only with it; other containers one by one. At this commit
`shimService.Create` locks the service mutex twice and so never returns (section
3); the sandbox is modelled as its callers would drive it once that is repaired.

### The task service

**Variables of `Service`.** `table` is `s.containers`; since an id can be deleted
and created again while goroutines of the old task live, tasks are pairs of an
id and a life, and `table` says which life it holds. `sandbox` tells whether
`s.sandbox` is there. `task` has the `shimContainer` objects: status, fifos,
`exitIOch`, `exitIoOnce`, `stdinCloser` and whether the exit is recorded. `go`
has the goroutines of each start: `waitContainerExit`, the copies of stdin and
stdout, and the end of `ioCopy` that waits for both. `rpc` is where each
client's request is, `mu` who holds the mutex, `out` the event its holder is
about to send, `events` the fill of the event channel, `ec` the exit the
listener is reporting, `told` (a history variable) the tasks whose start has
been sent, and `proc` whether the process is up, has exited, or why it panicked.

**Granularity.** Everything between lock and unlock is one step, except where a
handler blocks with the mutex held: `send` on a full channel, and `CloseIO`,
which waits for the stdin goroutine. `Wait` gives the mutex back and takes it
again, so it is three steps. Each goroutine is cut at its channel operations and
at the mutex. Closing a channel that is closed panics, and a panic ends the
process.

**What is open.** The sandbox's answers: every call may succeed or fail where
the handler tells them apart, and `getContainerStatus` may answer any status
that the sandbox can have. It answers "stopped" only for a task whose exit is
recorded: a stopped workload has no client, without which `StatusContainer`
fails and the status is unknown; an infra container is stopped only when the
shim lets go of the sandbox. Streams end, or deliver a control character, at any
time or never; a request's context may end at any time, which ends the select of
`waitContainerExit` early, because the goroutine was given the context of the
Start request.

**Repairs.** Three statements stop the code before a task exists or is reported
ended: the double lock in Create, the map `s.containers` that nothing makes, and
the channel `s.ec` that nothing makes. A model of the code as it is would end
there and say nothing of the rest. The constant `Fixed` names the ones taken as
repaired: `relock`, `map`, `ec`. The runs repair all three and nothing else: the
double close of a channel, the nil config, the missing exit code stay as they
are. The theorems hold whichever are repaired.

**Left out.** Requests that name an exec process (they do nothing but return or
fail), the bytes that are copied, a PTY that does not take what is written to
it, and the contents of events. `Read` stands for the calls that change nothing
here, and for any call that is refused before it changes anything.

### The connection to micad

**`Exchange`** says what the callers rely on: a call returns, and what its nil means
depends on what was asked (`wish`). A deed (create, start, pause, resume) has been
carried out; for an absence (a removal) there may have been nothing to remove; an
update is only tried, so it has been carried out or passed over (`skipped`). An error
means nothing. **`Control`**
is one call at a time, which is all a connection ever serves: libmica opens a
socket per command and shares nothing between two. `file` is what the directory
of sockets holds, since `ClientNotExist` and `validSocketPath` look there;
`stage` and `target` are where the call is; `said` is what micad wrote and
`heard` how much of it was read; `late` is the deadline, set once before the
first read; `peer` is micad's end. The refinement maps `cmd` and `result` to the
call (`Calling`), `cmd` to the wish (`Wished`) and `work` to itself. An update goes
to xl first, for which some have no words (`Wordless`): `CPU` is answered with nil
and nothing else (`client_xl_workaround.go:63-65`), a capacity of 0 runs
`sched-credit2` without `-c`. When xl fails, micad is sent a bare `set` without its
value, so there too a success is an update passed over (`Carry`).

Text is abstracted to pieces, and a marker is two pieces, so that a read can end
in the middle of one. The buffer is searched as a whole and for the failure
first. The daemon may write any text before its verdict, quote a marker, hang
up, die with its sockets left or unlinked, restart with or without the client,
and carry out a command whose caller has given up. That late work is followed
until the next call begins. Connecting and writing do not block: the backlog
and the buffer of a local socket hold one small message.

### Resources of clients

**`Executor`** has, for every container, `cfg` (what is configured), `rec` and
`dom` (what the executor has recorded, what the client has), and `disk` (the
configurations last stored). `job` is the operation in progress and `at` the
command it has got to; a command that fails ends an update
(`Failed`), or the start. What comes of a command is one of `Outcomes`: it
fails, xl applies it, or, when xl fails or is not asked, micad is sent a bare
`set` without the arguments; whether it calls that a success is the constant
`BareSet`, false in the runs and open in the proofs. `pinning`,
`shared` and `xl` are chosen at the start and stay. Clients vanish, are
registered by somebody else, and micrun may be restarted in the middle of
anything (an update asks for one of `Asked`: a limit, 0, which is sent like any
other, no limit at all, or nothing of memory), after which the records are empty and the configurations those on
disk. Capacity and weight are commands that may fail, and no more; the totals of
a sandbox are only compared with the size of its pool, which is a choice.

### Namespace holders

**`Netns`** is the table's entry for one sandbox id, since ids do not share
anything. A holder is a process (`proc`, `signal`), a channel (`done`) and the
goroutine of Create that waits for it (`waiter`); a caller creates the sandbox,
keeps or fails it, deletes it, and cleans up either through the table or by the
pid its configuration remembers. The table's mutex is held for one lookup or one
assignment, so these are the steps. In the shim, `s.mu` keeps two Creates apart;
the package does not rely on that and neither does the model. A pid may have been
given to another process by the time it is signalled; the model keeps pids apart,
and what such a signal would do to a stranger is outside it.

### Configuration

**`Settings`** is one load per shim: `place` says what each of the six places
holds, `anno` what the annotations say, `files` the files to apply and `at` how
many have been, one per step, `rc` the configuration so far. A text is nothing,
not a number, a number too large for its type, or a number. **`Mapping`** adds
the configuration of one container (`conf`) and of its client (`client`). A
specification gives its sizes in half MiB, so that there are some below one MiB;
everything else is in MiB with the width `Word` (2^32 in the code), so conversions
and doublings wrap where the code's do. A CPU list is a sequence of
groups, plus whether it has an empty group or a word that is no number. Five
settings are kept, all of them read by somebody: two numbers, a flag that a file
resets, and the two flags that it leaves alone.

## 3. What the runs show

The runs that `PROJECT.json` lists are the regular ones. Beside them stand nine
configurations to be started by hand: seven that refute what a comment or document
says, and two more instances of `Service`. The tables mark them with a star; each is
in the file of its name, as `MCMapping_merge.cfg`.

### Sandbox

These runs use `MCSandbox`. `p` is the infra container, `v` and `w` are workloads.

| run | instance | shows |
|---|---|---|
| `pod` | p, v, w; pinning; disk can tear, network, pinning and firmware can fail | `TypeOK`; `StateMatchesClient`: recorded state and client agree |
| `hostile` | p, w; every fault but failing writes | `DiskNeverUnderstates`, `Recoverable` (what a restart finds), `CleanupReleasesClient`, `TransitionsLegal`, `StartCompletes`: a nil Start has recorded all as running, `OperationsEnd` |
| `store` | p, w; static resources; writes, micad and network fail, disk can tear | `RegisteredIsConfigured`: map and configs; `DeleteReleasesClient` and `StopLeavesNoClient`: no client is forgotten |

**Bounds.** Nothing is cut off: the state is finite for a finite set of
containers and TLC explores all of it. Two containers, one infra and one
workload, give every combination of "the one that fails" and "another one";
`pod` has a second workload, so that a loop can fail first, in the middle and
last. The workloads are symmetric, the owner is not. Faults that multiply the
states are kept apart: failing writes are in `store`, an id that is used anew in
`hostile`.

**Fairness.** `hostile` assumes, for `OperationsEnd`, weak fairness of the operation in progress
(`InProgress`) and of nothing else: the loops run in one goroutine over a
finite map, and a call to micad returns at the latest when the socket's read
deadline passes (`socket.go`, `rx`). Crashes, clients and calls are not fair.

`TransitionsLegal` compares the state that was last recorded, in the map or in the
file of a container that is in no map, with the new one (`Recorded`). One change is
excepted, and refuted in a configuration of its own:

| refuted | the comment | the code |
|---|---|---|
| `recreate`* | `RestoredLegally`: "ValidTransition checks if a state transition is valid" (`states.go:106`), and the table has no way from running, paused or stopped to ready | a container that is created from its file becomes ready, whatever the file says (`container.go:456-468`), and no table is consulted |

Further disagreements between comments and code; the model has the code's behaviour:

* a container that fails to start is stopped, as the log message says, and then
  recorded as running, with success (`container.go:217-224`), so `StartCompletes`
  can speak of records only;
* cleanup is to remove the sandbox with its last container (`container.go:132`),
  but a last container whose client is gone already leaves the sandbox behind,
  with success, and no property objects, since no client is left either;
* a forced stop is to ignore container failures (`sandbox.go:164`), but the first
  container that cannot be stopped ends it;
* a missing client is to be registered (`container.go:933`), but only an existing
  one is, and creation of any other fails;
* a failed creation is to be cleaned up (`create.go:75`), but its config stays in
  the sandbox's file;
* state is saved in two locations for redundancy (`container.go:1027`), but the
  copy under the state directory is written and read under different paths.

`StateMatchesClient` does not survive a micad that loses answers, because of the
first of these; `DeleteReleasesClient`, `CleanupReleasesClient` and
`StopLeavesNoClient` do, and they are the ones that keep a client from being
forgotten. `StopLeavesNoClient` needs ids that nobody registers anew behind
micrun's back.

### Task service

These runs use `MCService`; `p` is the container that comes with the sandbox,
`w` a workload of its pod, `a` and `b` are clients.

| run | instance | shows |
|---|---|---|
| `single` | p alone, as a SingleContainer, every choice of fifos, two clients, all calls, two starts | `TypeOK`; `StoppedIsSignalled`: a task that says stopped has its streams closed, on which every waiter depends; `ExitAfterStart`: no exit overtakes its start |
| `ends` | p alone, two clients | `LockReleased`: the mutex always becomes free again; `WaitersEnd`: a started workload's goroutine ends; `WaitReturns` |
| `workload`* | p as the infra container and w in its pod, one client that creates, starts, kills and deletes either | `WaitersEnd`, `StoppedIsSignalled`: w is ended by its own goroutine although the kill or delete of p has dropped the sandbox |
| `reborn`* | p alone with two lives, one client | `StoppedIsSignalled`, `ExitAfterStart`: also while goroutines of the first life kill by an id that is now the second's |

**Bounds.** `Slots` is 1 instead of 128: what matters is that the channel is
full while somebody holds the mutex, and with one slot it is after one event.
`Lives` bounds how often an id is created and `Starts` how often a task is
started; `reborn` has two lives, the runs that check `WaitersEnd` have one, since a
second one breaks it (the late kill below), and `single` has a second start because
that is what panics. Two
clients make a request wait while another holds the mutex and let Wait race with
everything; the streams and goroutines add their own interleavings. `CloseIO` is
left out of `ends` because it can hold the mutex for ever (below). `single`
switches off the deadlock check for the same reason: a CloseIO that nothing ends
stops the service. `reborn` does so because its last life may be used up, with no
task left to ask for. `LockReleased` says nothing of the double lock in Create, which
is repaired in these runs.

**Fairness.** `Fairness` is strong for the steps that need the mutex: Go's mutex
queues its waiters and hands over to one that has waited for a millisecond, so a
waiter to whom it becomes free again and again gets it. It is weak for the timer
of `waitContainerExit`, which is armed for every task but an infra container's,
and for the forwarder, whose publishing is bounded by a timeout (`events.go`).
Nothing is assumed of clients, streams or contexts: a task may run without ever
ending its streams, which is why the timer matters.

**Disagreements**, each in a run that TLC refutes:

| run | the comment | the code |
|---|---|---|
| `twice` | streams close or the exit is mocked | when both happen the channel is closed twice and the process panics |
| `waitrace` | the lock is taken again to fetch the final status | which may be recorded only later |

Further ones, in the model without a run of their own:

* Create holds the mutex (`shim_services.go:378`) when `loadRuntimeConfig` takes it
  (`utils.go:199`), and so hangs the service: the repair `relock`;
* Create enters the task in a map that nothing made (`shim_services.go:393`), and
  the exit is sent on a channel that nothing made, so that no exit is ever
  reported (`shimContainer.go:171`): the repairs `map` and `ec`;
* the goroutine of a deleted task kills by id (`kill.go:24`): its late kill meets
  another task of the same id, and the goroutine waits for ever;
* the error of `loadRuntimeConfig` is lost and its nil result used
  (`create.go:102`): `CreateUnconfigured`;
* CloseIO waits with the mutex held for a channel that only Start, or a goroutine
  that needs the mutex, will close (`shim_services.go:747`);
* an error of the streams leaves a running task without goroutines
  (`start.go:54`): `StartWithoutStreams`;
* Delete does not end the goroutine of an infra container, which has neither
  streams nor a timer (`shim_services.go:483`).

### Connection, resources, holders, configuration

| run | instance | shows |
|---|---|---|
| `socket` | any command, answers of up to four pieces before the verdict, output that may quote a failure, xl that works, fails or passes over | `TypeOK`; `HeardIsHeeded`, `SuccessIsHeeded`: what arrived decides; `KeepsPromise`: `Control` implements `Exchange` |
| `resize` | one container, one CPU, updates to 0, two limits, "unlimited" or none; clients vanish and appear, micrun restarts | `TypeOK`; `ThresholdCovers`, `ThresholdNeverSinks`; `RoomForMemory`: record and client agree and room comes first |
| `pool` | two containers, two CPUs; commands and stores may fail, pins without xl; updates leave memory alone | `PinsHold`, `PoolIsCommon`: what a successful pinning leaves, whatever failed before and is updated after |
| `holders` | two callers, two holders; holders exit by themselves, cannot be started, the shim crashes | `TypeOK`; `EntryIsWatched`, `RunningStaysKnown`: the table; `WaitIsAnswered`, `CleanupEnds`: the unbounded wait; `LeftOnlyByRace`: no holder is lost, but by one race |
| `mapping` | every way to come by up to three files of seven kinds; containers whose sizes, shares and CPU lists lie about every boundary | `TypeOK`; `SettingsAreLayered`, `NamedFileIsObeyed`; `ReservationWithinLimit`, `MemoryFits`, `AffinityFits`, `WeightInRange` |

**Disagreements**, each in a configuration of `MCMapping` that TLC refutes:

| refuted | the comment or document | the code |
|---|---|---|
| `merge`* | `FilesMerge`: "ApplyMicrunFiles merges micrun config files into the stack" (`runtime_stack.go:29`) | a file resets what it does not mention, but for two flags (`runtime_setup.go:133`) |
| `defaults`* | `DocumentedDefaults`: static resources by default, vCPUs unlimited (`runtime_setup.go:20`, `:26`) | not static, and 8 vCPUs |
| `reserve`* | `ReservationBelowLimit`: reservation < limit (`container_resources.go:193`, `:199`, `docs/resource-mapping.md:86`) | a reservation above the limit becomes the limit (`oci_configs.go:473-477`) |
| `onevcpu`* | `OneVcpu`: one vCPU unless `vcpu_pcpu_binding` is on (`container_resources.go:220`, `planner.go:67`, `docs/resource-mapping.md:47`) | the size of the cpuset, as a test expects (`resource_mapping_test.go:389`); there is no such option |
| `capacity`* | `CapacityWithinCpuset`: the capacity is bounded by the cpuset (`docs/resource-mapping.md:38`, `planner.go:79`) | the planner's bounded capacity is not read; the client gets quota by period (`container_resources.go:74-90`) |
| `maxvcpu`* | `VcpusWithinMaximum`: the maximum of vCPUs configured for a container (`container.go:69`) | is sent along and compared with nothing (`utils.go:49-66`) |

What holds instead, and is checked and proved, is less: `SettingsAreLayered` says
that the highest layer with something valid to say decides, and not which default or
earlier file stands in where it is silent; `ReservationWithinLimit` allows equality;
`AffinityFits` says nothing of the number of vCPUs.

**Bounds.** `MaxSaid` is four pieces: a verdict before, after and across quoted
output, in one read or in several; reads may end anywhere, so longer answers add
only length. `resize` has limits 1 and 2 with the default 1 and their doubles, so
a request may lie below, at and above the limit and the threshold that are in
force; memory is of one container, hence one is enough, and pinning in a pool is
of several, hence `pool` has two and no memory. Two holders are one that is lost
and one that replaces it; `holders` stops when both are used up, which is why
deadlock is not checked there. `mapping` takes 256 for 2^32: what matters is half
of it, its end, and a size beyond it, and all three are in the instance.

**Fairness.** `KeepsPromise` needs that the caller's goroutine runs and that its
clock advances (`Tick`); micad owes nothing. `CleanupEnds` needs the caller to go
on, a process that was sent SIGKILL to end, the goroutine of Create to wait and
to clear; a holder owes nothing to SIGTERM. The other properties need none.

What the runs presuppose or exclude, and where code and comments part:

* *control* - nil of an update says little: a cpuset is passed over by xl with
  success, a capacity of 0 changes nothing, and the `set` that micad gets when xl
  fails carries no value. Output that quotes the success marker would break the promise:
  `Quotes` has only the failure, which is safe. An id that is too long is
  registered under a truncated name; every later command refuses it, and a stop
  of it says nil because no socket has its name. `Status` cannot answer: rx
  returns the marker and drops the text (`socket.go:89-103`), so `queryStatus`
  parses nothing.
* *executor* - registration records the limit as threshold, not the threshold
  that was sent; an executor that registers anew keeps the higher threshold of
  the client before; one that was restarted knows none and may lower the client's
  maximum; so `RoomForMemory` speaks of the client registered at creation. A
  client recreated unnoticed makes the record stale, and an update that it
  already fits is skipped. An unlimited memory becomes the largest 32-bit number
  (`container.go:692`). An update that fails half way has changed the client and
  not the configuration. Any update sends cap 0, clears the recorded cpuset and
  sets one vCPU when it names none; a capacity of 0 sends no `-c`, so it does not
  lift a cap. xl has nothing for a cpuset, but reports success.
* *pinning* - a pool is sticky: every container is configured with it from then
  on. A failed pinning leaves `vcpuAlreadyPinned` set, unless the pool's size
  differs from the number of vCPUs. A pool without any CPU fails the creation.
* *holders* - two Creates that overlap both start a holder and the entry of the
  first is overwritten; when its creation then fails, its Cleanup ends the other's
  holder. A crash leaves the holder to init. `RegisterExisting` is reached by no
  path: a new configuration always names no holder.
* *configuration* - drop-in files do not add up (`merge`). The whitelist of `ParseINI` holds key names but is
  compared with section names (`parser.go`), so a file with its keys in a
  `[micrun]` section says nothing and resets everything. TOML is always refused,
  yet a directory of TOML files hides the default file; an unreadable
  `MICRUN_CONF_DIR` hides the lower places. A file named in the environment that
  cannot be read means defaults; one named by an annotation or the options ends
  in no container. The comment at `oci_configs.go:166` promises
  a default firmware path from the settings, and the one at `:387` its reuse by
  later containers; neither happens. The pause image and the maximum of a
  container's memory are read by nobody either.
* *sizes* - a limit of 2^32-1 MiB has a maximum one less than it (`MemoryFits`
  excepts it). A limit below one MiB counts as unset, so it bounds no reservation
  (`ReservationWithinLimit` speaks of the limit in MiB). A limit of a multiple of 2^52 bytes counts as unset. A list of CPUs
  that names one twice counts it twice when it is clipped. A list with an
  empty group or a word that is no number is passed on as written
  (`AffinityFits` speaks of the others).

## 4. What is proved

Besides what a theorem states, the proofs use only the named assumptions:
`ContainerAssumption` (the infra ids are container ids, the faults are known
ones), `SandboxAssumption` (the owner is a container, only it can be infra, two
constants are Boolean) and
`ServiceAssumption` (the bounds are positive, the fifos are sets of fifos, the
repairs are known ones, the two holders of the mutex that are no clients differ
from them); `QuotesAssumption` and `MaxSaidAssumption` (markers, a length);
`ContainersAssumption`, `CpusAssumption`, `LimitsAssumption`, `AskedAssumption` and
`BareSetAssumption` (containers and CPUs are finite sets, limits are positive and
below `Huge`, an update asks for one of `AskedValues`); `HoldersAssumption` (`NoHolder` is none); and those of `Settings`
and `Mapping`, which type the files, places, annotations and specifications and
say that `Word` exceeds the memory of the host and the default. The sets of
containers of `Sandbox`, and those of ids, clients, callers and holders, may be
infinite.

Every safety property and every action property that a passing run checks is the
subject of a theorem.

### Sandbox

| theorem | states | assuming besides |
|---|---|---|
| `TypeCorrect` | `Spec => []TypeOK` | |
| `ConfigSafety` | `Spec => []RegisteredIsConfigured` | |
| `DeleteSafety` | `Spec => DeleteReleasesClient` | |
| `CleanupSafety` | `Spec => CleanupReleasesClient` | |
| `OnlyLegalMoves` | `Spec => TransitionsLegal` | |
| `StartSafety` | `Spec => StartCompletes` | |
| `StopSafety` | `Spec => StopLeavesNoClient` | no `recreate` |
| `DiskSafety` | `Spec => []DiskNeverUnderstates` | no `store` |
| `RecoverySafety` | `Spec => []Recoverable` | no `store` |
| `ClientsMatch` | `Spec => []StateMatchesClient` | no `micad`, `store`, `recreate` |

The assumptions in the last column exclude faults, and they are the ones under
which the property can be true; the run that checks the property excludes them
too. A write that fails leaves an older state on disk, a command that is refused
leaves a container recorded as running whose client never ran (the first item of
the list in section 3), and an id that is registered behind micrun's back has a
client that nobody asked for. All other faults are in the theorems, also those
that a run leaves out to stay small.

*Types and configs.* `TypeOK /\ RegisteredIsConfigured` is not inductive: a round
of a loop visits a container of `op.todo`, and nothing in it says that the
container is still in the map (or, while a sandbox is being initialised, in the
configs and not yet in the map). The inductive invariant `IInv` adds `TodoOK`,
which says so. The proof has one lemma per action; loop rounds share `WalkIInv`,
calls `CallIInv`, and both rest on `ApplyEffect`: whatever an operation did, only
its container enters or leaves the map.

*Release.* `Container_proofs` shows for each operation that its outcomes are
records and that none but `delete` takes a container out of the map (`Kept`), and
for `delete` that a workload it takes out has no client (`DeleteReleases`).
`Release_proofs` lifts this to every step.

*States, files and clients.* That recorded states agree with clients is not
inductive, since `newContainer` takes the state of a container from its file: the
file has to agree as well, also while no process holds the map. Nor is the
legality of moves, since the table has moves into and out of `creating` that
nothing in the code takes. `Sound` says what is true of a container at any time:
neither its state nor its file is `creating`; an infra container has no client;
a stopped workload has none; state and file both agree with the client; and,
while the shim holds the sandbox, the file of a registered container says what
its state is. The last three hold only without the faults that break them, and
the invariant names these. `Lawful` says of an operation on one record that it
keeps all this and moves its state along the table; it is proved for each
operation of `Container`. `NextMoved` then shows that every step of the system is
of one of six kinds, so that what `Sound` and the moves need is proved once for
each kind and not for each action (`MovedSound`, `MovedTransits`). `OnlyLegalMoves`
speaks of the state that was last recorded, so it also needs what happens between two
maps: a change within a map is one of the table or the discovery that the client is
gone (`MapTransits`), and a container that enters the map has what its file says, is
marked down, or is created anew, which is the exception (`EntryTransits`). A running
container leaves the map only with its process or with the sandbox object. `ObjectOK`
adds that a sandbox is held by nobody only when nothing is registered and nothing
under way. `CleanupSafety` is read off the outcomes of `delete`.

*Loops.* `StartCompletes` and `StopLeavesNoClient` speak of the last step of a
loop that any number of other steps has interrupted. `WalkOK` says how far a
loop has got: the containers that `Start` has passed are running, the workloads
that `Stop` has passed have no client, and until the end neither has `Start`
returned nor `Stop` recorded the sandbox as stopped. `Start` needs no healthy client for it, because a start that is
passed by was recorded as running (the first item in section 3's list), and the
property speaks of the record.

*Disk.* `DiskOK` follows the sandbox's file through the operations: it says what
the sandbox is, or that it runs, or, while `Start` is under way, what it was
before, which is what a failed start takes the sandbox back to. While it is
created or dropped the file may lag behind. `Recoverable` needs `DiskOK` for the configs and `Sound` for the
states.

### Task service

For the task service, whichever repairs `Fixed` names:

* `ServiceTypes`: `Spec => []TypeOK`.
* `StoppedSafety`: `Spec => []StoppedIsSignalled`.
* `ExitOrder`: `Spec => []ExitAfterStart`.

The first two share the invariant `SignalInv`. `StoppedIsSignalled` alone is not
inductive: `waitContainerExit` writes "stopped" after it was released by
`exitIOch` and took the mutex, so the invariant remembers that its streams are
closed (`LockIsSignalled`); a failed pause may write "stopped" only for a
recorded exit (`ExitedIsSignalled`); and Create makes a new object with open
streams, which must not be one that the table or a goroutine knows already
(`FoundIsBorn`, `RunIsBorn`). The proof is built on `Advance`: every step but
Create leaves the tasks typed, opens no channel again and writes "stopped" only
over closed streams, and kills, by request or by a goroutine, are treated once
(`KillAdvances`, `GoroutineKillAdvances`). `ExitOrder` needs `OrderInv`: a
goroutine exists only for a task whose start has been sent or is being sent by
the holder of the mutex (`RunIsTold`), so one that holds the mutex itself finds
it sent; CloseIO is the one handler that holds the mutex without an event
(`ClosingHolds`).

### Connection to micad

* `ControlTypes`: `Spec => []TypeOK`.
* `Heeded`: `Spec => []HeardIsHeeded`.
* `SuccessKept`: `Spec => []SuccessIsHeeded`.
* `Promised`: if output never quotes the success marker, `Spec => Promise!SafeSpec`,
  the refinement of `Exchange` without its fairness: nil is the answer to a deed that
  was carried out, to a removal that was carried out or not needed, or to an update
  that was taken.

`SuccessIsHeeded` is about a call that is over, so the invariant adds what holds
on the way there (`StageInv`: what each stage knows of the peer, the buffer and
the command) and where markers come from (`Honest`: a whole marker in what was
said means that micad did, or refused, the command, or quoted one). That an
appended piece completes no marker by accident is `AppendPiece`.

### Executor

* `ExecutorTypes`: `Spec => []TypeOK`.
* `Covered`: `Spec => []ThresholdCovers`.
* `RoomKept`: `Spec => []RoomForMemory`.
* `NeverSinks`: `Spec => ThresholdNeverSinks`.
* `Pinned`: `Spec => []PinsHold`.
* `Pooled`: `Spec => []PoolIsCommon`.

The invariant adds that a start has given the client its memory by the time it
records it (`StartSettled`) and that an absent container has no record, and
nothing in progress that would write one (`Unrecorded`). Neither needs a healthy client.

The two properties of pinning speak of moments when nothing is going on. A job
that creates, updates or deletes changes a configuration first and passes
`checkVCPUsPinning` later, before it stores. `PinInv` says that outside of that
stretch (`Quiet`), and if the last pinning succeeded, records and configurations
agree, and so do the containers of a shared pool (`Agree`).

### Namespace holders

* `HolderTypes`: `Spec => []TypeOK`.
* `Watched`: `Spec => []EntryIsWatched`.
* `Answered`: `Spec => []WaitIsAnswered`.
* `StaysKnown`: `Spec => RunningStaysKnown`.
* `NoneLeft`: `Spec => []LeftOnlyByRace`.

`Goroutines` adds that a holder about to be recorded has no goroutine yet and
belongs to one caller, so that recording one cannot disturb another's.

`NoneLeft` is about who answers for a holder. `Owned` says that, until two Creates
overlap or the shim dies, a holder that runs is in the table, or with the caller
that has started it and not recorded it yet, or with the one that is terminating
it (`Held`), and that while the table has an entry some caller has still to keep
or to clean up.

### Configuration

For every width `Word`, so for 2^32:

* `TypesFit`: `Spec => []TypeOK`.
* `ReservationFits`: `Spec => []ReservationWithinLimit`.
* `SizesFit`: `Spec => []MemoryFits`.
* `WeightFits`: `Spec => []WeightInRange`.
* `Fits`: `Spec => []AffinityFits`.
* `Obeyed`: `Spec => []NamedFileIsObeyed`.
* `LayersHold`: `Spec => []SettingsAreLayered`.

The first four rest on lemmas about the arithmetic (`Quarter` for the weights, and those on
halves and doubles for the threshold), on what a load may leave behind
(`Loading`), and on the configuration and the client being what
`ParseContainerCfg` and `createMicaClientConf` made them (`Configured`,
`Registered`).

`Fits` adds what a configuration says of CPUs (`Bound`): a list that parses leaves
only CPUs of the host (`ClippedToHost`).

`Obeyed` needs only that files are discovered where nobody names one (`Sought`).
`LayersHold` follows the load through its files (`Layering`): after the first `n`
of them the resetting settings are exactly those of the last file that applied, and
the two flags that keep their value are those of the last of the `n` that gives a
valid one (`Layered`, `OneMoreFlag`); annotations come on top. The property says less
than this invariant. It holds for any number of files, where the run has up to three.

### Model-checked only

`OperationsEnd`, `LockReleased`, `WaitersEnd`, `WaitReturns`, `CleanupEnds` and
the fairness of `KeepsPromise` are liveness under fairness, which is out of the
proof system's reach: TLC checks them. So does it refute what `twice`, `waitrace`,
`recreate`, `merge`, `defaults`, `reserve`, `onevcpu`, `capacity` and `maxvcpu` take
from comments and documents, for which a counterexample is all there is to show.

## 5. Not modelled, and what is left

Could be modelled further, most important first:

1. `Service` composed with `Sandbox`, so that the sandbox's answers are its own
   and the task's status can be compared with the container's state.
2. `Sandbox` shown to implement what a container promises its caller, for a
   reliable micad; `Service` shown to implement the order of events that
   containerd may rely on for a task.
3. The opening of fifos and PTYs behind `IOStream`, and the copies of firmware in
   `prepCache`, whose failures are I/O errors for which the callers' paths exist
   in the models already.

Could be proved: the safety half of item 2, once the promises are stated.

Left out for good: host probing and stubs in `pkg/pedestal`, the text that `xl`
and xenstore print, start-up, logging and tracing (I/O without state of its own),
metrics (a copy of counters), the sums of a sandbox's resources (read only for
the comparison above), the bytes of packed messages and of streams, mounts and
hugepages, the mock micad and the image tools (outside the program).
