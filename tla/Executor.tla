------------------------------ MODULE Executor ------------------------------
(***************************************************************************)
(* The resources of the clients of one sandbox: what the configuration     *)
(* asks for, what the executor of each container has recorded              *)
(* (libmica/resource_manager.go) and what the client really has.  An       *)
(* update is a sequence of commands to the client, any of which may fail;  *)
(* a client may vanish and come back, and micrun may be restarted.         *)
(* Weights and capacities are commands that may fail.                      *)
(***************************************************************************)
EXTENDS Integers, FiniteSets

CONSTANTS
    Containers,
    Cpus,           \* physical CPUs
    Limits,         \* memory limits, in MiB
    Asked,          \* what an update may ask: a limit, 0, Unlimited or Unasked
    DefaultMem,     \* what a container without a limit starts with: its reservation,
                    \* DefaultMinMemMB if it has none
    Huge,           \* uint32(-1 >> 20), what an unlimited memory is taken for
    BareSet,        \* micad answers MICA-SUCCESS to a `set` without arguments
    Faults          \* subset of {"vanish", "appear", "restart"}

ASSUME ContainersAssumption == IsFiniteSet(Containers)
ASSUME CpusAssumption == IsFiniteSet(Cpus)
ASSUME LimitsAssumption ==
    /\ Limits \subseteq Nat \ {0}
    /\ DefaultMem \in Nat \ {0}
    /\ Huge \in Nat \ {0} /\ \A l \in Limits : l < Huge
ASSUME BareSetAssumption == BareSet \in BOOLEAN

VARIABLES
    cfg,        \* ContainerConfig: limit, memory threshold, cpuset, vCPUs
    state,      \* the container's state
    rec,        \* MicaExecutor: recorded memory and cpuset, and the threshold
    dom,        \* the client: memory and its maximum, vCPUs
    job,        \* the operation in progress
    pinned,     \* vcpuAlreadyPinned
    disk,       \* the configurations last stored
    pinning,    \* EnableVCPUsPinning
    shared,     \* SharedCPUPool
    xl,         \* MICRUN_XL_WORKAROUND is set and the host runs Xen
    first       \* the client is the one this process registered at creation

vars == <<cfg, state, rec, dom, job, pinned, disk, pinning, shared, xl, first>>
settings == <<pinning, shared, xl>>

States == {"absent", "down", "ready", "running", "stopped"}
Unlimited == -1
Unasked == -2       \* an update that says nothing of memory
Mem == {0, DefaultMem, 2 * DefaultMem, Huge} \cup Limits \cup {2 * l : l \in Limits}
LimitValues == Limits \cup {0, Unlimited}
AskedValues == LimitValues \cup {Unasked}
ASSUME AskedAssumption == Asked \subseteq AskedValues
Config == [limit : LimitValues, thr : Mem, cpus : SUBSET Cpus, vcpu : Nat]
Steps == {"cap", "max", "mem", "cpus", "weight", "vcpu", "record", "pin", "store"}
NoJob == [op |-> "none"]
Job == [op : {"create", "start", "update", "delete"}, c : Containers, at : Steps,
        limit : AskedValues, cpus : SUBSET Cpus]

TypeOK ==
    /\ cfg \in [Containers -> Config] /\ disk \in [Containers -> Config]
    /\ state \in [Containers -> States]
    /\ rec \in [Containers -> [mem : Mem, thr : Mem, cpus : SUBSET Cpus]]
    /\ dom \in [Containers -> [up : BOOLEAN, mem : Mem, max : Mem, vcpu : Nat]]
    /\ job \in Job \cup {NoJob}
    /\ pinned \in BOOLEAN /\ first \in [Containers -> BOOLEAN]
    /\ pinning \in BOOLEAN /\ shared \in BOOLEAN /\ xl \in BOOLEAN

Blank == [limit |-> 0, thr |-> 0, cpus |-> {}, vcpu |-> 0]
NoRecord == [mem |-> 0, thr |-> 0, cpus |-> {}]
NoClient == [up |-> FALSE, mem |-> 0, max |-> 0, vcpu |-> 0]
\* A client somebody else has made known to micad.
Foreign == [up |-> TRUE, mem |-> DefaultMem, max |-> DefaultMem, vcpu |-> 1]

Init ==
    /\ cfg = [c \in Containers |-> Blank] /\ disk = cfg
    /\ state = [c \in Containers |-> "absent"]
    /\ rec = [c \in Containers |-> NoRecord]
    /\ dom = [c \in Containers |-> NoClient]
    /\ job = NoJob
    /\ pinned = FALSE
    /\ pinning \in BOOLEAN /\ shared \in BOOLEAN /\ xl \in BOOLEAN
    /\ first = [c \in Containers |-> FALSE]

Present == {c \in Containers : state[c] # "absent"}

\* uint32(*limit >> 20) of an update, and bytesToMiB of a configuration: a limit of
\* less than a MiB is 0 for both.
AskedMiB_signed(l) == l
AskedMiB(l) == IF l < 0 THEN Huge ELSE l
ConfigMiB(l) == IF l < 0 THEN 0 ELSE l

Larger(a, b) == IF a > b THEN a ELSE b

-----------------------------------------------------------------------------
\* What comes of `set`: xl applies it, or it is sent to micad without its
\* arguments, which at best answers success and does nothing.
Outcomes(c, d, possible) ==
    {[ok |-> FALSE, dom |-> dom[c]]}
    \cup (IF xl /\ dom[c].up /\ possible THEN {[ok |-> TRUE, dom |-> d]} ELSE {})
    \cup (IF BareSet /\ dom[c].up THEN {[ok |-> TRUE, dom |-> dom[c]]} ELSE {})

\* xl has nothing for a cpuset and reports success; only micad would apply it.
CpuOutcomes(c) ==
    IF xl THEN {TRUE} ELSE {FALSE} \cup {BareSet /\ dom[c].up}

\* A failed update is dropped by UpdateContainer, which goes on to pin and store.
At(s) == [job EXCEPT !.at = s]
Failed == IF job.op = "update" THEN At("pin") ELSE NoJob
AfterMemory == IF job.op = "update" THEN At("cpus") ELSE At("record")

-----------------------------------------------------------------------------
\* The operations.

\* createMicaClientConf, InitWithOpts: what a registered client starts with.
ClientOf(conf) ==
    LET m == IF ConfigMiB(conf.limit) # 0 THEN conf.limit ELSE DefaultMem
    IN  [up |-> TRUE, mem |-> m, vcpu |-> Larger(conf.vcpu, 1),
         max |-> IF conf.thr # 0 THEN conf.thr ELSE 2 * m]

\* RecordMemoryState: the threshold only rises.
Recorded_overwrites(r, m, t) == [r EXCEPT !.mem = m, !.thr = IF t = 0 THEN m ELSE t]
Recorded_keeps(r, m, t) ==
    [r EXCEPT !.mem = m, !.thr = IF @ # 0 THEN @ ELSE IF t = 0 THEN m ELSE t]
Recorded(r, m, t) == [r EXCEPT !.mem = m, !.thr = Larger(@, IF t = 0 THEN m ELSE t)]

\* registerClient: the limit is recorded as threshold, not the one that was sent.
RecordedFor(r, conf) ==
    LET m == ClientOf(conf).mem IN Recorded(r, m, m)

\* CreateContainer: only a client micad already knows is registered.  The
\* threshold that the runtime configuration leaves is none or covers the limit.
Create(c) ==
    /\ job = NoJob /\ state[c] = "absent" /\ dom[c].up
    /\ \E l \in Limits \cup {0}, s \in SUBSET Cpus : \E t \in {0, 2 * l} :
         LET conf == [limit |-> l, thr |-> t, cpus |-> s,
                      vcpu |-> Larger(Cardinality(s), 1)] IN
         /\ cfg' = [cfg EXCEPT ![c] = conf]
         /\ dom' = [dom EXCEPT ![c] = ClientOf(conf)]
         /\ rec' = [rec EXCEPT ![c] = RecordedFor(NoRecord, conf)]
         /\ job' = [op |-> "create", c |-> c, at |-> "pin", limit |-> 0, cpus |-> {}]
    /\ state' = [state EXCEPT ![c] = "ready"]
    /\ first' = [first EXCEPT ![c] = TRUE]
    /\ UNCHANGED <<pinned, disk, settings>>

\* A later operation finds the container down and its client there: it is
\* registered anew, and the record keeps the threshold of the client before.
Register(c) ==
    /\ job = NoJob /\ state[c] = "down" /\ dom[c].up
    /\ dom' = [dom EXCEPT ![c] = ClientOf(cfg[c])]
    /\ rec' = [rec EXCEPT ![c] = RecordedFor(@, cfg[c])]
    /\ state' = [state EXCEPT ![c] = "ready"]
    /\ first' = [first EXCEPT ![c] = FALSE]
    /\ UNCHANGED <<cfg, job, pinned, disk, settings>>

\* startClient: setupMemory after the start, when the record does not fit.
Start(c) ==
    /\ job = NoJob /\ state[c] = "ready" /\ dom[c].up
    /\ LET limit == ConfigMiB(cfg[c].limit) IN
       IF limit = 0 \/ (rec[c].mem = limit /\ rec[c].thr >= limit)
       THEN state' = [state EXCEPT ![c] = "running"] /\ UNCHANGED job
       ELSE job' = [op |-> "start", c |-> c, at |-> "max", limit |-> limit, cpus |-> {}]
            /\ UNCHANGED state
    /\ UNCHANGED <<cfg, rec, dom, pinned, disk, settings, first>>

Stop(c) ==
    /\ job = NoJob /\ state[c] \in {"ready", "running"}
    /\ state' = [state EXCEPT ![c] = "stopped"]
    /\ dom' = [dom EXCEPT ![c] = NoClient]
    /\ UNCHANGED <<cfg, rec, job, pinned, disk, settings, first>>

\* checkState, for every container that is looked at.
Observed == [c \in Containers |->
    IF state[c] # "absent" /\ ~dom[c].up THEN "down" ELSE state[c]]

DeleteContainer(c) ==
    /\ job = NoJob /\ state[c] \in {"stopped", "down"} /\ ~dom[c].up
    /\ cfg' = [cfg EXCEPT ![c] = Blank]
    /\ state' = [Observed EXCEPT ![c] = "absent"]
    /\ rec' = [rec EXCEPT ![c] = NoRecord]
    /\ first' = [first EXCEPT ![c] = FALSE]
    /\ job' = [op |-> "delete", c |-> c, at |-> "pin", limit |-> 0, cpus |-> {}]
    /\ UNCHANGED <<dom, pinned, disk, settings>>

\* update: nothing is applied in a sandbox that is not running, or when no field is
\* set; a container neither ready nor running is refused, and one whose client is
\* gone is marked down first.
Update(c) ==
    /\ job = NoJob /\ state[c] # "absent"
    /\ \E l \in Asked, s \in {{}} \cup {{x} : x \in Cpus},
          applied \in BOOLEAN :
         /\ applied => Observed[c] \in {"ready", "running"}
         /\ job' = [op |-> "update", c |-> c, limit |-> l, cpus |-> s,
                    at |-> IF applied THEN "cap" ELSE "pin"]
         /\ state' \in {[state EXCEPT ![c] = Observed[c]]}
                        \cup (IF applied THEN {} ELSE {state})
    /\ UNCHANGED <<cfg, rec, dom, pinned, disk, settings, first>>

-----------------------------------------------------------------------------
\* The steps of an update (updateContainerResource), and of setupMemory.

\* The capacity of an update is always 0 and always sent.
StepOther(step, next) ==
    /\ job.op = "update" /\ job.at = step
    /\ \E o \in Outcomes(job.c, dom[job.c], TRUE) : job' = IF o.ok THEN At(next) ELSE Failed
    /\ UNCHANGED <<cfg, state, rec, dom, pinned, disk, settings, first>>

StepCap == StepOther("cap", "max")
StepWeight == StepOther("weight", "vcpu")

NoWeightChange ==
    /\ job.op = "update" /\ job.at = "weight"
    /\ job' = At("vcpu")
    /\ UNCHANGED <<cfg, state, rec, dom, pinned, disk, settings, first>>

\* Whether EnsureMemoryLimit or setupMemory has to raise the maximum.
Threshold(c) ==
    IF rec[c].thr = 0 /\ job.op = "update" THEN rec[c].mem ELSE rec[c].thr

NoMemoryChange ==
    /\ job.op # "none" /\ job.at = "max"
    /\ job.op = "update" /\ (job.limit = Unasked \/ rec[job.c].mem = AskedMiB(job.limit))
    /\ job' = AfterMemory
    /\ UNCHANGED <<cfg, state, rec, dom, pinned, disk, settings, first>>

ChangesMemory ==
    /\ job.op \in {"update", "start"}
    /\ job.op = "update" => job.limit # Unasked /\ rec[job.c].mem # AskedMiB(job.limit)

\* UpdateMemoryThreshold
StepMax_recordsFirst ==
    /\ job.op # "none" /\ job.at = "max" /\ ChangesMemory
    /\ LET c == job.c
           want == AskedMiB(job.limit) IN
       IF Threshold(c) >= want
       THEN job' = At("mem") /\ UNCHANGED <<rec, dom>>
       ELSE \E o \in Outcomes(c, [dom[c] EXCEPT !.max = want], TRUE) :
              /\ dom' = [dom EXCEPT ![c] = o.dom]
              /\ rec' = [rec EXCEPT ![c].thr = want]
              /\ job' = IF o.ok THEN At("mem") ELSE Failed
    /\ UNCHANGED <<cfg, state, pinned, disk, settings, first>>
StepMax ==
    /\ job.op # "none" /\ job.at = "max" /\ ChangesMemory
    /\ LET c == job.c
           want == AskedMiB(job.limit) IN
       IF Threshold(c) >= want
       THEN job' = At("mem") /\ UNCHANGED <<rec, dom>>
       ELSE \E o \in Outcomes(c, [dom[c] EXCEPT !.max = want], TRUE) :
              /\ dom' = [dom EXCEPT ![c] = o.dom]
              /\ rec' = IF o.ok THEN [rec EXCEPT ![c].thr = want] ELSE rec
              /\ job' = IF o.ok THEN At("mem") ELSE Failed
    /\ UNCHANGED <<cfg, state, pinned, disk, settings, first>>

\* UpdateMemory: the host has no Huge memory, and none above the client's maximum.
\* A limit of 0 is sent like any other.
StepMem ==
    /\ job.op \in {"start", "update"} /\ job.at = "mem"
    /\ LET c == job.c
           want == AskedMiB(job.limit) IN
       \E o \in Outcomes(c, [dom[c] EXCEPT !.mem = want],
                         want <= dom[c].max /\ want # Huge) :
         /\ dom' = [dom EXCEPT ![c] = o.dom]
         /\ rec' = IF o.ok
                   THEN [rec EXCEPT ![c].mem = want, ![c].thr = Larger(@, want)]
                   ELSE rec
         /\ job' = IF o.ok THEN AfterMemory ELSE Failed
    /\ UNCHANGED <<cfg, state, pinned, disk, settings, first>>

\* UpdatePCPUConstrains: an update that names no cpuset clears the recorded one.
StepCpus ==
    /\ job.op = "update" /\ job.at = "cpus"
    /\ LET c == job.c IN
       IF rec[c].cpus = job.cpus
       THEN job' = At("weight") /\ UNCHANGED rec
       ELSE \E ok \in CpuOutcomes(c) :
              /\ rec' = IF ok THEN [rec EXCEPT ![c].cpus = job.cpus] ELSE rec
              /\ job' = IF ok THEN At("weight") ELSE Failed
    /\ UNCHANGED <<cfg, state, dom, pinned, disk, settings, first>>

\* UpdateVCPUNum: the number is never recorded, so one vCPU is always sent; an
\* error is ignored.
StepVcpu ==
    /\ job.op = "update" /\ job.at = "vcpu"
    /\ \E o \in Outcomes(job.c, [dom[job.c] EXCEPT !.vcpu = 1], TRUE) :
         dom' = [dom EXCEPT ![job.c] = o.dom]
    /\ job' = At("record")
    /\ UNCHANGED <<cfg, state, rec, pinned, disk, settings, first>>

\* applyChanges records what was asked, and refreshes the totals.
RecordUpdate ==
    /\ job.op = "update" /\ job.at = "record"
    /\ cfg' = [cfg EXCEPT ![job.c].limit = IF job.limit = Unasked THEN @ ELSE job.limit,
                          ![job.c].cpus = IF job.cpus = {} THEN @ ELSE job.cpus]
    /\ state' = Observed
    /\ job' = At("pin")
    /\ UNCHANGED <<rec, dom, pinned, disk, settings, first>>

\* The end of setupMemory and of the start.
RecordStart ==
    /\ job.op = "start" /\ job.at = "record"
    /\ rec' = [rec EXCEPT ![job.c] = Recorded(@, job.limit, job.limit)]
    /\ state' = [state EXCEPT ![job.c] = "running"]
    /\ job' = NoJob
    /\ UNCHANGED <<cfg, dom, pinned, disk, settings, first>>

-----------------------------------------------------------------------------
\* checkVCPUsPinning and pinVCPU.

Pool == UNION {cfg[c].cpus : c \in Present}
PinSet_ownFirst(c) == IF shared /\ cfg[c].cpus = {} THEN Pool ELSE cfg[c].cpus
PinSet(c) == IF shared THEN Pool ELSE cfg[c].cpus
ToPin_running == {c \in Present : state[c] = "running" /\ (shared \/ cfg[c].cpus # {})}
ToPin == {c \in Present : shared \/ cfg[c].cpus # {}}

\* A pin fails when the command does, and for an empty set of CPUs.  A failure
\* leaves `pinned` set, except in a pool whose size is not the number of vCPUs.
Pinnable(ok) == {c \in ToPin : ok[c] /\ PinSet(c) # {}}

\* Undone by the deferred function of CreateContainer, whose stop may fail.
Undo ==
    /\ state' = [state EXCEPT ![job.c] = "absent"]
    /\ dom' \in {dom, [dom EXCEPT ![job.c] = NoClient]}
    /\ rec' = [rec EXCEPT ![job.c] = NoRecord]
    /\ first' = [first EXCEPT ![job.c] = FALSE]
    /\ job' = NoJob

Pin ==
    /\ job.op # "none" /\ job.at = "pin" /\ pinning
    /\ \E ok \in [Containers -> BOOLEAN] :
         /\ \A c \in Containers : ok[c] \in CpuOutcomes(c)
         /\ LET done == Pinnable(ok)
                conf == [c \in Containers |->
                    IF c \in done
                    THEN [cfg[c] EXCEPT !.cpus = PinSet(c), !.vcpu = Cardinality(PinSet(c))]
                    ELSE cfg[c]]
                pins == [c \in Containers |->
                    IF c \in done THEN [rec[c] EXCEPT !.cpus = PinSet(c)] ELSE rec[c]]
            IN  IF done = ToPin
                THEN /\ cfg' = conf /\ rec' = pins /\ pinned' = TRUE
                     /\ state' = Observed
                     /\ job' = At("store")
                     /\ UNCHANGED <<dom, first>>
                ELSE /\ pinned' \in {pinned} \cup (IF shared THEN {FALSE} ELSE {})
                     /\ CASE job.op = "create" ->
                               Undo /\ cfg' = [conf EXCEPT ![job.c] = Blank]
                          [] job.op = "update" ->
                               /\ cfg' = conf /\ rec' = pins /\ job' = At("store")
                               /\ UNCHANGED <<state, dom, first>>
                          [] OTHER ->
                               /\ cfg' = conf /\ rec' = pins /\ job' = NoJob
                               /\ UNCHANGED <<state, dom, first>>
    /\ UNCHANGED <<disk, settings>>

NoPin ==
    /\ job.op # "none" /\ job.at = "pin" /\ ~pinning
    /\ job' = At("store")
    /\ UNCHANGED <<cfg, state, rec, dom, pinned, disk, settings, first>>

\* StoreSandbox
Store ==
    /\ job.op # "none" /\ job.at = "store"
    /\ disk' = cfg
    /\ job' = NoJob
    /\ UNCHANGED <<cfg, state, rec, dom, pinned, settings, first>>

StoreFails ==
    /\ job.op # "none" /\ job.at = "store"
    /\ IF job.op = "create"
       THEN Undo /\ cfg' = [cfg EXCEPT ![job.c] = Blank]
       ELSE job' = NoJob /\ UNCHANGED <<cfg, state, rec, dom, first>>
    /\ UNCHANGED <<pinned, disk, settings>>

-----------------------------------------------------------------------------
\* Faults.

Vanish(c) ==
    /\ "vanish" \in Faults /\ dom[c].up
    /\ dom' = [dom EXCEPT ![c] = NoClient]
    /\ UNCHANGED <<cfg, state, rec, job, pinned, disk, settings, first>>

Appear(c) ==
    /\ ~dom[c].up
    /\ state[c] = "absent" \/ "appear" \in Faults
    /\ dom' = [dom EXCEPT ![c] = Foreign]
    /\ first' = [first EXCEPT ![c] = FALSE]
    /\ UNCHANGED <<cfg, state, rec, job, pinned, disk, settings>>

\* The shim dies in the middle of anything; the next one reads the stored
\* configurations, and its executors know nothing.
Restart ==
    /\ "restart" \in Faults
    /\ cfg' = disk
    /\ state' = [c \in Containers |->
         IF disk[c] = Blank THEN "absent" ELSE IF dom[c].up THEN "ready" ELSE "down"]
    /\ rec' = [c \in Containers |-> NoRecord]
    /\ job' = NoJob /\ pinned' = FALSE
    /\ first' = [c \in Containers |-> FALSE]
    /\ UNCHANGED <<dom, disk, settings>>

Next ==
    \/ \E c \in Containers : \/ Create(c) \/ Register(c) \/ Start(c) \/ Stop(c)
                             \/ DeleteContainer(c) \/ Update(c)
                             \/ Vanish(c) \/ Appear(c)
    \/ StepCap \/ NoMemoryChange \/ StepMax \/ StepMem \/ StepCpus \/ StepWeight \/ NoWeightChange
    \/ StepVcpu \/ RecordUpdate \/ RecordStart
    \/ Pin \/ NoPin \/ Store \/ StoreFails
    \/ Restart

Spec == Init /\ [][Next]_vars

-----------------------------------------------------------------------------
\* Properties.

\* The threshold covers the limit that is in force, whichever command failed in
\* the middle of an update (resource_manager.go:46-77, resource-mapping.md:97).
ThresholdCovers == \A c \in Containers : rec[c].mem <= rec[c].thr

\* As long as micrun keeps the container its threshold only rises, through refused
\* updates and a client that is registered again (resource_manager.go:37-44).
ThresholdNeverSinks ==
    [][\A c \in Containers :
         rec'[c].thr < rec[c].thr
             => rec'[c] = NoRecord /\ (state'[c] = "absent" \/ job' = NoJob)]_vars

\* For the client micrun registered at creation, room is made before memory is
\* set: the record is the client's memory, and its maximum covers the threshold
\* the executor relies on to skip the next request (resource_manager.go:51-181).
RoomForMemory ==
    (~BareSet) => \A c \in Containers : (first[c] /\ dom[c].up) =>
        /\ rec[c].mem = dom[c].mem
        /\ rec[c].thr <= dom[c].max

\* When nothing is going on and the last pinning succeeded, every container that
\* has a cpuset is recorded with it, although an update that names none clears
\* the record on its way (container.go:666, sandbox.go:553-577, 1066-1134).
PinsHold ==
    (job = NoJob /\ pinned /\ xl) =>
        \A c \in Present : cfg[c].cpus # {} => rec[c].cpus = cfg[c].cpus

\* In a shared pool every container is configured with the same CPUs once a pinning
\* has succeeded, whichever of them asked for which (sandbox.go:966-1004, 1066-1134).
PoolIsCommon ==
    (job = NoJob /\ pinned /\ shared /\ xl) =>
        \A c, d \in Present : cfg[c].cpus = cfg[d].cpus
=============================================================================
