--------------------------- MODULE Executor_proofs ---------------------------
(***************************************************************************)
(* The executor's memory threshold, and what a pinning leaves: proofs for  *)
(* every set of containers, CPUs and limits, every fault, and every answer *)
(* of a bare `set`.                                                        *)
(***************************************************************************)
EXTENDS Executor, FiniteSetTheorems, TLAPS

\* Every operator that yields a quantity yields one of the known ones.
LEMMA Quantities ==
    /\ Mem \subseteq Nat /\ 0 \in Mem /\ DefaultMem \in Mem /\ 2 * DefaultMem \in Mem
    /\ \A l \in Limits : l \in Mem /\ 2 * l \in Mem /\ l # 0
    /\ \A l \in AskedValues : AskedMiB(l) \in Mem
    /\ \A l \in LimitValues : l # -1 /\ l # 0 => l \in Limits /\ ConfigMiB(l) = l
    /\ ConfigMiB(0) = 0 /\ ConfigMiB(-1) = 0
    /\ \A a, b \in Mem : Larger(a, b) \in Mem /\ Larger(a, b) >= a /\ Larger(a, b) >= b
    /\ \A a, b \in Mem : a >= b => Larger(a, b) = a
<1>1. /\ \A l \in Limits : l \in Nat /\ l # 0 /\ 2 * l \in Nat
      /\ DefaultMem \in Nat /\ 2 * DefaultMem \in Nat /\ Huge \in Nat
    BY LimitsAssumption
<1>2. /\ Mem \subseteq Nat /\ 0 \in Mem /\ DefaultMem \in Mem
      /\ 2 * DefaultMem \in Mem /\ Huge \in Mem
    BY <1>1 DEF Mem
<1>3. \A l \in Limits : l \in Mem /\ 2 * l \in Mem /\ l # 0
    BY <1>1 DEF Mem
<1>4. \A l \in LimitValues : l \in Limits \/ l = 0 \/ l = -1
    BY DEF LimitValues, Unlimited
<1>5. \A l \in AskedValues : AskedMiB(l) \in Mem
    BY <1>1, <1>2, <1>3, <1>4 DEF AskedMiB, AskedValues, Unasked
<1>6. \A l \in LimitValues : l # -1 /\ l # 0 => l \in Limits /\ ConfigMiB(l) = l
    BY <1>1, <1>4 DEF ConfigMiB
<1>7. ConfigMiB(0) = 0 /\ ConfigMiB(-1) = 0
    BY DEF ConfigMiB
<1>8. \A a, b \in Nat : a \in Mem /\ b \in Mem =>
        Larger(a, b) \in Mem /\ Larger(a, b) >= a /\ Larger(a, b) >= b
    BY DEF Larger
<1>9. \A a, b \in Nat : a >= b => Larger(a, b) = a
    BY DEF Larger
<1> QED
    BY <1>2, <1>3, <1>5, <1>6, <1>7, <1>8, <1>9

\* A set of CPUs has a number of members.
LEMMA CountOfCpus == \A s \in SUBSET Cpus : Cardinality(s) \in Nat
BY CpusAssumption, FS_Subset, FS_CardinalityType

\* A configuration yields a client whose memory is within its maximum.
LEMMA ClientOfConfig ==
    ASSUME NEW conf \in Config
    PROVE  LET d == ClientOf(conf) IN
           /\ d \in [up : BOOLEAN, mem : Mem, max : Mem, vcpu : Nat]
           /\ d.up
           /\ d.mem = (IF ConfigMiB(conf.limit) # 0 THEN conf.limit ELSE DefaultMem)
           /\ d.max = (IF conf.thr # 0 THEN conf.thr ELSE 2 * d.mem)
<1> DEFINE m == IF ConfigMiB(conf.limit) # 0 THEN conf.limit ELSE DefaultMem
<1>1. /\ conf.limit \in LimitValues /\ conf.thr \in Mem /\ conf.vcpu \in Nat
    BY DEF Config
<1>2. m \in Mem /\ 2 * m \in Mem
    <2>1. CASE ConfigMiB(conf.limit) # 0
        <3>1. conf.limit # 0 /\ conf.limit # -1
            BY <2>1, Quantities
        <3>2. conf.limit \in Limits
            BY <1>1, <3>1, Quantities
        <3> QED
            BY <3>2, <2>1, Quantities
    <2>2. CASE ConfigMiB(conf.limit) = 0
        BY <2>2, Quantities
    <2> QED
        BY <2>1, <2>2
<1>3. Larger(conf.vcpu, 1) \in Nat
    BY <1>1 DEF Larger
<1> QED
    BY <1>1, <1>2, <1>3 DEF ClientOf

\* What is recorded covers the memory, and never falls below the record before.
LEMMA RecordedCovers ==
    ASSUME NEW r \in [mem : Mem, thr : Mem, cpus : SUBSET Cpus],
           NEW m \in Mem, NEW t \in Mem, t # 0 => t >= m
    PROVE  LET q == Recorded(r, m, t) IN
           /\ q \in [mem : Mem, thr : Mem, cpus : SUBSET Cpus]
           /\ q.mem = m /\ q.cpus = r.cpus /\ q.thr >= m /\ q.thr >= r.thr
           /\ q.thr = Larger(r.thr, IF t = 0 THEN m ELSE t)
<1> DEFINE w == IF t = 0 THEN m ELSE t
<1>1. w \in Mem /\ w >= m /\ m \in Nat /\ w \in Nat
    BY Quantities
<1>2. Larger(r.thr, w) \in Mem /\ Larger(r.thr, w) >= r.thr /\ Larger(r.thr, w) >= w
    BY <1>1, Quantities
<1> HIDE DEF w
<1>3. Larger(r.thr, w) >= m
    <2>1. Larger(r.thr, w) \in Nat
        BY <1>2, Quantities
    <2> QED
        BY <1>1, <1>2, <2>1
<1>4. Recorded(r, m, t) = [r EXCEPT !.mem = m, !.thr = Larger(r.thr, w)]
    BY DEF Recorded, w
<1> QED
    BY <1>2, <1>3, <1>4 DEF w

\* The inductive invariant adds what a start is about, and that by the time it
\* records its memory UpdateMemory has done so.
StartSettled ==
    job.op = "start" =>
        /\ job.limit \in Limits
        /\ job.at = "record" => rec[job.c].mem = job.limit

\* Only a container that is there has a record, and only such a one is worked on.
Unrecorded ==
    /\ \A c \in Containers : state[c] = "absent" => rec[c] = NoRecord
    /\ job.op \in {"start", "update"} => state[job.c] # "absent"

IInv == TypeOK /\ ThresholdCovers /\ RoomForMemory /\ StartSettled /\ Unrecorded

\* What ThresholdNeverSinks says of one step.
Rises ==
    \A c \in Containers :
        rec'[c].thr < rec[c].thr
            => rec'[c] = NoRecord /\ (state'[c] = "absent" \/ job' = NoJob)

Record == [mem : Mem, thr : Mem, cpus : SUBSET Cpus]
Client == [up : BOOLEAN, mem : Mem, max : Mem, vcpu : Nat]

\* The jobs the operations begin are jobs.
LEMMA Jobs ==
    /\ \A op \in {"create", "start", "update", "delete"}, c \in Containers, at \in Steps,
          l \in AskedValues, s \in SUBSET Cpus :
         [op |-> op, c |-> c, at |-> at, limit |-> l, cpus |-> s] \in Job
    /\ \A j \in Job, at \in Steps : [j EXCEPT !.at = at] \in Job
    /\ \A j \in Job : /\ j.c \in Containers /\ j.limit \in AskedValues
                      /\ j.cpus \in SUBSET Cpus /\ j.at \in Steps /\ j.op # "none"
    /\ NoJob.op = "none" /\ 0 \in LimitValues /\ LimitValues = Limits \cup {0, -1}
    /\ LimitValues \subseteq AskedValues /\ Asked \subseteq AskedValues
BY AskedAssumption DEF Job, NoJob, AskedValues, LimitValues, Unlimited, Unasked

\* The constant records have the types of the tables that hold them.
LEMMA Constants ==
    /\ Blank \in Config /\ NoRecord \in Record /\ NoClient \in Client
    /\ Foreign \in Client /\ Foreign.up /\ ~NoClient.up
    /\ NoRecord.mem = 0 /\ NoRecord.thr = 0
BY Quantities, Jobs DEF Blank, NoRecord, NoClient, Foreign, Config, Record, Client

\* A step that leaves the records, the clients and `first` alone, and begins no
\* start, keeps all but the types.
LEMMA NothingRecorded ==
    ASSUME IInv, UNCHANGED <<rec, dom, first>>,
           job'.op = "start" => job' = job
    PROVE  ThresholdCovers' /\ RoomForMemory' /\ StartSettled' /\ Rises
<1>1. ThresholdCovers' /\ RoomForMemory'
    BY DEF IInv, ThresholdCovers, RoomForMemory
<1>2. StartSettled'
    BY DEF IInv, StartSettled
<1>3. Rises
    <2>1. \A c \in Containers : rec[c].thr \in Nat
        BY Quantities DEF IInv, TypeOK
    <2> QED
        BY <2>1 DEF Rises
<1> QED
    BY <1>1, <1>2, <1>3

LEMMA CreateStep ==
    ASSUME IInv, NEW c \in Containers, Create(c)
    PROVE  IInv' /\ Rises
<1>1. PICK l \in Limits \cup {0}, s \in SUBSET Cpus : \E t \in {0, 2 * l} :
         LET conf == [limit |-> l, thr |-> t, cpus |-> s,
                      vcpu |-> Larger(Cardinality(s), 1)] IN
         /\ cfg' = [cfg EXCEPT ![c] = conf]
         /\ dom' = [dom EXCEPT ![c] = ClientOf(conf)]
         /\ rec' = [rec EXCEPT ![c] = RecordedFor(NoRecord, conf)]
         /\ job' = [op |-> "create", c |-> c, at |-> "pin", limit |-> 0, cpus |-> {}]
    BY DEF Create
<1>2. PICK t \in {0, 2 * l} :
         LET conf == [limit |-> l, thr |-> t, cpus |-> s,
                      vcpu |-> Larger(Cardinality(s), 1)] IN
         /\ cfg' = [cfg EXCEPT ![c] = conf]
         /\ dom' = [dom EXCEPT ![c] = ClientOf(conf)]
         /\ rec' = [rec EXCEPT ![c] = RecordedFor(NoRecord, conf)]
         /\ job' = [op |-> "create", c |-> c, at |-> "pin", limit |-> 0, cpus |-> {}]
    BY <1>1
<1> DEFINE conf == [limit |-> l, thr |-> t, cpus |-> s,
                    vcpu |-> Larger(Cardinality(s), 1)]
           d == ClientOf(conf)
           r == RecordedFor(NoRecord, conf)
<1>3. conf \in Config
    <2>1. Larger(Cardinality(s), 1) \in Nat
        BY CountOfCpus DEF Larger
    <2>2. t \in Mem /\ l \in LimitValues
        BY Quantities, Jobs
    <2> QED
        BY <2>1, <2>2 DEF Config
<1>4. /\ d \in Client /\ d.up
      /\ d.mem = (IF ConfigMiB(l) # 0 THEN l ELSE DefaultMem)
      /\ d.max = (IF t # 0 THEN t ELSE 2 * d.mem)
    BY <1>3, ClientOfConfig DEF Client
<1> HIDE DEF conf
<1>5. /\ r \in Record /\ r.mem = d.mem /\ r.thr = d.mem
    <2>1. d.mem \in Mem /\ d.mem \in Nat
        BY <1>4, Quantities DEF Client
    <2>2. r = Recorded(NoRecord, d.mem, d.mem)
        BY DEF RecordedFor
    <2>3. /\ r \in Record /\ r.mem = d.mem
          /\ r.thr = Larger(NoRecord.thr, IF d.mem = 0 THEN d.mem ELSE d.mem)
        BY <2>1, <2>2, RecordedCovers, Constants DEF Record
    <2>4. Larger(0, d.mem) = d.mem
        BY <2>1 DEF Larger
    <2> QED
        BY <2>3, <2>4, Constants
<1>6. d.mem \in Nat /\ d.mem <= d.max
    <2>1. CASE l = 0
        BY <2>1, <1>4, Quantities
    <2>2. CASE l \in Limits
        <3>1. l \in Nat \ {0}
            BY <2>2, LimitsAssumption
        <3> QED
            BY <3>1, <1>4 DEF ConfigMiB
    <2> QED
        BY <2>1, <2>2
<1>7. /\ cfg' = [cfg EXCEPT ![c] = conf] /\ dom' = [dom EXCEPT ![c] = d]
      /\ rec' = [rec EXCEPT ![c] = r]
      /\ job' = [op |-> "create", c |-> c, at |-> "pin", limit |-> 0, cpus |-> {}]
      /\ state' = [state EXCEPT ![c] = "ready"] /\ first' = [first EXCEPT ![c] = TRUE]
      /\ UNCHANGED <<pinned, disk, settings>>
    BY <1>2 DEF Create, conf
<1> HIDE DEF d, r
<1>8. TypeOK'
    <2>1. job' \in Job
        BY <1>7, Jobs DEF Steps
    <2> QED
        BY <1>3, <1>4, <1>5, <1>7, <2>1 DEF IInv, TypeOK, Record, Client, settings, States
<1>9. ThresholdCovers'
    BY <1>5, <1>6, <1>7 DEF IInv, TypeOK, ThresholdCovers
<1>10. RoomForMemory'
    BY <1>4, <1>5, <1>6, <1>7 DEF IInv, TypeOK, RoomForMemory
<1>11. StartSettled'
    BY <1>7 DEF StartSettled
<1>12. Rises
    <2>1. rec[c] = NoRecord /\ r.thr \in Nat /\ r.thr >= 0
        BY <1>5, <1>6 DEF Create, IInv, Unrecorded
    <2>2. \A x \in Containers : rec[x].thr \in Nat
        BY Quantities DEF IInv, TypeOK
    <2> QED
        BY <1>7, <2>1, <2>2, Constants DEF Rises, IInv, TypeOK
<1>13. Unrecorded'
    BY <1>7 DEF IInv, TypeOK, Unrecorded
<1> QED
    BY <1>8, <1>9, <1>10, <1>11, <1>12, <1>13 DEF IInv

LEMMA RegisterStep ==
    ASSUME IInv, NEW c \in Containers, Register(c)
    PROVE  IInv' /\ Rises
<1> DEFINE d == ClientOf(cfg[c])
           r == RecordedFor(rec[c], cfg[c])
<1>1. cfg[c] \in Config /\ rec[c] \in Record
    BY DEF IInv, TypeOK, Record
<1>2. d \in Client
    BY <1>1, ClientOfConfig DEF Client
<1>3. r \in Record /\ r.mem <= r.thr /\ r.thr >= rec[c].thr
    <2>2. r = Recorded(rec[c], d.mem, d.mem)
        BY DEF RecordedFor
    <2> HIDE DEF d, r
    <2>4. d.mem \in Mem /\ d.mem \in Nat
        BY <1>2, Quantities DEF Client
    <2>1. d.mem \in Mem /\ (d.mem # 0 => d.mem >= d.mem)
        BY <2>4
    <2>3. r \in Record /\ r.mem = d.mem /\ r.thr >= d.mem /\ r.thr >= rec[c].thr
        BY <1>1, <2>1, <2>2, RecordedCovers DEF Record
    <2> QED
        BY <2>1, <2>3, Quantities DEF Record
<1>4. /\ job = NoJob /\ dom' = [dom EXCEPT ![c] = d] /\ rec' = [rec EXCEPT ![c] = r]
      /\ state' = [state EXCEPT ![c] = "ready"] /\ first' = [first EXCEPT ![c] = FALSE]
      /\ UNCHANGED <<cfg, job, pinned, disk, settings>>
    BY DEF Register
<1> HIDE DEF d, r
<1>5. TypeOK'
    BY <1>2, <1>3, <1>4 DEF IInv, TypeOK, Record, Client, settings, States
<1>6. ThresholdCovers' /\ RoomForMemory'
    BY <1>3, <1>4 DEF IInv, TypeOK, ThresholdCovers, RoomForMemory
<1>7. StartSettled' /\ Unrecorded'
    BY <1>4, Jobs DEF IInv, TypeOK, StartSettled, Unrecorded
<1>8. Rises
    <2>1. \A x \in Containers : rec[x].thr \in Nat
        BY Quantities DEF IInv, TypeOK
    <2>2. r.thr \in Nat /\ r.thr >= rec[c].thr
        BY <1>3, Quantities DEF Record
    <2> QED
        BY <1>4, <2>1, <2>2 DEF Rises, IInv, TypeOK
<1> QED
    BY <1>5, <1>6, <1>7, <1>8 DEF IInv

\* Observing the clients may only change a container that is there to "down".
LEMMA ObservedStates ==
    ASSUME TypeOK
    PROVE  /\ Observed \in [Containers -> States]
           /\ \A c \in Containers : Observed[c] = "absent" <=> state[c] = "absent"
BY DEF TypeOK, Observed, States

LEMMA StartStep ==
    ASSUME IInv, NEW c \in Containers, Start(c)
    PROVE  IInv' /\ Rises
<1> DEFINE limit == ConfigMiB(cfg[c].limit)
           begun == [op |-> "start", c |-> c, at |-> "max", limit |-> limit, cpus |-> {}]
<1>1. UNCHANGED <<cfg, rec, dom, pinned, disk, settings, first>> /\ job = NoJob
    BY DEF Start
<1>2. CASE state' = [state EXCEPT ![c] = "running"] /\ UNCHANGED job
    <2>1. TypeOK'
        BY <1>1, <1>2 DEF IInv, TypeOK, settings, States
    <2>2. Unrecorded'
        BY <1>1, <1>2, Jobs DEF IInv, TypeOK, Unrecorded, Start
    <2> QED
        BY <1>1, <1>2, <2>1, <2>2, NothingRecorded DEF IInv
<1>3. CASE job' = begun /\ UNCHANGED state /\ limit # 0
    <2>1. cfg[c].limit \in LimitValues
        BY DEF IInv, TypeOK, Config
    <2>2. cfg[c].limit # 0 /\ cfg[c].limit # -1
        BY <1>3, Quantities
    <2>3. limit \in Limits /\ limit \in LimitValues
        BY <2>1, <2>2, Quantities, Jobs
    <2> HIDE DEF limit
    <2>4. begun \in Job
        BY <2>3, Jobs DEF Steps
    <2>5. TypeOK'
        BY <1>1, <1>3, <2>4 DEF IInv, TypeOK, settings
    <2>6. StartSettled'
        BY <1>3, <2>3 DEF StartSettled
    <2>7. Unrecorded'
        BY <1>1, <1>3 DEF IInv, Unrecorded, Start
    <2>8. ThresholdCovers' /\ RoomForMemory' /\ Rises
        <3>1. \A x \in Containers : rec[x].thr \in Nat
            BY Quantities DEF IInv, TypeOK
        <3> QED
            BY <1>1, <3>1 DEF IInv, ThresholdCovers, RoomForMemory, Rises
    <2> QED
        BY <2>5, <2>6, <2>7, <2>8 DEF IInv
<1> QED
    BY <1>2, <1>3 DEF Start

LEMMA StopStep ==
    ASSUME IInv, NEW c \in Containers, Stop(c)
    PROVE  IInv' /\ Rises
<1>1. /\ job = NoJob /\ state' = [state EXCEPT ![c] = "stopped"]
      /\ dom' = [dom EXCEPT ![c] = NoClient] /\ state[c] # "absent"
      /\ UNCHANGED <<cfg, rec, job, pinned, disk, settings, first>>
    BY DEF Stop
<1>2. TypeOK'
    BY <1>1, Constants DEF IInv, TypeOK, Client, settings, States
<1>3. ThresholdCovers' /\ RoomForMemory' /\ StartSettled' /\ Unrecorded'
    BY <1>1, Constants, Jobs
    DEF IInv, TypeOK, ThresholdCovers, RoomForMemory, StartSettled, Unrecorded
<1>4. Rises
    <2>1. \A x \in Containers : rec[x].thr \in Nat
        BY Quantities DEF IInv, TypeOK
    <2> QED
        BY <1>1, <2>1 DEF Rises
<1> QED
    BY <1>2, <1>3, <1>4 DEF IInv

LEMMA DeleteStep ==
    ASSUME IInv, NEW c \in Containers, DeleteContainer(c)
    PROVE  IInv' /\ Rises
<1>1. /\ cfg' = [cfg EXCEPT ![c] = Blank]
      /\ state' = [Observed EXCEPT ![c] = "absent"]
      /\ rec' = [rec EXCEPT ![c] = NoRecord]
      /\ first' = [first EXCEPT ![c] = FALSE]
      /\ job' = [op |-> "delete", c |-> c, at |-> "pin", limit |-> 0, cpus |-> {}]
      /\ UNCHANGED <<dom, pinned, disk, settings>>
    BY DEF DeleteContainer
<1>2. TypeOK'
    <2>1. job' \in Job
        BY <1>1, Jobs DEF Steps
    <2>2. state' \in [Containers -> States]
        BY <1>1, ObservedStates DEF IInv, States
    <2> QED
        BY <1>1, <2>1, <2>2, Constants DEF IInv, TypeOK, Record, settings
<1>3. ThresholdCovers' /\ RoomForMemory' /\ StartSettled'
    BY <1>1, Constants DEF IInv, TypeOK, ThresholdCovers, RoomForMemory, StartSettled
<1>4. Unrecorded'
    BY <1>1, ObservedStates DEF IInv, TypeOK, Unrecorded
<1>5. Rises
    <2>1. \A x \in Containers : rec[x].thr \in Nat
        BY Quantities DEF IInv, TypeOK
    <2> QED
        BY <1>1, <2>1, ObservedStates DEF IInv, TypeOK, Rises
<1> QED
    BY <1>2, <1>3, <1>4, <1>5 DEF IInv

LEMMA UpdateStep ==
    ASSUME IInv, NEW c \in Containers, Update(c)
    PROVE  IInv' /\ Rises
<1>1. PICK l \in Asked, s \in SUBSET Cpus, at \in Steps :
        job' = [op |-> "update", c |-> c, limit |-> l, cpus |-> s, at |-> at]
    BY DEF Update, Steps
<1>2. /\ job = NoJob /\ state[c] # "absent"
      /\ state' \in {[state EXCEPT ![c] = Observed[c]], state}
      /\ UNCHANGED <<cfg, rec, dom, pinned, disk, settings, first>>
    BY DEF Update
<1>3. job' \in Job
    BY <1>1, Jobs
<1>4. TypeOK'
    BY <1>2, <1>3, ObservedStates DEF IInv, TypeOK, settings
<1>5. Unrecorded'
    BY <1>1, <1>2, ObservedStates DEF IInv, TypeOK, Unrecorded
<1> QED
    BY <1>1, <1>2, <1>4, <1>5, NothingRecorded DEF IInv

\* What comes of a command: the client stays there, and unless a bare `set` may be
\* answered with success it is what was asked for exactly when that succeeded.
LEMMA OutcomeOf ==
    ASSUME NEW before, NEW d, NEW o,
           \/ o = [ok |-> FALSE, dom |-> before]
           \/ o = [ok |-> TRUE, dom |-> d]
           \/ BareSet /\ o = [ok |-> TRUE, dom |-> before]
    PROVE  /\ o.dom \in {before, d} /\ o.ok \in BOOLEAN
           /\ ~o.ok => o.dom = before
           /\ ~BareSet /\ o.ok => o.dom = d
<1> DEFINE failed == [ok |-> FALSE, dom |-> before]
           done == [ok |-> TRUE, dom |-> d]
           nothing == [ok |-> TRUE, dom |-> before]
<1>1. o = failed \/ o = done \/ (o = nothing /\ BareSet)
    OBVIOUS
<1>2. /\ ~failed.ok /\ failed.dom = before
      /\ done.ok /\ done.dom = d
      /\ nothing.ok /\ nothing.dom = before
    OBVIOUS
<1>3. failed.ok \in BOOLEAN /\ done.ok \in BOOLEAN /\ nothing.ok \in BOOLEAN
    OBVIOUS
<1> HIDE DEF failed, done, nothing
<1>4. CASE o = failed
    BY <1>2, <1>3, <1>4
<1>5. CASE o = done
    BY <1>2, <1>3, <1>5
<1>6. CASE o = nothing /\ BareSet
    BY <1>2, <1>3, <1>6
<1> QED
    BY <1>1, <1>4, <1>5, <1>6

\* Going on to another step, or to what follows a failure, leaves a job.
LEMMA NextSteps ==
    ASSUME TypeOK, job.op # "none"
    PROVE  /\ job \in Job /\ job.c \in Containers /\ job.limit \in AskedValues
           /\ \A at \in Steps : At(at) \in Job /\ At(at) = [job EXCEPT !.at = at]
           /\ Failed \in Job \cup {NoJob} /\ AfterMemory \in Job
           /\ \A at \in Steps : /\ At(at).op = job.op /\ At(at).c = job.c
                                /\ At(at).limit = job.limit /\ At(at).at = at
           /\ Failed.op \in {"none", "update"} /\ AfterMemory.op = job.op
           /\ Failed.op = "update" => Failed.c = job.c /\ job.op = "update"
           /\ AfterMemory.c = job.c /\ AfterMemory.limit = job.limit
<1>1. job \in Job
    BY Jobs DEF TypeOK
<1>2. \A at \in Steps : At(at) = [job EXCEPT !.at = at] /\ At(at) \in Job
    BY <1>1, Jobs DEF At
<1>3. \A at \in Steps : /\ At(at).op = job.op /\ At(at).c = job.c
                        /\ At(at).limit = job.limit /\ At(at).at = at
    BY <1>1, <1>2 DEF Job
<1>4. "pin" \in Steps /\ "cpus" \in Steps /\ "record" \in Steps
    BY DEF Steps
<1>5. Failed \in Job \cup {NoJob} /\ AfterMemory \in Job
    BY <1>2, <1>4 DEF Failed, AfterMemory
<1>6. /\ Failed.op \in {"none", "update"}
      /\ Failed.op = "update" => Failed.c = job.c /\ job.op = "update"
    BY <1>3, <1>4, Jobs DEF Failed
<1>7. /\ AfterMemory.c = job.c /\ AfterMemory.limit = job.limit
      /\ AfterMemory.op = job.op
    BY <1>3, <1>4 DEF AfterMemory
<1> QED
    BY <1>1, <1>2, <1>3, <1>5, <1>6, <1>7, Jobs

\* A step of an update that only moves the job on.
LEMMA MovesOn ==
    ASSUME IInv, job.op = "update", NEW at \in Steps,
           job' \in {At(at), Failed, AfterMemory},
           UNCHANGED <<cfg, state, rec, dom, pinned, disk, settings, first>>
    PROVE  IInv' /\ Rises
<1>1. job' \in Job \cup {NoJob} /\ job'.op # "start"
      /\ (job'.op = "update" => job'.c = job.c)
    BY NextSteps DEF IInv
<1>2. TypeOK'
    BY <1>1 DEF IInv, TypeOK, settings
<1>3. Unrecorded'
    BY <1>1 DEF IInv, Unrecorded
<1> QED
    BY <1>1, <1>2, <1>3, NothingRecorded DEF IInv

LEMMA SendingSteps ==
    ASSUME IInv,
           StepCap \/ StepWeight \/ NoWeightChange \/ NoMemoryChange
    PROVE  IInv' /\ Rises
<1>1. CASE StepCap
    BY <1>1, MovesOn DEF StepCap, StepOther, Steps
<1>2. CASE StepWeight
    BY <1>2, MovesOn DEF StepWeight, StepOther, Steps
<1>3. CASE NoWeightChange
    BY <1>3, MovesOn DEF NoWeightChange, Steps
<1>4. CASE NoMemoryChange
    BY <1>4, MovesOn DEF NoMemoryChange, Steps
<1> QED
    BY <1>1, <1>2, <1>3, <1>4

\* A step that changes the record and the client of the job's container.
LEMMA Resized ==
    ASSUME IInv, job.op \in {"start", "update"},
           NEW d \in Client, NEW r \in Record,
           dom' = [dom EXCEPT ![job.c] = d], rec' = [rec EXCEPT ![job.c] = r],
           r.mem <= r.thr, r.thr >= rec[job.c].thr,
           ~BareSet /\ first[job.c] /\ d.up => r.mem = d.mem /\ r.thr <= d.max,
           job' \in Job \cup {NoJob}, job'.op \in {"none", job.op},
           job'.op # "none" => job'.c = job.c /\ job'.limit = job.limit,
           job'.op = "start" /\ job'.at = "record" => r.mem = job.limit,
           UNCHANGED <<cfg, state, pinned, disk, settings, first>>
    PROVE  IInv' /\ Rises
<1>1. job \in Job /\ job.c \in Containers
    BY NextSteps DEF IInv
<1>2. TypeOK'
    BY <1>1 DEF IInv, TypeOK, Record, Client, settings
<1>3. ThresholdCovers' /\ RoomForMemory'
    BY <1>1 DEF IInv, TypeOK, ThresholdCovers, RoomForMemory
<1>4. StartSettled'
    BY <1>1 DEF IInv, TypeOK, StartSettled
<1>5. Unrecorded'
    BY <1>1, Jobs DEF IInv, TypeOK, Unrecorded
<1>6. Rises
    <2>1. r.thr \in Nat /\ \A x \in Containers : rec[x].thr \in Nat
        BY Quantities DEF IInv, TypeOK, Record
    <2> QED
        BY <1>1, <2>1 DEF IInv, TypeOK, Rises
<1> QED
    BY <1>2, <1>3, <1>4, <1>5, <1>6 DEF IInv

LEMMA StepMaxStep ==
    ASSUME IInv, StepMax
    PROVE  IInv' /\ Rises
<1> DEFINE c == job.c
           want == AskedMiB(job.limit)
<1>1. /\ job.op \in {"start", "update"} /\ job.at = "max" /\ job \in Job
      /\ c \in Containers /\ job.limit \in AskedValues
      /\ UNCHANGED <<cfg, state, pinned, disk, settings, first>>
    BY NextSteps DEF StepMax, ChangesMemory, IInv
<1>2. want \in Mem /\ want \in Nat
    BY <1>1, Quantities
<1>3. /\ rec[c] \in Record /\ dom[c] \in Client
      /\ rec[c].mem \in Nat /\ rec[c].thr \in Nat /\ rec[c].mem <= rec[c].thr
    BY <1>1, Quantities DEF IInv, TypeOK, Record, Client, ThresholdCovers
<1>4. Threshold(c) = rec[c].thr
    BY <1>3 DEF Threshold
<1> HIDE DEF c, want
<1>5. CASE Threshold(c) >= want /\ job' = At("mem") /\ UNCHANGED <<rec, dom>>
    <2>1. /\ rec' = [rec EXCEPT ![job.c] = rec[job.c]]
          /\ dom' = [dom EXCEPT ![job.c] = dom[job.c]]
        BY <1>1, <1>5 DEF IInv, TypeOK
    <2>2. ~BareSet /\ first[job.c] /\ dom[job.c].up
             => rec[job.c].mem = dom[job.c].mem /\ rec[job.c].thr <= dom[job.c].max
        BY <1>1 DEF IInv, RoomForMemory, c
    <2>3. "mem" \in Steps
        BY DEF Steps
    <2>4. /\ job' \in Job /\ job'.op = job.op /\ job'.c = job.c
          /\ job'.limit = job.limit /\ job'.at = "mem"
        BY <1>1, <1>5, <2>3, NextSteps DEF IInv
    <2> DEFINE d == dom[job.c]
               r == rec[job.c]
    <2>5. d \in Client /\ r \in Record /\ r.mem <= r.thr /\ r.thr >= rec[job.c].thr
        BY <1>3 DEF c
    <2> HIDE DEF d, r
    <2> QED
        BY <1>1, <2>1, <2>2, <2>4, <2>5, Resized DEF d, r
<1>6. ASSUME ~(Threshold(c) >= want),
             NEW o \in Outcomes(c, [dom[c] EXCEPT !.max = want], TRUE),
             dom' = [dom EXCEPT ![c] = o.dom],
             rec' = IF o.ok THEN [rec EXCEPT ![c].thr = want] ELSE rec,
             job' = IF o.ok THEN At("mem") ELSE Failed
      PROVE  IInv' /\ Rises
    <2> DEFINE r == IF o.ok THEN [rec[c] EXCEPT !.thr = want] ELSE rec[c]
    <2>1. rec' = [rec EXCEPT ![c] = r]
        BY <1>1, <1>6 DEF IInv, TypeOK, c
    <2> DEFINE asked == [dom[c] EXCEPT !.max = want]
    <2> HIDE DEF asked
    <2>9. o \in Outcomes(c, asked, TRUE)
        BY <1>6 DEF asked
    <2>10. \/ o = [ok |-> FALSE, dom |-> dom[c]]
           \/ o = [ok |-> TRUE, dom |-> asked]
           \/ BareSet /\ o = [ok |-> TRUE, dom |-> dom[c]]
        BY <2>9 DEF Outcomes
    <2>2. /\ o.dom \in {dom[c], asked} /\ o.ok \in BOOLEAN
          /\ ~o.ok => o.dom = dom[c]
          /\ ~BareSet /\ o.ok => o.dom = asked
        BY <2>10, OutcomeOf
    <2>3. /\ o.dom \in Client /\ o.dom.up = dom[c].up /\ o.dom.mem = dom[c].mem
          /\ o.dom.max \in {dom[c].max, want}
          /\ o.dom # dom[c] => o.dom.max = want
        BY <1>2, <1>3, <2>2 DEF Client, asked
    <2>4. /\ r \in Record /\ r.mem = rec[c].mem
          /\ r.thr = (IF o.ok THEN want ELSE rec[c].thr)
        BY <1>2, <1>3 DEF Record
    <2>5. want > rec[c].thr
        BY <1>2, <1>3, <1>4, <1>6
    <2>6. r.mem <= r.thr /\ r.thr >= rec[c].thr
        BY <1>2, <1>3, <2>4, <2>5
    <2>7. ~BareSet /\ first[c] /\ o.dom.up => r.mem = o.dom.mem /\ r.thr <= o.dom.max
        <3> SUFFICES ASSUME ~BareSet, first[c], o.dom.up
                     PROVE  r.mem = o.dom.mem /\ r.thr <= o.dom.max
            OBVIOUS
        <3>1. rec[c].mem = dom[c].mem /\ rec[c].thr <= dom[c].max
            BY <1>1, <2>3 DEF IInv, RoomForMemory, c
        <3>2. CASE o.ok
            <4>1. o.dom.max = want
                BY <1>3, <2>2, <3>2 DEF Client, asked
            <4> QED
                BY <1>2, <2>3, <2>4, <3>1, <3>2, <4>1
        <3>3. CASE ~o.ok
            BY <2>2, <2>4, <3>1, <3>3
        <3> QED
            BY <2>2, <3>2, <3>3
    <2>8. /\ job' \in Job \cup {NoJob} /\ job'.op \in {"none", job.op}
          /\ job'.op # "none" => job'.c = job.c /\ job'.limit = job.limit
          /\ job'.op = "start" => job'.at = "mem"
        <3>1. "mem" \in Steps /\ "pin" \in Steps /\ NoJob.op = "none"
            BY Jobs DEF Steps
        <3>2. CASE o.ok
            BY <1>1, <1>6, <3>1, <3>2, NextSteps DEF IInv
        <3>3. CASE ~o.ok
            BY <1>1, <1>6, <3>1, <3>3, NextSteps DEF IInv, Failed
        <3> QED
            BY <3>2, <3>3
    <2> HIDE DEF r
    <2> QED
        BY <1>1, <1>6, <2>1, <2>3, <2>4, <2>6, <2>7, <2>8, Resized DEF c
<1> QED
    BY <1>5, <1>6 DEF StepMax, c, want

LEMMA StepMemStep ==
    ASSUME IInv, StepMem
    PROVE  IInv' /\ Rises
<1> DEFINE c == job.c
           want == AskedMiB(job.limit)
<1>1. /\ job.op \in {"start", "update"} /\ job.at = "mem" /\ job \in Job
      /\ c \in Containers /\ job.limit \in AskedValues
      /\ UNCHANGED <<cfg, state, pinned, disk, settings, first>>
    BY NextSteps DEF StepMem, IInv
<1>2. want \in Mem /\ want \in Nat
    BY <1>1, Quantities
<1>3. /\ rec[c] \in Record /\ dom[c] \in Client
      /\ rec[c].mem \in Nat /\ rec[c].thr \in Nat /\ rec[c].mem <= rec[c].thr
    BY <1>1, Quantities DEF IInv, TypeOK, Record, Client, ThresholdCovers
<1> HIDE DEF c, want
<1> DEFINE asked == [dom[c] EXCEPT !.mem = want]
           fits == want <= dom[c].max /\ want # Huge
<1> HIDE DEF asked
<1>4. PICK o \in Outcomes(c, asked, fits) :
         /\ dom' = [dom EXCEPT ![c] = o.dom]
         /\ rec' = IF o.ok
                   THEN [rec EXCEPT ![c].mem = want, ![c].thr = Larger(@, want)]
                   ELSE rec
         /\ job' = IF o.ok THEN AfterMemory ELSE Failed
    BY DEF StepMem, c, want, asked
<1>5. \/ o = [ok |-> FALSE, dom |-> dom[c]]
      \/ o = [ok |-> TRUE, dom |-> asked] /\ fits
      \/ BareSet /\ o = [ok |-> TRUE, dom |-> dom[c]]
    BY <1>4 DEF Outcomes
<1>6. /\ o.dom \in {dom[c], asked} /\ o.ok \in BOOLEAN
      /\ ~o.ok => o.dom = dom[c]
      /\ ~BareSet /\ o.ok => o.dom = asked
    BY <1>5, OutcomeOf
<1>7. ~BareSet /\ o.ok => fits
    BY <1>5
<1> DEFINE new == [rec[c] EXCEPT !.mem = want, !.thr = Larger(rec[c].thr, want)]
           r == IF o.ok THEN new ELSE rec[c]
<1>8. rec' = [rec EXCEPT ![c] = r]
    BY <1>1, <1>4 DEF IInv, TypeOK
<1>9. /\ Larger(rec[c].thr, want) \in Mem /\ Larger(rec[c].thr, want) \in Nat
      /\ Larger(rec[c].thr, want) >= rec[c].thr /\ Larger(rec[c].thr, want) >= want
      /\ Larger(rec[c].thr, want) \in {rec[c].thr, want}
    <2>1. rec[c].thr \in Mem
        BY <1>3 DEF Record
    <2>2. Larger(rec[c].thr, want) \in {rec[c].thr, want}
        BY DEF Larger
    <2> QED
        BY <1>2, <1>3, <2>1, <2>2, Quantities
<1>10. /\ new \in Record /\ new.mem = want /\ new.thr = Larger(rec[c].thr, want)
    BY <1>2, <1>3, <1>9 DEF Record
<1> HIDE DEF new
<1>11. r \in Record /\ r.mem <= r.thr /\ r.thr >= rec[c].thr
    BY <1>2, <1>3, <1>9, <1>10
<1>12. o.dom \in Client /\ o.dom.up = dom[c].up
    BY <1>2, <1>3, <1>6 DEF Client, asked
<1>13. ~BareSet /\ first[c] /\ o.dom.up => r.mem = o.dom.mem /\ r.thr <= o.dom.max
    <2> SUFFICES ASSUME ~BareSet, first[c], o.dom.up
                 PROVE  r.mem = o.dom.mem /\ r.thr <= o.dom.max
        OBVIOUS
    <2>1. rec[c].mem = dom[c].mem /\ rec[c].thr <= dom[c].max
        BY <1>1, <1>12 DEF IInv, RoomForMemory, c
    <2>2. CASE o.ok
        <3>1. asked.mem = want /\ asked.max = dom[c].max
            BY <1>3 DEF asked, Client
        <3>2. o.dom = asked /\ want <= dom[c].max
            BY <1>6, <1>7, <2>2
        <3>3. new.thr <= dom[c].max
            BY <1>9, <1>10, <2>1, <3>2
        <3> QED
            BY <1>10, <2>2, <3>1, <3>2, <3>3
    <2>3. CASE ~o.ok
        BY <1>6, <2>1, <2>3
    <2> QED
        BY <1>6, <2>2, <2>3
<1>14. /\ job' \in Job \cup {NoJob} /\ job'.op \in {"none", job.op}
       /\ job'.op # "none" => job'.c = job.c /\ job'.limit = job.limit
    <2>1. NoJob.op = "none" /\ "pin" \in Steps
        BY Jobs DEF Steps
    <2>2. CASE o.ok
        BY <1>1, <1>4, <2>2, NextSteps DEF IInv
    <2>3. CASE ~o.ok
        BY <1>1, <1>4, <2>1, <2>3, NextSteps DEF IInv, Failed
    <2> QED
        BY <2>2, <2>3
<1>15. job'.op = "start" => r.mem = job.limit
    <2> SUFFICES ASSUME job'.op = "start" PROVE r.mem = job.limit
        OBVIOUS
    <2>1. o.ok
        BY <1>1, <1>4, NextSteps DEF IInv
    <2>2. job.op = "start" /\ job.limit \in Limits
        BY <1>14, Jobs DEF IInv, StartSettled
    <2>3. want = job.limit
        <3>1. job.limit \in Nat
            BY <2>2, LimitsAssumption
        <3> QED
            BY <3>1 DEF want, AskedMiB
    <2> QED
        BY <1>10, <2>1, <2>3
<1>16. job.op \in {"start", "update"}
    BY DEF StepMem
<1> HIDE DEF r
<1> QED
    BY <1>1, <1>4, <1>8, <1>11, <1>12, <1>13, <1>14, <1>15, <1>16, Resized DEF c

\* A step that changes no recorded quantity, or forgets a whole record, keeps the
\* invariants on the records.
LEMMA Reshaped ==
    ASSUME IInv, TypeOK',
           \A c \in Containers :
             \/ /\ rec'[c].mem = rec[c].mem /\ rec'[c].thr = rec[c].thr
                /\ first'[c] /\ dom'[c].up =>
                     /\ first[c] /\ dom[c].up
                     /\ dom'[c].mem = dom[c].mem /\ dom'[c].max = dom[c].max
             \/ /\ rec'[c] = NoRecord /\ ~first'[c]
                /\ state'[c] = "absent" \/ job' = NoJob
    PROVE  ThresholdCovers' /\ RoomForMemory' /\ Rises
<1>1. \A c \in Containers : rec[c].thr \in Nat
    BY Quantities DEF IInv, TypeOK
<1>2. ThresholdCovers'
    BY Constants DEF IInv, ThresholdCovers
<1>3. RoomForMemory'
    BY DEF IInv, RoomForMemory
<1>4. Rises
    BY <1>1, Constants DEF Rises
<1> QED
    BY <1>2, <1>3, <1>4

LEMMA StepCpusStep ==
    ASSUME IInv, StepCpus
    PROVE  IInv' /\ Rises
<1>1. /\ job.op = "update" /\ job \in Job /\ job.c \in Containers
      /\ job.cpus \in SUBSET Cpus
      /\ UNCHANGED <<cfg, state, dom, pinned, disk, settings, first>>
    BY NextSteps, Jobs DEF StepCpus, IInv
<1>2. "weight" \in Steps
    BY DEF Steps
<1>3. /\ job' \in Job \cup {NoJob} /\ job'.op # "start"
      /\ (job'.op = "update" => job'.c = job.c)
      /\ rec' \in {rec, [rec EXCEPT ![job.c].cpus = job.cpus]}
    BY <1>1, <1>2, NextSteps DEF StepCpus, IInv
<1>4. TypeOK'
    <2>1. rec \in [Containers -> [mem : Mem, thr : Mem, cpus : SUBSET Cpus]]
        BY DEF IInv, TypeOK
    <2>2. [rec[job.c] EXCEPT !.cpus = job.cpus] \in [mem : Mem, thr : Mem, cpus : SUBSET Cpus]
        BY <1>1, <2>1
    <2>3. rec' \in [Containers -> [mem : Mem, thr : Mem, cpus : SUBSET Cpus]]
        BY <1>1, <1>3, <2>1, <2>2
    <2> QED
        BY <1>1, <1>3, <2>3 DEF IInv, TypeOK, settings
<1>5. \A c \in Containers : rec'[c].mem = rec[c].mem /\ rec'[c].thr = rec[c].thr
    BY <1>1, <1>3 DEF IInv, TypeOK
<1>6. StartSettled' /\ Unrecorded'
    <2>1. state[job.c] # "absent"
        BY <1>1 DEF IInv, Unrecorded
    <2> QED
        BY <1>1, <1>3, <2>1 DEF IInv, TypeOK, StartSettled, Unrecorded
<1> QED
    BY <1>1, <1>4, <1>5, <1>6, Reshaped DEF IInv

LEMMA StepVcpuStep ==
    ASSUME IInv, StepVcpu
    PROVE  IInv' /\ Rises
<1> DEFINE c == job.c
           asked == [dom[c] EXCEPT !.vcpu = 1]
<1>1. /\ job.op = "update" /\ job \in Job /\ c \in Containers
      /\ UNCHANGED <<cfg, state, rec, pinned, disk, settings, first>>
    BY NextSteps DEF StepVcpu, IInv
<1>2. job' = At("record") /\ "record" \in Steps
    BY DEF StepVcpu, Steps
<1> HIDE DEF c
<1>3. dom[c] \in Client
    BY <1>1 DEF IInv, TypeOK, Client
<1> HIDE DEF asked
<1>4. PICK o \in Outcomes(c, asked, TRUE) : dom' = [dom EXCEPT ![c] = o.dom]
    BY DEF StepVcpu, c, asked
<1>5. \/ o = [ok |-> FALSE, dom |-> dom[c]]
      \/ o = [ok |-> TRUE, dom |-> asked]
      \/ BareSet /\ o = [ok |-> TRUE, dom |-> dom[c]]
    BY <1>4 DEF Outcomes
<1>6. o.dom \in {dom[c], asked}
    BY <1>5, OutcomeOf
<1>7. /\ o.dom \in Client /\ o.dom.up = dom[c].up
      /\ o.dom.mem = dom[c].mem /\ o.dom.max = dom[c].max
    BY <1>3, <1>6 DEF Client, asked
<1>8. job' \in Job /\ job'.op = "update" /\ job'.c = job.c
    BY <1>1, <1>2, NextSteps DEF IInv
<1>9. TypeOK'
    BY <1>1, <1>4, <1>7, <1>8 DEF IInv, TypeOK, Client, settings
<1>10. \A x \in Containers : /\ dom'[x].up = dom[x].up /\ dom'[x].mem = dom[x].mem
                             /\ dom'[x].max = dom[x].max
    BY <1>1, <1>4, <1>7 DEF IInv, TypeOK
<1>11. StartSettled' /\ Unrecorded'
    BY <1>1, <1>8 DEF IInv, StartSettled, Unrecorded
<1> QED
    BY <1>1, <1>9, <1>10, <1>11, Reshaped DEF IInv

LEMMA RecordUpdateStep ==
    ASSUME IInv, RecordUpdate
    PROVE  IInv' /\ Rises
<1>1. /\ job.op = "update" /\ job \in Job /\ job.c \in Containers
      /\ job.limit \in AskedValues /\ job.cpus \in SUBSET Cpus
      /\ UNCHANGED <<rec, dom, pinned, disk, settings, first>>
      /\ state' = Observed
    BY NextSteps, Jobs DEF RecordUpdate, IInv
<1>2. job' = At("pin") /\ "pin" \in Steps
    BY DEF RecordUpdate, Steps
<1>3. job' \in Job /\ job'.op = "update" /\ job'.c = job.c
    BY <1>1, <1>2, NextSteps DEF IInv
<1>4. cfg' \in [Containers -> Config]
    <2> DEFINE l == IF job.limit = Unasked THEN cfg[job.c].limit ELSE job.limit
               s == IF job.cpus = {} THEN cfg[job.c].cpus ELSE job.cpus
               conf == [cfg[job.c] EXCEPT !.limit = l, !.cpus = s]
    <2>1. cfg \in [Containers -> Config] /\ cfg[job.c] \in Config
        BY <1>1 DEF IInv, TypeOK
    <2>2. l \in LimitValues /\ s \in SUBSET Cpus
        BY <1>1, <2>1 DEF Config, AskedValues
    <2>3. cfg' = [cfg EXCEPT ![job.c] = conf]
        BY <1>1, <2>1 DEF RecordUpdate
    <2> HIDE DEF l, s
    <2>4. conf \in Config
        BY <2>1, <2>2 DEF Config
    <2> QED
        BY <1>1, <2>1, <2>3, <2>4
<1>5. TypeOK'
    BY <1>1, <1>3, <1>4, ObservedStates DEF IInv, TypeOK, settings
<1>6. Unrecorded'
    BY <1>1, <1>3, ObservedStates DEF IInv, Unrecorded
<1> QED
    BY <1>1, <1>3, <1>5, <1>6, NothingRecorded DEF IInv

LEMMA RecordStartStep ==
    ASSUME IInv, RecordStart
    PROVE  IInv' /\ Rises
<1> DEFINE c == job.c
           l == job.limit
           r == Recorded(rec[c], l, l)
<1>1. /\ job.op = "start" /\ c \in Containers /\ rec[c].mem = l /\ l \in Limits
      /\ rec' = [rec EXCEPT ![c] = r] /\ state' = [state EXCEPT ![c] = "running"]
      /\ job' = NoJob /\ UNCHANGED <<cfg, dom, pinned, disk, settings, first>>
    BY NextSteps DEF RecordStart, IInv, StartSettled
<1>2. rec[c] \in Record /\ rec[c].thr \in Mem /\ l \in Mem /\ rec[c].thr >= l
    BY <1>1, Quantities DEF IInv, TypeOK, Record, ThresholdCovers
<1> HIDE DEF c, l
<1>3. /\ r \in Record /\ r.mem = l
      /\ r.thr = Larger(rec[c].thr, IF l = 0 THEN l ELSE l)
    <2>1. l # 0 => l >= l
        BY <1>2, Quantities
    <2> QED
        BY <1>2, <2>1, RecordedCovers DEF Record
<1>4. r.thr = rec[c].thr
    BY <1>2, <1>3, Quantities
<1> HIDE DEF r
<1>5. TypeOK'
    BY <1>1, <1>3 DEF IInv, TypeOK, Record, settings, States
<1>6. \A x \in Containers : rec'[x].mem = rec[x].mem /\ rec'[x].thr = rec[x].thr
    BY <1>1, <1>3, <1>4 DEF IInv, TypeOK
<1>7. StartSettled' /\ Unrecorded'
    BY <1>1, Jobs DEF IInv, TypeOK, StartSettled, Unrecorded
<1> QED
    BY <1>1, <1>5, <1>6, <1>7, Reshaped DEF IInv

\* What a container is pinned to is a set of CPUs.
LEMMA PinSets ==
    ASSUME TypeOK
    PROVE  /\ \A c \in Containers : PinSet(c) \in SUBSET Cpus
           /\ \A ok : Pinnable(ok) \subseteq ToPin
           /\ ToPin \subseteq Containers /\ \A c \in ToPin : state[c] # "absent"
BY DEF TypeOK, Config, PinSet, Pool, Pinnable, ToPin, Present

\* The deferred function of CreateContainer, on whatever the pinning left.
LEMMA UndoStep ==
    ASSUME IInv, job.op = "create", Undo,
           cfg' \in [Containers -> Config], UNCHANGED <<disk, settings>>,
           pinned' \in BOOLEAN
    PROVE  IInv' /\ Rises
<1>1. job.c \in Containers
    BY NextSteps DEF IInv
<1>2. /\ state' = [state EXCEPT ![job.c] = "absent"]
      /\ dom' \in {dom, [dom EXCEPT ![job.c] = NoClient]}
      /\ rec' = [rec EXCEPT ![job.c] = NoRecord]
      /\ first' = [first EXCEPT ![job.c] = FALSE] /\ job' = NoJob
    BY DEF Undo
<1>3. TypeOK'
    BY <1>1, <1>2, Constants DEF IInv, TypeOK, Client, Record, settings, States
<1>4. StartSettled' /\ Unrecorded'
    BY <1>1, <1>2, Jobs DEF IInv, TypeOK, StartSettled, Unrecorded
<1>5. \A c \in Containers :
        IF c = job.c THEN rec'[c] = NoRecord /\ ~first'[c] /\ job' = NoJob
        ELSE rec'[c] = rec[c] /\ first'[c] = first[c] /\ dom'[c] = dom[c]
    BY <1>1, <1>2 DEF IInv, TypeOK
<1> QED
    BY <1>3, <1>4, <1>5, Reshaped DEF IInv

LEMMA PinStep ==
    ASSUME IInv, Pin
    PROVE  IInv' /\ Rises
<1>1. PICK ok \in [Containers -> BOOLEAN] :
        LET done == Pinnable(ok)
            conf == [c \in Containers |->
                IF c \in done
                THEN [cfg[c] EXCEPT !.cpus = PinSet(c), !.vcpu = Cardinality(PinSet(c))]
                ELSE cfg[c]]
            pins == [c \in Containers |->
                IF c \in done THEN [rec[c] EXCEPT !.cpus = PinSet(c)] ELSE rec[c]]
        IN  IF done = ToPin
            THEN /\ cfg' = conf /\ rec' = pins /\ pinned' = TRUE
                 /\ state' = Observed
                 /\ job' = At("store")
                 /\ UNCHANGED <<dom, first>>
            ELSE /\ pinned' \in {pinned} \cup (IF shared THEN {FALSE} ELSE {})
                 /\ CASE job.op = "create" ->
                           Undo /\ cfg' = [conf EXCEPT ![job.c] = Blank]
                      [] job.op = "update" ->
                           /\ cfg' = conf /\ rec' = pins /\ job' = At("store")
                           /\ UNCHANGED <<state, dom, first>>
                      [] OTHER ->
                           /\ cfg' = conf /\ rec' = pins /\ job' = NoJob
                           /\ UNCHANGED <<state, dom, first>>
    BY DEF Pin
<1> DEFINE done == Pinnable(ok)
           conf == [c \in Containers |->
                IF c \in done
                THEN [cfg[c] EXCEPT !.cpus = PinSet(c), !.vcpu = Cardinality(PinSet(c))]
                ELSE cfg[c]]
           pins == [c \in Containers |->
                IF c \in done THEN [rec[c] EXCEPT !.cpus = PinSet(c)] ELSE rec[c]]
<1>2. /\ job.op # "none" /\ job \in Job /\ job.c \in Containers
      /\ UNCHANGED <<disk, settings>> /\ job.at = "pin"
    BY NextSteps DEF Pin, IInv
<1>3. done \subseteq Containers /\ \A c \in done : state[c] # "absent"
    BY PinSets DEF IInv
<1> HIDE DEF done
<1>4. conf \in [Containers -> Config]
    <2>1. \A c \in Containers : PinSet(c) \in SUBSET Cpus /\ Cardinality(PinSet(c)) \in Nat
        BY PinSets, CountOfCpus DEF IInv
    <2>2. ASSUME NEW c \in Containers
          PROVE  [cfg[c] EXCEPT !.cpus = PinSet(c), !.vcpu = Cardinality(PinSet(c))]
                    \in Config
        <3>1. cfg[c] \in Config
            BY DEF IInv, TypeOK
        <3> QED
            BY <2>1, <3>1 DEF Config
    <2>3. \A c \in Containers : cfg[c] \in Config
        BY DEF IInv, TypeOK
    <2> QED
        BY <2>2, <2>3
<1>5. pins \in [Containers -> Record]
    <2>1. \A c \in Containers : PinSet(c) \in SUBSET Cpus
        BY PinSets DEF IInv
    <2> QED
        BY <2>1 DEF IInv, TypeOK, Record
<1>6. \A c \in Containers : pins[c].mem = rec[c].mem /\ pins[c].thr = rec[c].thr
    BY DEF IInv, TypeOK
<1>7. \A c \in Containers : state[c] = "absent" => pins[c] = rec[c]
    BY <1>3
<1>8. \/ /\ cfg' = conf /\ rec' = pins /\ job' \in {At("store"), NoJob}
         /\ state' \in {state, Observed} /\ UNCHANGED <<dom, first>>
      \/ job.op = "create" /\ Undo /\ cfg' = [conf EXCEPT ![job.c] = Blank]
    BY <1>1 DEF done
<1>9. pinned' \in BOOLEAN
    BY <1>1 DEF IInv, TypeOK
<1> HIDE DEF conf, pins
<1>10. CASE /\ cfg' = conf /\ rec' = pins /\ job' \in {At("store"), NoJob}
            /\ state' \in {state, Observed} /\ UNCHANGED <<dom, first>>
    <2>1. "store" \in Steps
        BY DEF Steps
    <2>2. /\ job' \in Job \cup {NoJob} /\ job'.op \in {"none", job.op}
          /\ job'.op # "none" => job'.c = job.c /\ job'.limit = job.limit
                                 /\ job'.at = "store"
        BY <1>2, <1>10, <2>1, NextSteps, Jobs DEF IInv
    <2>3. TypeOK'
        BY <1>2, <1>4, <1>5, <1>9, <1>10, <2>2, ObservedStates
        DEF IInv, TypeOK, Record, settings
    <2>4. StartSettled'
        BY <2>2 DEF IInv, StartSettled
    <2>5. Unrecorded'
        <3>1. \A c \in Containers : state'[c] = "absent" <=> state[c] = "absent"
            BY <1>10, ObservedStates DEF IInv
        <3>2. \A c \in Containers : state'[c] = "absent" => rec'[c] = NoRecord
            BY <1>7, <1>10, <3>1 DEF IInv, Unrecorded
        <3>3. job'.op \in {"start", "update"} => state'[job'.c] # "absent"
            BY <1>2, <2>2, <3>1 DEF IInv, Unrecorded
        <3> QED
            BY <3>2, <3>3 DEF Unrecorded
    <2> QED
        BY <1>6, <1>10, <2>3, <2>4, <2>5, Reshaped DEF IInv
<1>11. CASE job.op = "create" /\ Undo /\ cfg' = [conf EXCEPT ![job.c] = Blank]
    BY <1>2, <1>4, <1>9, <1>11, Constants, UndoStep
<1> QED
    BY <1>8, <1>10, <1>11

LEMMA StoreSteps ==
    ASSUME IInv, NoPin \/ Store \/ StoreFails
    PROVE  IInv' /\ Rises
<1>1. CASE job' \in {At("store"), NoJob} /\ disk' \in {disk, cfg} /\ job.op # "none"
           /\ UNCHANGED <<cfg, state, rec, dom, pinned, settings, first>>
    <2>1. "store" \in Steps
        BY DEF Steps
    <2>2. /\ job' \in Job \cup {NoJob} /\ job'.op \in {"none", job.op}
          /\ job'.op # "none" => job'.c = job.c /\ job'.limit = job.limit
                                 /\ job'.at = "store"
        BY <1>1, <2>1, NextSteps, Jobs DEF IInv
    <2>3. TypeOK'
        BY <1>1, <2>2 DEF IInv, TypeOK, settings
    <2>4. StartSettled' /\ Unrecorded'
        BY <1>1, <2>2 DEF IInv, StartSettled, Unrecorded
    <2> QED
        BY <1>1, <2>3, <2>4, Reshaped DEF IInv
<1>2. CASE StoreFails /\ job.op = "create"
    <2>1. cfg' = [cfg EXCEPT ![job.c] = Blank] /\ Undo
          /\ UNCHANGED <<pinned, disk, settings>>
        BY <1>2 DEF StoreFails
    <2>2. cfg' \in [Containers -> Config] /\ pinned' \in BOOLEAN
        BY <2>1, Constants DEF IInv, TypeOK
    <2> QED
        BY <1>2, <2>1, <2>2, UndoStep
<1>3. CASE NoPin
    BY <1>1, <1>3 DEF NoPin
<1>4. CASE Store
    BY <1>1, <1>4 DEF Store
<1>5. CASE StoreFails /\ job.op # "create"
    BY <1>1, <1>5 DEF StoreFails
<1> QED
    BY <1>2, <1>3, <1>4, <1>5

LEMMA FaultSteps ==
    ASSUME IInv, NEW c \in Containers, Vanish(c) \/ Appear(c)
    PROVE  IInv' /\ Rises
<1>1. /\ dom' \in {[dom EXCEPT ![c] = NoClient], [dom EXCEPT ![c] = Foreign]}
      /\ first' \in {first, [first EXCEPT ![c] = FALSE]}
      /\ dom'[c].up => ~first'[c]
      /\ UNCHANGED <<cfg, state, rec, job, pinned, disk, settings>>
    BY Constants DEF Vanish, Appear, IInv, TypeOK
<1>2. TypeOK'
    BY <1>1, Constants DEF IInv, TypeOK, Client, settings
<1>3. StartSettled' /\ Unrecorded'
    BY <1>1 DEF IInv, StartSettled, Unrecorded
<1>4. \A x \in Containers : /\ rec'[x] = rec[x]
                            /\ x # c => dom'[x] = dom[x] /\ first'[x] = first[x]
    BY <1>1 DEF IInv, TypeOK
<1> QED
    BY <1>1, <1>2, <1>3, <1>4, Reshaped DEF IInv

LEMMA RestartStep ==
    ASSUME IInv, Restart
    PROVE  IInv' /\ Rises
<1>1. /\ cfg' = disk /\ job' = NoJob /\ pinned' = FALSE
      /\ state' = [c \in Containers |->
            IF disk[c] = Blank THEN "absent" ELSE IF dom[c].up THEN "ready" ELSE "down"]
      /\ rec' = [c \in Containers |-> NoRecord]
      /\ first' = [c \in Containers |-> FALSE]
      /\ UNCHANGED <<dom, disk, settings>>
    BY DEF Restart
<1>2. TypeOK'
    BY <1>1, Constants DEF IInv, TypeOK, Record, settings, States
<1>3. StartSettled' /\ Unrecorded'
    BY <1>1, Jobs DEF StartSettled, Unrecorded
<1>4. \A c \in Containers : rec'[c] = NoRecord /\ ~first'[c]
    BY <1>1
<1> QED
    BY <1>1, <1>2, <1>3, <1>4, Reshaped DEF IInv

-----------------------------------------------------------------------------
LEMMA Initially == Init => IInv
<1> SUFFICES ASSUME Init PROVE IInv
    OBVIOUS
<1>1. TypeOK
    BY Constants DEF Init, TypeOK, Record, Client, States
<1>2. ThresholdCovers /\ RoomForMemory /\ StartSettled /\ Unrecorded
    BY Constants, Jobs DEF Init, ThresholdCovers, RoomForMemory, StartSettled, Unrecorded
<1> QED
    BY <1>1, <1>2 DEF IInv

LEMMA EveryStep ==
    ASSUME IInv, [Next]_vars
    PROVE  IInv' /\ Rises
<1>1. CASE UNCHANGED vars
    <2>1. UNCHANGED <<cfg, state, rec, dom, job, pinned, disk, settings, first>>
        BY <1>1 DEF vars, settings
    <2>2. TypeOK' /\ Unrecorded'
        BY <2>1 DEF IInv, TypeOK, Unrecorded, settings
    <2> QED
        BY <2>1, <2>2, NothingRecorded DEF IInv
<1>2. ASSUME NEW c \in Containers,
             \/ Create(c) \/ Register(c) \/ Start(c) \/ Stop(c)
             \/ DeleteContainer(c) \/ Update(c) \/ Vanish(c) \/ Appear(c)
      PROVE  IInv' /\ Rises
    BY <1>2, CreateStep, RegisterStep, StartStep, StopStep, DeleteStep, UpdateStep,
       FaultSteps
<1>3. CASE \/ StepCap \/ NoMemoryChange \/ StepMax \/ StepMem \/ StepCpus
           \/ StepWeight \/ NoWeightChange \/ StepVcpu \/ RecordUpdate \/ RecordStart
    BY <1>3, SendingSteps, StepMaxStep, StepMemStep, StepCpusStep, StepVcpuStep,
       RecordUpdateStep, RecordStartStep
<1>4. CASE Pin \/ NoPin \/ Store \/ StoreFails \/ Restart
    BY <1>4, PinStep, StoreSteps, RestartStep
<1> QED
    BY <1>1, <1>2, <1>3, <1>4 DEF Next

LEMMA SpecIInv == Spec => []IInv
<1>1. Init => IInv
    BY Initially
<1>2. IInv /\ [Next]_vars => IInv'
    BY EveryStep
<1> QED
    BY <1>1, <1>2, PTL DEF Spec

\* The types, for any containers, CPUs and limits.
THEOREM ExecutorTypes == Spec => []TypeOK
<1>1. IInv => TypeOK
    BY DEF IInv
<1> QED
    BY <1>1, SpecIInv, PTL

\* In every reachable state, for every set of limits and every fault, the recorded
\* threshold covers the recorded memory (libmica/resource_manager.go:46-77).
THEOREM Covered == Spec => []ThresholdCovers
<1>1. IInv => ThresholdCovers
    BY DEF IInv
<1> QED
    BY <1>1, SpecIInv, PTL

\* The client that micrun registered at creation has the memory that is recorded, and
\* room up to the threshold the executor relies on (libmica/resource_manager.go:51-181).
THEOREM RoomKept == Spec => []RoomForMemory
<1>1. IInv => RoomForMemory
    BY DEF IInv
<1> QED
    BY <1>1, SpecIInv, PTL

\* No step lowers the threshold of a container that stays: refused updates, a client
\* that is registered again and setupMemory only raise it; only the removal of the
\* container or a new process forgets it (libmica/resource_manager.go:35-44).
THEOREM NeverSinks == Spec => ThresholdNeverSinks
<1>1. IInv /\ [Next]_vars =>
        [\A c \in Containers :
           rec'[c].thr < rec[c].thr
             => rec'[c] = NoRecord /\ (state'[c] = "absent" \/ job' = NoJob)]_vars
    BY EveryStep DEF Rises
<1> QED
    BY <1>1, SpecIInv, PTL DEF Spec, ThresholdNeverSinks

-----------------------------------------------------------------------------
\* Pinning.

\* A job that creates, updates or deletes passes checkVCPUsPinning before it stores.
\* Outside of that stretch, when the last pinning succeeded, records and
\* configurations agree, and so do the containers of a shared pool.
Quiet == job = NoJob \/ job.op = "start" \/ job.at = "store"
Agree ==
    /\ \A c \in Present : cfg[c].cpus # {} => rec[c].cpus = cfg[c].cpus
    /\ shared => \A c, d \in Present : cfg[c].cpus = cfg[d].cpus
PinInv ==
    /\ pinned => pinning
    /\ pinned /\ xl /\ Quiet => Agree

\* Steps that touch neither configurations nor recorded cpusets.
LEMMA PinsUntouched ==
    ASSUME PinInv, UNCHANGED <<cfg, pinned, settings>>, Present' = Present,
           \A c \in Containers : rec'[c].cpus = rec[c].cpus, Quiet' => Quiet
    PROVE  PinInv'
<1>1. Agree => Agree'
    BY DEF Agree, Present, settings
<1> QED
    BY <1>1 DEF PinInv, settings

LEMMA OperationPins ==
    ASSUME IInv, PinInv, NEW c \in Containers,
           \/ Create(c) \/ Register(c) \/ Start(c) \/ Stop(c)
           \/ DeleteContainer(c) \/ Update(c) \/ Vanish(c) \/ Appear(c)
    PROVE  PinInv'
<1>1. CASE Create(c) \/ DeleteContainer(c)
  <2>1. /\ job'.op \in {"create", "delete"} /\ job'.at = "pin"
        /\ UNCHANGED <<pinned, settings>>
    <3>1. CASE Create(c)
      <4>1. job' = [op |-> "create", c |-> c, at |-> "pin", limit |-> 0, cpus |-> {}]
          BY <3>1, Zenon DEF Create
      <4> QED
          BY <3>1, <4>1 DEF Create
    <3> QED
        BY <1>1, <3>1 DEF DeleteContainer
  <2>2. ~Quiet'
      BY <2>1, Jobs DEF Quiet
  <2> QED
      BY <2>1, <2>2 DEF PinInv, settings
<1>2. CASE Register(c)
  <2>1. cfg[c] \in Config /\ rec[c] \in Record /\ rec \in [Containers -> Record]
      BY DEF IInv, TypeOK, Record
  <2>2. RecordedFor(rec[c], cfg[c]).cpus = rec[c].cpus
      BY <2>1 DEF RecordedFor, Recorded, Record
  <2>3. Present' = Present /\ \A d \in Containers : rec'[d].cpus = rec[d].cpus
      BY <1>2, <2>1, <2>2 DEF Register, Present, IInv, TypeOK
  <2> QED
      BY <1>2, <2>3, PinsUntouched DEF Register, Quiet
<1>3. CASE Start(c) \/ Stop(c)
  <2>1. Present' = Present
      BY <1>3 DEF Start, Stop, Present, IInv, TypeOK
  <2> QED
      BY <1>3, <2>1, PinsUntouched DEF Start, Stop, Quiet
<1>4. CASE Update(c)
  <2>1. Present' = Present
      BY <1>4, ObservedStates DEF Update, Present, IInv, TypeOK
  <2>2. UNCHANGED <<cfg, rec, pinned, settings>> /\ job = NoJob
      BY <1>4 DEF Update
  <2> QED
      BY <2>1, <2>2, PinsUntouched DEF Quiet
<1>5. CASE Vanish(c) \/ Appear(c)
    BY <1>5, PinsUntouched DEF Vanish, Appear, Present, Quiet
<1> QED
    BY <1>1, <1>2, <1>3, <1>4, <1>5

\* The commands of an update and of setupMemory.
LEMMA CommandPins ==
    ASSUME IInv, PinInv,
           \/ StepCap \/ NoMemoryChange \/ StepMax \/ StepMem \/ StepCpus
           \/ StepWeight \/ NoWeightChange \/ StepVcpu \/ RecordUpdate \/ RecordStart
    PROVE  PinInv'
<1> USE DEF Failed, AfterMemory
<1>0. /\ job \in Job \/ job = NoJob
      /\ rec \in [Containers -> Record]
      /\ job.op \in {"start", "update"} => job \in Job /\ job.c \in Containers
    BY Jobs DEF IInv, TypeOK, Record, NoJob
<1>1. CASE \/ StepCap \/ StepWeight \/ NoWeightChange \/ StepVcpu \/ NoMemoryChange
           \/ StepCpus \/ RecordUpdate
  <2>1. /\ job.op = "update" /\ UNCHANGED <<pinned, settings>>
        /\ job' \in {At("max"), At("vcpu"), At("pin"), At("cpus"), At("weight"), At("record")}
      BY <1>1 DEF StepCap, StepWeight, StepOther, NoWeightChange, StepVcpu, NoMemoryChange,
         StepCpus, RecordUpdate
  <2>2. \A at \in Steps : At(at).op = "update" /\ At(at).at = at
      BY <1>0, <2>1 DEF Job, At
  <2>3. job'.op = "update" /\ job'.at # "store"
      BY <2>1, <2>2 DEF Steps
  <2>4. ~Quiet'
      BY <2>3, Jobs DEF Quiet
  <2> QED
      BY <2>1, <2>4 DEF PinInv, settings
<1>2. CASE StepMax \/ StepMem
  <2>1. /\ job.op \in {"start", "update"} /\ UNCHANGED <<cfg, state, pinned, settings>>
        /\ job.op = "update" => job' \in {At("mem"), At("pin"), At("cpus")}
      BY <1>2 DEF StepMax, StepMem, ChangesMemory
  <2>2. CASE job.op = "update"
    <3>1. \A at \in Steps : At(at).op = "update" /\ At(at).at = at
        BY <1>0, <2>2 DEF Job, At
    <3>2. ~Quiet'
        BY <2>1, <2>2, <3>1, Jobs DEF Quiet, Steps
    <3> QED
        BY <2>1, <3>2 DEF PinInv, settings
  <2>3. CASE job.op = "start"
    <3> DEFINE w == AskedMiB(job.limit)
    <3>1. \/ rec' = rec
          \/ rec' = [rec EXCEPT ![job.c].thr = w]
          \/ rec' = [rec EXCEPT ![job.c].mem = w, ![job.c].thr = Larger(@, w)]
        BY <1>2 DEF StepMax, StepMem
    <3> HIDE DEF w
    <3>2. \A d \in Containers : rec'[d].cpus = rec[d].cpus
      <4> SUFFICES ASSUME NEW d \in Containers PROVE rec'[d].cpus = rec[d].cpus
          OBVIOUS
      <4>1. job.c \in Containers /\ rec[d] \in Record /\ rec[job.c] \in Record
          BY <1>0, <2>3
      <4>2. CASE d # job.c
          BY <1>0, <3>1, <4>1, <4>2
      <4>3. CASE d = job.c
          BY <1>0, <3>1, <4>1, <4>3 DEF Record
      <4> QED
          BY <4>2, <4>3
    <3> QED
        BY <2>1, <2>3, <3>2, PinsUntouched DEF Quiet, Present
  <2> QED
      BY <2>1, <2>2, <2>3
<1>3. CASE RecordStart
  <2>1. Present' = Present
      BY <1>0, <1>3 DEF RecordStart, Present, IInv, TypeOK, Unrecorded
  <2>2. \A d \in Containers : rec'[d].cpus = rec[d].cpus
      BY <1>0, <1>3 DEF RecordStart, Recorded, Record
  <2> QED
      BY <1>3, <2>1, <2>2, PinsUntouched DEF RecordStart, Quiet
<1> QED
    BY <1>1, <1>2, <1>3

\* With xl the command of a pin does not fail; a pinning that fails finds a pool in
\* which nobody has a cpuset.
LEMMA PinPins == ASSUME IInv, PinInv, Pin PROVE PinInv'
<1>1. pinning /\ UNCHANGED settings /\ job.op # "none"
    BY DEF Pin
<1> SUFFICES ASSUME xl' PROVE Agree'
    BY <1>1 DEF PinInv, settings
<1>2. PICK ok \in [Containers -> BOOLEAN] :
        /\ \A c \in Containers : ok[c] \in CpuOutcomes(c)
        /\ LET done == Pinnable(ok)
               conf == [c \in Containers |->
                   IF c \in done
                   THEN [cfg[c] EXCEPT !.cpus = PinSet(c), !.vcpu = Cardinality(PinSet(c))]
                   ELSE cfg[c]]
               pins == [c \in Containers |->
                   IF c \in done THEN [rec[c] EXCEPT !.cpus = PinSet(c)] ELSE rec[c]]
           IN  /\ done = ToPin => cfg' = conf /\ rec' = pins /\ state' = Observed
               /\ done # ToPin =>
                    \/ /\ job.op = "create" /\ Undo /\ cfg' = [conf EXCEPT ![job.c] = Blank]
                    \/ cfg' = conf /\ rec' = pins /\ state' = state
    BY DEF Pin
<1> DEFINE done == Pinnable(ok)
           conf == [c \in Containers |->
               IF c \in done
               THEN [cfg[c] EXCEPT !.cpus = PinSet(c), !.vcpu = Cardinality(PinSet(c))]
               ELSE cfg[c]]
           pins == [c \in Containers |->
               IF c \in done THEN [rec[c] EXCEPT !.cpus = PinSet(c)] ELSE rec[c]]
<1>3. done = {c \in ToPin : PinSet(c) # {}} /\ xl /\ shared' = shared
    BY <1>1, <1>2 DEF settings, CpuOutcomes, Pinnable, ToPin, Present
<1>4. /\ cfg \in [Containers -> Config] /\ rec \in [Containers -> Record]
      /\ state \in [Containers -> States]
    BY DEF IInv, TypeOK, Record
<1>5. CASE done = ToPin
  <2>1. Present' = Present
      BY <1>2, <1>5, ObservedStates DEF Present, IInv
  <2>2. \A c \in ToPin : cfg'[c].cpus = PinSet(c) /\ rec'[c].cpus = PinSet(c)
    <3> SUFFICES ASSUME NEW c \in ToPin
                 PROVE  cfg'[c].cpus = PinSet(c) /\ rec'[c].cpus = PinSet(c)
        OBVIOUS
    <3>1. c \in Containers /\ cfg[c] \in Config /\ rec[c] \in Record
        BY <1>4 DEF ToPin, Present
    <3>2. /\ cfg'[c] = [cfg[c] EXCEPT !.cpus = PinSet(c), !.vcpu = Cardinality(PinSet(c))]
          /\ rec'[c] = [rec[c] EXCEPT !.cpus = PinSet(c)]
        BY <1>2, <1>5, <3>1
    <3> QED
        BY <3>1, <3>2 DEF Config, Record
  <2>3. \A c \in Present \ ToPin : cfg'[c].cpus = {} /\ ~shared
      BY <1>2, <1>4, <1>5 DEF ToPin, Present
  <2> QED
      BY <1>3, <2>1, <2>2, <2>3 DEF Agree, PinSet, ToPin
<1>6. CASE done # ToPin
  <2>1. shared /\ Pool = {} /\ done = {}
      BY <1>3, <1>6 DEF PinSet, ToPin
  <2>2. \A c \in Present : cfg[c].cpus = {}
      BY <2>1 DEF Pool
  <2>3. conf = cfg
      BY <1>4, <2>1
  <2>4. Present' \subseteq Present /\ \A c \in Present' : cfg'[c] = cfg[c]
      BY <1>2, <1>4, <1>6, <2>3 DEF Undo, Present
  <2> QED
      BY <2>2, <2>4 DEF Agree
<1> QED
    BY <1>5, <1>6

LEMMA StorePins ==
    ASSUME IInv, PinInv, NoPin \/ Store \/ StoreFails \/ Restart
    PROVE  PinInv'
<1>1. CASE NoPin \/ Restart
    BY <1>1 DEF NoPin, Restart, PinInv, settings
<1>2. CASE Store
    BY <1>2, PinsUntouched DEF Store, Quiet, Present
<1>3. CASE StoreFails
  <2>1. Quiet /\ UNCHANGED <<pinned, settings>>
      BY <1>3 DEF StoreFails, Quiet
  <2>2. Present' \subseteq Present /\ \A c \in Present' : cfg'[c] = cfg[c] /\ rec'[c] = rec[c]
      BY <1>3 DEF StoreFails, Undo, Present, IInv, TypeOK
  <2> QED
      BY <2>1, <2>2 DEF PinInv, Agree, settings
<1> QED
    BY <1>1, <1>2, <1>3

LEMMA SpecPinInv == Spec => []PinInv
<1>1. Init => PinInv
    BY DEF Init, PinInv
<1>2. IInv /\ PinInv /\ [Next]_vars => PinInv'
  <2>1. CASE UNCHANGED vars
      BY <2>1, PinsUntouched DEF vars, settings, Present, Quiet
  <2> QED
      BY <2>1, OperationPins, CommandPins, PinPins, StorePins DEF Next
<1> QED
    BY <1>1, <1>2, SpecIInv, PTL DEF Spec

\* When nothing is going on and the last pinning succeeded, every container that has a
\* cpuset is recorded with it, whatever updates were refused in between, and wherever
\* the process died (sandbox.go:553-577, 1066-1134).
THEOREM Pinned == Spec => []PinsHold
<1>1. PinInv => PinsHold
    BY DEF PinInv, Agree, PinsHold, Quiet
<1> QED
    BY <1>1, SpecPinInv, PTL

\* In a shared pool every container then has the same CPUs, for any number of containers
\* and whichever of them asked for which (sandbox.go:966-1004, 1066-1134).
THEOREM Pooled == Spec => []PoolIsCommon
<1>1. PinInv => PoolIsCommon
    BY DEF PinInv, Agree, PoolIsCommon, Quiet
<1> QED
    BY <1>1, SpecPinInv, PTL
=============================================================================
