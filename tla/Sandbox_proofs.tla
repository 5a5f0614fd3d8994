--------------------------- MODULE Sandbox_proofs ---------------------------
(***************************************************************************)
(* What holds of Sandbox for every set of containers and every set of      *)
(* faults.                                                                 *)
(***************************************************************************)
EXTENDS Sandbox, Container_proofs

\* The part of TypeOK an operation on one container can disturb.
DataOK ==
    /\ cst \in [Containers -> StateString \cup {"absent"}]
    /\ dsb \in StateString \cup {"none", "torn"}
    /\ dcfg \in SUBSET Containers
    /\ file \in [Containers -> StateString \cup {"none"}]
    /\ client \in [Containers -> ClientStatus]

\* The record the operations of a container work on is one.
LEMMA NowTyped ==
    ASSUME DataOK, NEW c \in Containers
    PROVE  Now(c) \in ContainerRecord
BY DEF DataOK, Now, ContainerRecord, Errors

\* A fault may happen or not.
LEMMA MayBoolean == \A fault : May(fault) \subseteq BOOLEAN
BY DEF May

\* Pinning succeeds or not.
LEMMA PinBoolean == PinOK \subseteq BOOLEAN
BY MayBoolean DEF PinOK

\* Storing the sandbox keeps the type of its file.
LEMMA WriteDiskTyped ==
    ASSUME DataOK, NEW done, NEW s \in StateString, NEW g \in SUBSET Containers,
           WriteDisk(done, s, g)
    PROVE  /\ dsb' \in StateString \cup {"none", "torn"}
           /\ dcfg' \in SUBSET Containers
BY DEF DataOK, WriteDisk

\* What an operation that touched c does to the containers: only c enters or
\* leaves the map, according to its record.
Effect(c, k) ==
    /\ DataOK'
    /\ \A x \in Containers \ {c} : cst'[x] = "absent" <=> cst[x] = "absent"
    /\ cst'[c] = "absent" <=> k.st = "absent"
    /\ client' = [client EXCEPT ![c] = k.cl]

\* Applying a record to the sandbox has that effect, gone clients and stores included.
LEMMA ApplyEffect ==
    ASSUME DataOK, sb \in StateString,
           NEW c \in Containers, NEW k \in ContainerRecord,
           NEW inner \in SUBSET Containers, NEW outer \in SUBSET Containers,
           NEW refresh, NEW done,
           Apply(c, k, inner, refresh, done, outer)
    PROVE  Effect(c, k)
<1> DEFINE states  == [cst EXCEPT ![c] = k.st]
           clients == [client EXCEPT ![c] = k.cl]
           gone    == IF refresh THEN Gone(states, clients) ELSE {}
<1>1. /\ states \in [Containers -> StateString \cup {"absent"}]
      /\ clients \in [Containers -> ClientStatus]
    BY DEF DataOK, ContainerRecord
<1>2. \A x \in gone : x \in Containers /\ states[x] # "absent"
    BY DEF Gone
<1>3. client' = clients /\ cst' = [x \in Containers |-> IF x \in gone THEN "down" ELSE states[x]]
    BY DEF Apply
<1>4. PICK F : file' = IF InOwnersBundle
                       THEN [x \in Containers |->
                               IF x \in F THEN "down" ELSE IF x = c THEN k.file ELSE file[x]]
                       ELSE file
    BY DEF Apply
<1>5. file' \in [Containers -> StateString \cup {"none"}]
    BY <1>4 DEF DataOK, ContainerRecord, StateString
<1>6. \/ WriteDisk(TRUE, sb, outer)
      \/ WriteDisk(k.stored, sb, inner)
    BY DEF Apply
<1>7. dsb' \in StateString \cup {"none", "torn"} /\ dcfg' \in SUBSET Containers
    BY <1>6, WriteDiskTyped
<1>8. cst' \in [Containers -> StateString \cup {"absent"}]
    BY <1>1, <1>3 DEF StateString
<1>9. \A x \in Containers : cst'[x] = "absent" <=> states[x] = "absent"
    BY <1>2, <1>3
<1>10. /\ \A x \in Containers \ {c} : states[x] = cst[x]
       /\ states[c] = k.st
    BY DEF DataOK
<1> QED BY <1>1, <1>3, <1>5, <1>7, <1>8, <1>9, <1>10 DEF DataOK, Effect

\* So has applying it with nothing stored after it.
LEMMA TouchEffect ==
    ASSUME DataOK, sb \in StateString, cfg \in SUBSET Containers,
           NEW c \in Containers, NEW k \in ContainerRecord, Touch(c, k)
    PROVE  Effect(c, k)
BY ApplyEffect DEF Touch

\* Recomputing the totals takes no container out of the map.
LEMMA RefreshAllEffect ==
    ASSUME DataOK, sb \in StateString, cfg \in SUBSET Containers,
           NEW refresh, NEW done, RefreshAll(refresh, done)
    PROVE  /\ DataOK'
           /\ \A x \in Containers : cst'[x] = "absent" <=> cst[x] = "absent"
           /\ client' = client
<1> DEFINE gone == IF refresh THEN Gone(cst, client) ELSE {}
<1>1. cst' = [x \in Containers |-> IF x \in gone THEN "down" ELSE cst[x]] /\ client' = client
    BY DEF RefreshAll
<1>2. PICK F : file' = [x \in Containers |-> IF x \in F THEN "down" ELSE file[x]]
    BY DEF RefreshAll
<1>3. PICK d : WriteDisk(d, sb, cfg)
    BY DEF RefreshAll
<1>4. dsb' \in StateString \cup {"none", "torn"} /\ dcfg' \in SUBSET Containers
    BY <1>3, WriteDiskTyped
<1>5. /\ cst' \in [Containers -> StateString \cup {"absent"}]
      /\ file' \in [Containers -> StateString \cup {"none"}]
    BY <1>1, <1>2 DEF DataOK, StateString
<1>6. \A x \in gone : x \in Containers /\ cst[x] # "absent"
    BY DEF Gone
<1> QED BY <1>1, <1>4, <1>5, <1>6 DEF DataOK

\* Only c can enter the map.
LEMMA EffectReg ==
    ASSUME NEW c \in Containers, NEW k, Effect(c, k)
    PROVE  \A x \in Reg' : x \in Reg \/ (x = c /\ k.st # "absent")
BY DEF Effect, Reg

\* The control variables.
LEMMA StepTyped ==
    ASSUME NEW kind \in OpKinds, NEW todo \in SUBSET Containers
    PROVE  /\ Step(kind, todo) \in Operation
           /\ Step(kind, todo).kind = kind
           /\ Step(kind, todo).todo = todo
BY SandboxAssumption DEF Step, Idle, Operation, OpKinds, StateString

\* No operation in progress is an operation.
LEMMA IdleTyped == Idle \in Operation /\ Idle.kind = "idle" /\ Idle.todo = {}
BY SandboxAssumption DEF Idle, Operation, OpKinds, StateString

\* What a call returns has its type.
LEMMA ReturnTyped ==
    ASSUME NEW call \in Calls, NEW c \in Containers, NEW err \in Errors,
           Returns(call, c, err)
    PROVE  ret' \in Return
BY SandboxAssumption DEF Returns, Return, NoReturn, Errors

\* So has having returned nothing yet.
LEMMA NoReturnTyped == NoReturn \in Return
BY SandboxAssumption DEF Return, NoReturn, Errors, Calls
-----------------------------------------------------------------------------
(* The inductive invariant.  What is left of a walk over the containers is  *)
(* part of it: the containers still to be initialised are in the config and *)
(* not in the map, those of any other walk are in the map, and between      *)
(* walks nothing is left.  Without it a step of a walk could put a          *)
(* container without a config into the map.                                 *)

Walks == {"start", "ensure", "stop", "stopClients", "delete", "abort"}

TodoOK ==
    /\ op.kind = "init" => op.todo \subseteq cfg \ Reg
    /\ op.kind \in Walks => op.todo \subseteq Reg
    /\ op.kind \notin Walks \cup {"init"} => op.todo = {}

IInv == TypeOK /\ RegisteredIsConfigured /\ TodoOK

\* The invariant holds before there is a sandbox.
LEMMA InitIInv == Init => IInv
<1> SUFFICES ASSUME Init PROVE IInv
    OBVIOUS
<1>1. TypeOK
    BY IdleTyped, NoReturnTyped, SandboxAssumption
       DEF Init, TypeOK, StateString, ClientStatus, NoContainers, OpKinds
<1>2. Reg = {}
    BY DEF Init, Reg, NoContainers
<1>3. op.kind = "idle" /\ op.todo = {}
    BY DEF Init, Idle
<1> QED BY <1>1, <1>2, <1>3 DEF IInv, RegisteredIsConfigured, TodoOK, Walks

\* An operation on a container of the map, that may take it out, in a walk.
LEMMA WalkIInv ==
    ASSUME IInv, op.kind \in Walks, NEW c \in op.todo, NEW k \in ContainerRecord,
           Effect(c, k), UNCHANGED <<obj, cfg>>, sb' \in StateString, ret' \in Return,
           \/ op' = Idle
           \/ op' = [op EXCEPT !.todo = @ \ {c}]
           \/ op' = [op EXCEPT !.todo = {}]
    PROVE  IInv'
<1>1. c \in Containers /\ c \in Reg /\ op.todo \subseteq Reg
    BY DEF IInv, TypeOK, TodoOK, Reg
<1>2. Reg' \subseteq Reg /\ Reg \subseteq Reg' \cup {c}
    BY <1>1, EffectReg DEF Effect, Reg
<1>3. CASE op' = Idle
    <2>1. op'.kind = "idle" /\ op'.todo = {} /\ op' \in Operation
        BY <1>3, IdleTyped
    <2> QED BY <1>2, <2>1 DEF IInv, TypeOK, TodoOK, RegisteredIsConfigured, Walks, Effect, DataOK
<1>4. CASE op' = [op EXCEPT !.todo = @ \ {c}] \/ op' = [op EXCEPT !.todo = {}]
    <2>1. op' \in Operation /\ op'.kind = op.kind /\ op'.todo \subseteq op.todo \ {c}
        BY <1>4 DEF IInv, TypeOK, Operation
    <2> QED BY <1>1, <1>2, <2>1
            DEF IInv, TypeOK, TodoOK, RegisteredIsConfigured, Walks, Effect, DataOK
<1> QED BY <1>3, <1>4

\* An operation on container c between two walks, or within a cleanup.  The
\* configs may gain c, and lose it only if it is not in the map afterwards.
LEMMA CallIInv ==
    ASSUME IInv, op.kind \notin Walks \cup {"init"}, NEW c \in Containers,
           NEW k \in ContainerRecord, Effect(c, k), UNCHANGED obj, sb' \in StateString,
           \/ c \in Reg /\ cfg' = cfg
           \/ cfg' = cfg \cup {c}
           \/ k.st = "absent" /\ cfg' \in {cfg, cfg \ {c}},
           ret' \in Return,
           op' \in Operation, op'.kind \notin Walks \cup {"init"}, op'.todo = {}
    PROVE  IInv'
<1>1. \A x \in Reg' : x \in Reg \/ (x = c /\ k.st # "absent")
    BY EffectReg
<1>2. k.st = "absent" => c \notin Reg'
    BY DEF Effect, Reg
<1>3. Reg' \subseteq cfg' /\ cfg' \in SUBSET Containers
    BY <1>1, <1>2 DEF IInv, TypeOK, RegisteredIsConfigured
<1> QED BY <1>3 DEF IInv, TypeOK, TodoOK, RegisteredIsConfigured, Effect, DataOK

\* A step that leaves map and configs alone and data typed.
LEMMA QuietIInv ==
    ASSUME IInv, DataOK', Reg' \subseteq Reg, cfg' = cfg,
           obj' \in {"none", "shim", "cleanup"}, sb' \in StateString,
           ret' \in Return, op' \in Operation,
           op'.kind # "init",
           op'.todo = {} \/ (op'.kind \in Walks /\ op'.todo \subseteq Reg')
    PROVE  IInv'
BY DEF IInv, TypeOK, TodoOK, RegisteredIsConfigured, DataOK, Walks

\* Letting go of the object empties map and configs together.
LEMMA ForgetIInv ==
    ASSUME IInv, Forget, ret' \in Return, UNCHANGED <<file, client>>,
           dsb' \in StateString \cup {"none", "torn"}, dcfg' \in SUBSET Containers
    PROVE  IInv'
<1>1. Reg' = {}
    BY DEF Forget, NoContainers, Reg
<1>2. op' \in Operation /\ op'.kind = "idle" /\ op'.todo = {}
    BY IdleTyped DEF Forget
<1>3. cst' \in [Containers -> StateString \cup {"absent"}]
    BY DEF Forget, NoContainers
<1> QED BY <1>1, <1>2, <1>3
        DEF Forget, IInv, TypeOK, TodoOK, RegisteredIsConfigured, Walks, StateString
-----------------------------------------------------------------------------
(* Every action keeps the invariant.  First what the actions have in common. *)

\* What the leaves of the proofs use of the invariant.
LEMMA IInvTyped ==
    ASSUME IInv
    PROVE  /\ DataOK /\ sb \in StateString /\ cfg \in SUBSET Containers
           /\ Reg \subseteq Containers /\ Reg \subseteq cfg
           /\ \A c \in Containers : Now(c) \in ContainerRecord
           /\ \A c \in op.todo : c \in Containers
           /\ op.old \in StateString /\ op.id \in Containers
BY NowTyped DEF IInv, TypeOK, DataOK, RegisteredIsConfigured, Reg, Operation

\* Every operation but delete.
LEMMA OperationsTyped ==
    ASSUME NEW c, NEW k \in ContainerRecord
    PROVE  /\ checkState(c, k) \subseteq ContainerRecord
           /\ ensureClientPresence(c, k) \subseteq ContainerRecord
           /\ create(c, k) \subseteq ContainerRecord
           /\ \A force \in BOOLEAN : stop(c, k, force) \subseteq ContainerRecord
           /\ start(c, k) \subseteq ContainerRecord
           /\ pause(c, k) \subseteq ContainerRecord
           /\ \A s : kill(c, k, s) \subseteq ContainerRecord
           /\ \A s : resume(c, k, s) \subseteq ContainerRecord
BY CheckStateKept, EnsureKept, CreateKept, StopKept, StartKept, PauseKept, KillKept, ResumeKept
   DEF AllKept, Kept

\* Operations on a container of the map that store the sandbox in the end.
LEMMA OperateIInv ==
    ASSUME IInv, NEW call \in Calls, NEW c \in Containers,
           NEW S \in SUBSET ContainerRecord, NEW repin, Operate(call, c, S, repin)
    PROVE  IInv'
<1>1. PICK k \in S :
         \/ Touch(c, k) /\ Returns(call, c, k.err)
         \/ \E done, pinned :
              /\ Apply(c, k, cfg, done /\ repin /\ Pinning /\ pinned, done, cfg)
              /\ Returns(call, c, IF done /\ pinned THEN "nil" ELSE "fail")
    BY DEF Operate
<1>2. Effect(c, k)
    BY <1>1, IInvTyped, TouchEffect, ApplyEffect
<1>3. ret' \in Return
    BY <1>1, ReturnTyped DEF ContainerRecord, Errors
<1> QED BY <1>2, <1>3, IInvTyped, CallIInv
        DEF Operate, Calling, AtRest, Walks, IInv, TypeOK, TodoOK

\* Operations that do not.
LEMMA ProbeIInv ==
    ASSUME IInv, NEW call \in Calls, NEW c \in Containers,
           NEW S \in SUBSET ContainerRecord, Probe(call, c, S)
    PROVE  IInv'
<1>1. PICK k \in S : Touch(c, k) /\ Returns(call, c, k.err)
    BY DEF Probe
<1>2. Effect(c, k)
    BY <1>1, IInvTyped, TouchEffect
<1>3. ret' \in Return
    BY <1>1, ReturnTyped DEF ContainerRecord, Errors
<1> QED BY <1>2, <1>3, IInvTyped, CallIInv
        DEF Probe, Calling, AtRest, Walks, IInv, TypeOK, TodoOK

\* RemoveFromSandbox takes the config of a container out with the container.
LEMMA RemoveEffect ==
    ASSUME IInv, NEW c \in Containers, NEW err, RemoveFromSandbox(c, err)
    PROVE  \E k \in delete(c, Now(c)) :
              /\ k \in ContainerRecord
              /\ Effect(c, k)
              /\ cfg' = cfg \/ (k.st = "absent" /\ cfg' = cfg \ {c})
<1>1. PICK k \in delete(c, Now(c)) :
         IF k.err # "nil"
         THEN Touch(c, k) /\ cfg' = cfg /\ err = k.err
         ELSE \E pinned \in PinOK, done \in May("store") :
                /\ Apply(c, k, cfg, ~Static \/ (Pinning /\ pinned), pinned /\ done, cfg \ {c})
                /\ cfg' = cfg \ {c}
                /\ err = IF pinned /\ done THEN "nil" ELSE "fail"
    BY DEF RemoveFromSandbox
<1>2. k \in ContainerRecord /\ (k.err = "nil" => k.st = "absent")
    BY IInvTyped, DeleteReleases, DeleteOk
<1>3. Effect(c, k)
    <2>1. CASE k.err # "nil"
        BY <1>1, <1>2, <2>1, IInvTyped, TouchEffect
    <2>2. CASE k.err = "nil"
        <3>1. PICK pinned \in PinOK, done \in May("store") :
                 Apply(c, k, cfg, ~Static \/ (Pinning /\ pinned), pinned /\ done, cfg \ {c})
            BY <1>1, <2>2
        <3> QED BY <3>1, <1>2, IInvTyped, ApplyEffect
    <2> QED BY <2>1, <2>2
<1> QED BY <1>1, <1>2, <1>3
-----------------------------------------------------------------------------
(* The actions of a sandbox as a whole. *)

\* What newSandbox restores has its type.
LEMMA LoadedTyped ==
    ASSUME IInv
    PROVE  LoadedState \in StateString /\ LoadedConfig \in SUBSET Containers
BY SandboxAssumption DEF LoadedState, LoadedConfig, StateString, IInv, TypeOK

\* A new sandbox has the configs of all containers it will initialise.
LEMMA CreateSandboxIInv == IInv /\ CreateSandbox => IInv'
<1> SUFFICES ASSUME IInv, CreateSandbox PROVE IInv'
    OBVIOUS
<1>1. /\ op' \in Operation /\ op'.kind = "init" /\ op'.todo = LoadedConfig
      /\ ret' \in Return
    BY LoadedTyped, StepTyped, NoReturnTyped DEF CreateSandbox, OpKinds
<1>2. Reg' = {} /\ cst' \in [Containers -> StateString \cup {"absent"}]
    BY DEF CreateSandbox, NoContainers, Reg
<1> QED BY <1>1, <1>2, LoadedTyped
        DEF CreateSandbox, IInv, TypeOK, TodoOK, RegisteredIsConfigured, Walks, disk

\* The end of a creation that failed: what is in the map has to be deleted.
LEMMA AbortCreateIInv ==
    ASSUME IInv, DataOK', Reg' \subseteq Reg, NEW err \in Errors, AbortCreate(err)
    PROVE  IInv'
<1>1. ret' \in Return
    BY ReturnTyped, SandboxAssumption DEF AbortCreate, Calls
<1>2. Reg' \in SUBSET Containers
    BY DEF Reg
<1>3. /\ op' \in Operation /\ op'.kind \in {"drop", "abort"}
      /\ op'.todo = {} \/ (op'.kind = "abort" /\ op'.todo = Reg')
    BY <1>2, StepTyped DEF AbortCreate, OpKinds
<1> QED BY <1>1, <1>2, <1>3, QuietIInv DEF AbortCreate, Walks, IInv, TypeOK

\* A round of initContainers puts in a container whose config is there.
LEMMA InitContainerIInv ==
    ASSUME NEW c \in Containers
    PROVE  IInv /\ InitContainer(c) => IInv'
<1> SUFFICES ASSUME IInv, InitContainer(c) PROVE IInv'
    OBVIOUS
<1>1. c \in op.todo /\ op.kind = "init" /\ op.todo \subseteq cfg \ Reg
    BY DEF InitContainer, IInv, TodoOK
<1>2. newContainer(c) \subseteq ContainerRecord
    <2>1. [Now(c) EXCEPT !.st = IF file[c] = "none" THEN "down" ELSE file[c]] \in ContainerRecord
        BY IInvTyped DEF DataOK, ContainerRecord, StateString
    <2> QED BY <2>1, OperationsTyped DEF newContainer
<1>3. PICK n \in newContainer(c) :
         \/ Touch(c, [n EXCEPT !.st = "absent"]) /\ AbortCreate("fail")
         \/ \E k \in create(c, n) :
              \/ /\ Touch(c, k)
                 /\ op' = [op EXCEPT !.todo = @ \ {c}]
                 /\ UNCHANGED <<obj, sb, cfg, ret>>
              \/ Touch(c, [k EXCEPT !.st = "absent"]) /\ AbortCreate(k.err)
    BY DEF InitContainer
<1>4. ASSUME NEW k \in ContainerRecord, NEW err \in Errors,
             Touch(c, [k EXCEPT !.st = "absent"]), AbortCreate(err)
      PROVE  IInv'
    <2>1. /\ [k EXCEPT !.st = "absent"] \in ContainerRecord
          /\ [k EXCEPT !.st = "absent"].st = "absent"
        BY DEF ContainerRecord
    <2>2. Effect(c, [k EXCEPT !.st = "absent"])
        BY <1>4, <2>1, IInvTyped, TouchEffect
    <2>3. Reg' \subseteq Reg
        BY <2>1, <2>2, EffectReg
    <2> QED BY <1>4, <2>2, <2>3, AbortCreateIInv DEF Effect
<1>5. CASE Touch(c, [n EXCEPT !.st = "absent"]) /\ AbortCreate("fail")
    BY <1>2, <1>4, <1>5 DEF Errors
<1>6. ASSUME NEW k \in create(c, n), Touch(c, [k EXCEPT !.st = "absent"]), AbortCreate(k.err)
      PROVE  IInv'
    <2>1. k \in ContainerRecord /\ k.err \in Errors
        BY <1>2, OperationsTyped DEF ContainerRecord
    <2> QED BY <1>4, <1>6, <2>1
<1>7. ASSUME NEW k \in create(c, n), Touch(c, k),
             op' = [op EXCEPT !.todo = @ \ {c}], UNCHANGED <<obj, sb, cfg, ret>>
      PROVE  IInv'
    <2>1. k \in ContainerRecord
        BY <1>2, OperationsTyped
    <2>2. Effect(c, k)
        BY <1>7, <2>1, IInvTyped, TouchEffect
    <2>3. op' \in Operation /\ op'.kind = "init" /\ op'.todo = op.todo \ {c}
        BY <1>1, <1>7 DEF IInv, TypeOK, Operation
    <2>4. \A x \in Reg' : x \in Reg \/ x = c
        BY <2>2, EffectReg
    <2> QED BY <1>1, <1>7, <2>2, <2>3, <2>4
            DEF IInv, TypeOK, TodoOK, RegisteredIsConfigured, Walks, Effect, DataOK
<1> QED BY <1>3, <1>5, <1>6, <1>7

\* The tail of initContainers, on its error paths too.
LEMMA InitDoneIInv == IInv /\ InitDone => IInv'
<1> SUFFICES ASSUME IInv, InitDone PROVE IInv'
    OBVIOUS
<1>1. PICK refresh, done : RefreshAll(refresh, done)
    BY DEF InitDone
<1>2. DataOK' /\ Reg' = Reg
    BY <1>1, IInvTyped, RefreshAllEffect DEF Reg
<1>3. \/ AbortCreate("fail")
      \/ /\ op' = Idle \/ op' = Step("drop", {})
         /\ \E err \in {"nil", "fail"} : Returns("CreateSandbox", Owner, err)
         /\ UNCHANGED <<obj, sb, cfg>>
    BY DEF InitDone
<1>4. CASE AbortCreate("fail")
    BY <1>2, <1>4, AbortCreateIInv DEF Errors
<1>5. CASE /\ op' = Idle \/ op' = Step("drop", {})
           /\ \E err \in {"nil", "fail"} : Returns("CreateSandbox", Owner, err)
           /\ UNCHANGED <<obj, sb, cfg>>
    <2>1. op' \in Operation /\ op'.kind \in {"idle", "drop"} /\ op'.todo = {}
        <3>1. "drop" \in OpKinds /\ {} \in SUBSET Containers
            BY DEF OpKinds
        <3> QED BY <1>5, <3>1, StepTyped, IdleTyped
    <2>2. ret' \in Return
        BY <1>5, ReturnTyped, SandboxAssumption DEF Calls, Errors
    <2> QED BY <1>2, <1>5, <2>1, <2>2, QuietIInv DEF IInv, TypeOK
<1> QED BY <1>3, <1>4, <1>5

\* An action on the sandbox as a whole that leaves the containers alone and
\* ends, or starts a walk over the map.
LEMMA SandboxCallIInv ==
    ASSUME IInv, UNCHANGED <<obj, cfg, cst, file, client>>, sb' \in StateString,
           dsb' \in StateString \cup {"none", "torn"}, dcfg' \in SUBSET Containers,
           ret' \in Return,
           \/ op' = Idle
           \/ op.kind # "init" /\ op' = op
           \/ \E kind \in Walks : op' = Step(kind, Reg)
           \/ \E kind \in Walks, s \in StateString : op' = [Step(kind, Reg) EXCEPT !.old = s]
    PROVE  IInv'
<1>1. Reg' = Reg /\ Reg \in SUBSET Containers
    BY DEF Reg
<1>2. Walks \subseteq OpKinds /\ "init" \notin Walks
    BY DEF Walks, OpKinds
<1>3. \A kind \in Walks : /\ Step(kind, Reg) \in Operation
                          /\ Step(kind, Reg).kind = kind
                          /\ Step(kind, Reg).todo = Reg
    BY <1>1, <1>2, StepTyped
<1>4. op' \in Operation
    <2>1. CASE \E kind \in Walks, s \in StateString : op' = [Step(kind, Reg) EXCEPT !.old = s]
        BY <1>3, <2>1 DEF Operation
    <2> QED BY <1>3, <2>1, IdleTyped DEF IInv, TypeOK
<1>5. /\ op'.kind # "init"
      /\ op'.todo = {} \/ (op'.kind \in Walks /\ op'.todo \subseteq Reg')
    <2>1. CASE op' = Idle
        BY <2>1, IdleTyped
    <2>2. CASE op.kind # "init" /\ op' = op
        BY <1>1, <2>2 DEF IInv, TodoOK
    <2>3. CASE \E kind \in Walks : op' = Step(kind, Reg)
        BY <1>1, <1>2, <1>3, <2>3
    <2>4. CASE \E kind \in Walks, s \in StateString : op' = [Step(kind, Reg) EXCEPT !.old = s]
        <3>1. PICK kind \in Walks, s \in StateString : op' = [Step(kind, Reg) EXCEPT !.old = s]
            BY <2>4
        <3>2. op'.kind = kind /\ op'.todo = Reg
            BY <1>3, <3>1 DEF Operation
        <3> QED BY <1>1, <1>2, <3>2
    <2> QED BY <2>1, <2>2, <2>3, <2>4
<1> QED BY <1>1, <1>4, <1>5, QuietIInv DEF IInv, TypeOK, DataOK

\* The steps that let go of the sandbox object.
LEMMA DropIInv == IInv /\ (Drop \/ AbortDone \/ ReleaseSandbox \/ Crash) => IInv'
<1> SUFFICES ASSUME IInv, Drop \/ AbortDone \/ ReleaseSandbox \/ Crash PROVE IInv'
    OBVIOUS
<1>1. Forget /\ UNCHANGED <<file, client>>
    BY DEF Drop, AbortDone, ReleaseSandbox, Crash, CleanSandboxStorage, disk
<1>2. ret' \in Return
    BY NoReturnTyped DEF Drop, AbortDone, ReleaseSandbox, Crash, IInv, TypeOK
<1>3. dsb' \in StateString \cup {"none", "torn"} /\ dcfg' \in SUBSET Containers
    BY DEF Drop, AbortDone, ReleaseSandbox, Crash, CleanSandboxStorage, disk, IInv, TypeOK
<1> QED BY <1>1, <1>2, <1>3, ForgetIInv

\* Sandbox.Delete before and after its walk.
LEMMA DeleteIInv == IInv /\ (Delete \/ DeleteDone) => IInv'
<1> SUFFICES ASSUME IInv, Delete \/ DeleteDone PROVE IInv'
    OBVIOUS
<1>1. ret' \in Return
    <2>1. ret' = NoReturn \/ \E err \in {"nil", "fail"} : Returns("Delete", Owner, err)
        BY DEF Delete, DeleteDone
    <2> QED BY <2>1, NoReturnTyped, ReturnTyped, SandboxAssumption DEF Calls, Errors
<1>2. dsb' \in StateString \cup {"none", "torn"} /\ dcfg' \in SUBSET Containers
    BY DEF Delete, DeleteDone, CleanSandboxStorage, disk, IInv, TypeOK
<1> QED BY <1>1, <1>2, SandboxCallIInv
        DEF Delete, DeleteDone, CleanSandboxStorage, Stopped, AtRest, Walks, mem, disk,
            IInv, TypeOK

\* Sandbox.Start before and after its walk.
LEMMA StartIInv == IInv /\ (Start \/ StartDone) => IInv'
<1> SUFFICES ASSUME IInv, Start \/ StartDone PROVE IInv'
    OBVIOUS
<1>1. ret' \in Return
    <2>1. ret' = NoReturn \/ \E err \in {"nil", "fail"} : Returns("Start", Owner, err)
        BY DEF Start, StartDone
    <2> QED BY <2>1, NoReturnTyped, ReturnTyped, SandboxAssumption DEF Calls, Errors
<1>2. CASE Start
    <2>1. sb' \in StateString
        BY <1>2 DEF Start, StateString, IInv, TypeOK
    <2>2. \/ op' = op
          \/ op' = Step("ensure", Reg)
          \/ \E s \in StateString : op' = [Step("start", Reg) EXCEPT !.old = s]
        BY <1>2 DEF Start, StateString, IInv, TypeOK
    <2> QED BY <1>1, <1>2, <2>1, <2>2, SandboxCallIInv
            DEF Start, Calling, AtRest, Walks, disk, IInv, TypeOK
<1>3. CASE StartDone
    <2>1. dsb' \in StateString \cup {"none", "torn"} /\ dcfg' \in SUBSET Containers
        BY <1>3, IInvTyped, WriteDiskTyped DEF StartDone
    <2> QED BY <1>1, <1>3, <2>1, SandboxCallIInv DEF StartDone, mem, IInv, TypeOK
<1> QED BY <1>2, <1>3

\* Sandbox.Stop before, between and after its two walks.
LEMMA StopIInv == IInv /\ (Stop \/ StopClients \/ StopDone) => IInv'
<1> SUFFICES ASSUME IInv, Stop \/ StopClients \/ StopDone PROVE IInv'
    OBVIOUS
<1>1. ret' \in Return
    <2>1. \/ ret' \in {NoReturn, ret}
          \/ \E err \in {"nil", "fail"} : Returns("Stop", Owner, err)
        BY DEF Stop, StopClients, StopDone
    <2> QED BY <2>1, NoReturnTyped, ReturnTyped, SandboxAssumption
            DEF Calls, Errors, IInv, TypeOK
<1>2. CASE Stop
    BY <1>1, <1>2, SandboxCallIInv
       DEF Stop, Calling, AtRest, Walks, mem, disk, IInv, TypeOK
<1>3. CASE StopClients
    <2>1. Reg \in SUBSET Containers /\ Reg' = Reg
        BY <1>3 DEF Reg, StopClients, mem
    <2>2. op' \in Operation /\ op'.kind = "stopClients" /\ op'.todo = Reg
        BY <1>3, <2>1 DEF StopClients, Operation, OpKinds, IInv, TypeOK
    <2> QED BY <1>1, <1>3, <2>1, <2>2, QuietIInv
            DEF StopClients, Walks, mem, disk, IInv, TypeOK, DataOK
<1>4. CASE StopDone
    <2>1. "stopped" \in StateString
        BY DEF StateString
    <2>2. dsb' \in StateString \cup {"none", "torn"} /\ dcfg' \in SUBSET Containers
        BY <1>4, <2>1, IInvTyped, WriteDiskTyped DEF StopDone
    <2> QED BY <1>1, <1>4, <2>1, <2>2, SandboxCallIInv DEF StopDone, IInv, TypeOK
<1> QED BY <1>2, <1>3, <1>4
-----------------------------------------------------------------------------
(* The rounds of the walks. *)

\* A round of any walk but that of initContainers.
LEMMA WalkRoundIInv ==
    ASSUME NEW c \in Containers
    PROVE  IInv /\ (\/ DeleteEach(c) \/ StartEach(c) \/ EnsureEach(c)
                    \/ StopEach(c) \/ StopClientsEach(c)) => IInv'
<1> SUFFICES ASSUME IInv,
                    \/ DeleteEach(c) \/ StartEach(c) \/ EnsureEach(c)
                    \/ StopEach(c) \/ StopClientsEach(c)
             PROVE  IInv'
    OBVIOUS
<1>1. /\ op.kind \in Walks /\ c \in op.todo /\ UNCHANGED <<obj, cfg>>
      /\ sb' \in {sb, op.old}
      /\ \/ op' = Idle
         \/ op' = [op EXCEPT !.todo = @ \ {c}]
         \/ op' = [op EXCEPT !.todo = {}]
    BY DEF DeleteEach, StartEach, EnsureEach, StopEach, StopClientsEach, Walks
<1>2. Now(c) \in ContainerRecord /\ checkState(c, Now(c)) \subseteq ContainerRecord
    BY IInvTyped, OperationsTyped
<1> DEFINE Round(k) ==
             /\ Touch(c, k)
             /\ ret' = ret \/ \E call \in {"Start", "Stop"} : Returns(call, Owner, k.err)
<1>3. PICK k \in ContainerRecord : Round(k)
    <2>1. CASE DeleteEach(c)
        <3>1. \E k \in delete(c, Now(c)) : Round(k)
            BY <2>1 DEF DeleteEach
        <3> QED BY <1>2, <3>1, DeleteReleases
    <2>2. CASE StartEach(c)
        <3>1. \E k \in start(c, Now(c)) : Round(k)
            BY <2>2 DEF StartEach
        <3> QED BY <1>2, <3>1, OperationsTyped
    <2>3. CASE EnsureEach(c)
        <3>1. PICK j \in checkState(c, Now(c)) : \E k \in {j} \cup start(c, j) : Round(k)
            BY <2>3 DEF EnsureEach
        <3>2. j \in ContainerRecord /\ start(c, j) \subseteq ContainerRecord
            BY <1>2, OperationsTyped
        <3> QED BY <3>1, <3>2
    <2>4. CASE StopEach(c) \/ StopClientsEach(c)
        <3>1. \E k \in stop(c, Now(c), TRUE) : Round(k)
            BY <2>4 DEF StopEach, StopClientsEach
        <3> QED BY <1>2, <3>1, OperationsTyped
    <2> QED BY <2>1, <2>2, <2>3, <2>4
<1>4. Effect(c, k)
    BY <1>3, IInvTyped, TouchEffect
<1>5. ret' \in Return
    BY <1>3, ReturnTyped, SandboxAssumption DEF ContainerRecord, Calls, IInv, TypeOK
<1> QED BY <1>1, <1>3, <1>4, <1>5, IInvTyped, WalkIInv
-----------------------------------------------------------------------------
(* The calls on one container. *)

\* The operations of the shim on one container of the map.
LEMMA OperationIInv ==
    ASSUME NEW c \in Containers
    PROVE  IInv /\ (\/ PauseContainer(c) \/ ResumeContainer(c) \/ StatusContainer(c)
                    \/ WinResize(c) \/ StartContainer(c) \/ KillContainer(c)
                    \/ \E force \in BOOLEAN : StopContainer(c, force)) => IInv'
<1> SUFFICES ASSUME IInv PROVE
             (\/ PauseContainer(c) \/ ResumeContainer(c) \/ StatusContainer(c)
              \/ WinResize(c) \/ StartContainer(c) \/ KillContainer(c)
              \/ \E force \in BOOLEAN : StopContainer(c, force)) => IInv'
    OBVIOUS
<1>1. Now(c) \in ContainerRecord
    BY IInvTyped
<1>2. PauseContainer(c) \/ ResumeContainer(c) \/ StartContainer(c) => IInv'
    BY <1>1, OperationsTyped, OperateIInv
       DEF PauseContainer, ResumeContainer, StartContainer, Calls
<1>3. ASSUME NEW force \in BOOLEAN
      PROVE  StopContainer(c, force) => IInv'
    BY <1>1, OperationsTyped, OperateIInv DEF StopContainer, Calls
<1>4. KillContainer(c) \/ StatusContainer(c) => IInv'
    BY <1>1, OperationsTyped, ProbeIInv DEF KillContainer, StatusContainer, Calls
<1>5. WinResize(c) => IInv'
    <2> DEFINE S == {IF k.st \in {"ready", "running"} THEN k ELSE Fail(k) :
                        k \in checkState(c, Now(c))}
    <2>1. S \subseteq ContainerRecord
        BY <1>1, OperationsTyped DEF Fail, ContainerRecord, Errors
    <2> HIDE DEF S
    <2>2. Probe("WinResize", c, S) => IInv'
        BY <2>1, ProbeIInv DEF Calls
    <2> QED BY <2>2 DEF WinResize, S
<1> QED BY <1>2, <1>3, <1>4, <1>5

\* UpdateContainer, whatever errors it ignores.
LEMMA UpdateIInv ==
    ASSUME NEW c \in Containers
    PROVE  IInv /\ UpdateContainer(c) => IInv'
<1> SUFFICES ASSUME IInv, UpdateContainer(c) PROVE IInv'
    OBVIOUS
<1>1. Now(c) \in ContainerRecord /\ checkState(c, Now(c)) \subseteq ContainerRecord
    BY IInvTyped, OperationsTyped
<1>2. PICK k, changed, pinned, done :
         /\ k \in ContainerRecord
         /\ Apply(c, k, cfg, changed \/ (Pinning /\ pinned), done, cfg)
    BY <1>1 DEF UpdateContainer
<1>3. Effect(c, k)
    BY <1>2, IInvTyped, ApplyEffect
<1>4. ret' \in Return
    BY ReturnTyped DEF UpdateContainer, Calls, Errors
<1> QED BY <1>2, <1>3, <1>4, IInvTyped, CallIInv
        DEF UpdateContainer, Calling, AtRest, Walks, IInv, TypeOK, TodoOK

\* A creation given up takes the container, and mostly its config, out again.
LEMMA CreateFailedIInv ==
    ASSUME IInv, Calling, NEW c \in Containers, NEW k \in ContainerRecord,
           NEW refresh, NEW kept, NEW err \in Errors,
           CreateFailed(c, k, refresh, kept, err), UNCHANGED <<obj, sb, op>>
    PROVE  IInv'
<1>1. /\ [k EXCEPT !.st = "absent"] \in ContainerRecord
      /\ [k EXCEPT !.st = "absent"].st = "absent"
    BY DEF ContainerRecord
<1>2. Effect(c, [k EXCEPT !.st = "absent"])
    BY <1>1, IInvTyped, ApplyEffect DEF CreateFailed
<1>3. ret' \in Return
    BY ReturnTyped DEF CreateFailed, Calls
<1>4. cfg' = cfg \cup {c} \/ cfg' = cfg \ {c}
    BY DEF CreateFailed
<1> QED BY <1>1, <1>2, <1>3, <1>4, IInvTyped, CallIInv
        DEF Calling, AtRest, Walks, IInv, TypeOK, TodoOK

\* CreateContainer adds container and config together, or gives up.
LEMMA CreateContainerIInv ==
    ASSUME NEW c \in Containers
    PROVE  IInv /\ CreateContainer(c) => IInv'
<1> SUFFICES ASSUME IInv, CreateContainer(c) PROVE IInv'
    OBVIOUS
<1>1. newContainer(c) \subseteq ContainerRecord
    <2>1. [Now(c) EXCEPT !.st = IF file[c] = "none" THEN "down" ELSE file[c]] \in ContainerRecord
        BY IInvTyped DEF DataOK, ContainerRecord, StateString
    <2> QED BY <2>1, OperationsTyped DEF newContainer
<1>2. PICK n \in newContainer(c) :
         \/ CreateFailed(c, n, FALSE, TRUE, "fail")
         \/ \E k \in create(c, n) :
              \/ CreateFailed(c, k, FALSE, FALSE, k.err)
              \/ \E refresh, h : h \in stop(c, k, TRUE)
                                 /\ CreateFailed(c, h, refresh, FALSE, "fail")
              \/ /\ Apply(c, k, cfg \cup {c}, Pinning, TRUE, cfg \cup {c})
                 /\ cfg' = cfg \cup {c}
                 /\ Returns("CreateContainer", c, "nil")
    BY DEF CreateContainer
<1>3. CASE CreateFailed(c, n, FALSE, TRUE, "fail")
    BY <1>1, <1>3, CreateFailedIInv DEF CreateContainer, Errors
<1>4. ASSUME NEW k \in create(c, n)
      PROVE  k \in ContainerRecord /\ k.err \in Errors /\ stop(c, k, TRUE) \subseteq ContainerRecord
    <2>1. n \in ContainerRecord
        BY <1>1, <1>2
    <2>2. k \in ContainerRecord
        BY <1>4, <2>1, OperationsTyped
    <2>3. stop(c, k, TRUE) \subseteq ContainerRecord
        BY <2>2, OperationsTyped
    <2> QED BY <2>2, <2>3 DEF ContainerRecord
<1>5. ASSUME NEW k \in create(c, n), CreateFailed(c, k, FALSE, FALSE, k.err)
      PROVE  IInv'
    BY <1>4, <1>5, CreateFailedIInv DEF CreateContainer
<1>6. ASSUME NEW k \in create(c, n), NEW refresh, NEW h \in stop(c, k, TRUE),
             CreateFailed(c, h, refresh, FALSE, "fail")
      PROVE  IInv'
    BY <1>4, <1>6, CreateFailedIInv DEF CreateContainer, Errors
<1>7. ASSUME NEW k \in create(c, n),
             Apply(c, k, cfg \cup {c}, Pinning, TRUE, cfg \cup {c}),
             cfg' = cfg \cup {c},
             Returns("CreateContainer", c, "nil")
      PROVE  IInv'
    <2>1. Effect(c, k)
        BY <1>4, <1>7, IInvTyped, ApplyEffect
    <2>2. ret' \in Return
        BY <1>7, ReturnTyped DEF Calls, Errors
    <2> QED BY <1>4, <1>7, <2>1, <2>2, IInvTyped, CallIInv
            DEF CreateContainer, Calling, AtRest, Walks, IInv, TypeOK, TodoOK
<1> QED BY <1>2, <1>3, <1>5, <1>6, <1>7

\* DeleteContainer removes the config only after the container.
LEMMA DeleteContainerIInv ==
    ASSUME NEW c \in Containers
    PROVE  IInv /\ DeleteContainer(c) => IInv'
<1> SUFFICES ASSUME IInv, DeleteContainer(c) PROVE IInv'
    OBVIOUS
<1>1. PICK err \in Errors : RemoveFromSandbox(c, err) /\ Returns("DeleteContainer", c, err)
    BY DEF DeleteContainer
<1>2. PICK k \in ContainerRecord : /\ Effect(c, k)
                                   /\ cfg' = cfg \/ (k.st = "absent" /\ cfg' = cfg \ {c})
    BY <1>1, RemoveEffect
<1>3. ret' \in Return
    BY <1>1, ReturnTyped DEF Calls
<1> QED BY <1>2, <1>3, IInvTyped, CallIInv
        DEF DeleteContainer, Calling, AtRest, Walks, IInv, TypeOK, TodoOK
-----------------------------------------------------------------------------
(* Cleanup and environment. *)

\* Loading the sandbox fills the map from the configs of the file.
LEMMA CleanupContainerIInv ==
    ASSUME NEW c \in Containers
    PROVE  IInv /\ CleanupContainer(c) => IInv'
<1> SUFFICES ASSUME IInv, CleanupContainer(c) PROVE IInv'
    OBVIOUS
<1>1. CASE ~Restorable
    <2>1. ret' \in Return
        BY <1>1, ReturnTyped DEF CleanupContainer, Calls, Errors
    <2> QED BY <1>1, <2>1
            DEF CleanupContainer, mem, disk, IInv, TypeOK, TodoOK, RegisteredIsConfigured, Reg
<1>2. CASE Restorable
    <2> DEFINE visible(x) == c = Owner /\ file[x] # "none"
               restored == [x \in Containers |-> IF x \notin dcfg THEN "absent"
                                                 ELSE IF visible(x) THEN file[x] ELSE "down"]
               gone == Gone(restored, client)
    <2>1. /\ obj' = "cleanup" /\ sb' = LoadedState /\ cfg' = dcfg
          /\ cst' = [x \in Containers |-> IF x \in gone THEN "down" ELSE restored[x]]
          /\ op' = [Step("cleanStop", {}) EXCEPT !.id = c]
          /\ ret' = NoReturn /\ UNCHANGED client
        BY <1>2 DEF CleanupContainer
    <2>2. PICK F : file' = [x \in Containers |-> IF x \in F THEN "down" ELSE file[x]]
        BY <1>2 DEF CleanupContainer
    <2>3. PICK again : WriteDisk(again, LoadedState, dcfg)
        BY <1>2 DEF CleanupContainer
    <2>4. dsb' \in StateString \cup {"none", "torn"} /\ dcfg' \in SUBSET Containers
        BY <2>3, LoadedTyped, IInvTyped, WriteDiskTyped DEF IInv, TypeOK
    <2>5. op' \in Operation /\ op'.kind = "cleanStop" /\ op'.todo = {}
        <3>1. "cleanStop" \in OpKinds /\ {} \in SUBSET Containers
            BY DEF OpKinds
        <3>2. Step("cleanStop", {}) \in Operation /\ Step("cleanStop", {}).kind = "cleanStop"
              /\ Step("cleanStop", {}).todo = {}
            BY <3>1, StepTyped
        <3> QED BY <2>1, <3>2 DEF Operation
    <2>6. restored \in [Containers -> StateString \cup {"absent"}]
        BY DEF IInv, TypeOK, StateString
    <2>7. \A x \in gone : restored[x] # "absent"
        BY DEF Gone
    <2> HIDE DEF gone
    <2>8. /\ cst' \in [Containers -> StateString \cup {"absent"}]
          /\ Reg' \subseteq dcfg
        BY <2>1, <2>6, <2>7 DEF Reg, StateString
    <2>9. file' \in [Containers -> StateString \cup {"none"}]
        BY <2>2 DEF IInv, TypeOK, StateString
    <2> QED BY <2>1, <2>4, <2>5, <2>8, <2>9, LoadedTyped, NoReturnTyped
            DEF IInv, TypeOK, TodoOK, RegisteredIsConfigured, Walks
<1> QED BY <1>1, <1>2

\* The rest of a cleanup keeps the kinds that walk over nothing.
LEMMA CleanupStepIInv == IInv /\ (CleanupStop \/ CleanupDelete \/ CleanupSandbox) => IInv'
<1> SUFFICES ASSUME IInv, CleanupStop \/ CleanupDelete \/ CleanupSandbox PROVE IInv'
    OBVIOUS
<1>1. op.kind \notin Walks \cup {"init"} /\ op.todo = {} /\ op.id \in Containers
    BY IInvTyped DEF CleanupStop, CleanupDelete, CleanupSandbox, Walks, IInv, TodoOK
<1>2. /\ ret' = ret \/ \E err \in Errors : Returns("CleanupContainer", op.id, err)
      /\ \E kind \in {"cleanDelete", "cleanSandbox", "drop"} : op' = [op EXCEPT !.kind = kind]
    BY DEF CleanupStop, CleanupDelete, CleanupSandbox, CleanupReturns, Errors
<1>3. ret' \in Return
    BY <1>1, <1>2, ReturnTyped DEF Calls, IInv, TypeOK
<1>4. op' \in Operation /\ op'.kind \notin Walks \cup {"init"} /\ op'.todo = {}
    BY <1>1, <1>2 DEF Operation, OpKinds, Walks, IInv, TypeOK
<1>5. CASE CleanupStop
    <2>1. CASE op.id \notin Reg
        BY <1>3, <1>4, <1>5, <2>1
           DEF CleanupStop, disk, IInv, TypeOK, TodoOK, RegisteredIsConfigured, Reg
    <2>2. CASE op.id \in Reg
        <3>1. PICK k, done :
                 /\ k \in stop(op.id, Now(op.id), FALSE)
                 /\ Apply(op.id, k, cfg, FALSE, k.err = "nil" /\ done, cfg)
            BY <1>5, <2>2 DEF CleanupStop
        <3>2. k \in ContainerRecord
            BY <1>1, <3>1, IInvTyped, OperationsTyped
        <3>3. Effect(op.id, k)
            BY <1>1, <3>1, <3>2, IInvTyped, ApplyEffect
        <3> QED BY <1>1, <1>3, <1>4, <1>5, <2>2, <3>2, <3>3, IInvTyped, CallIInv DEF CleanupStop
    <2> QED BY <2>1, <2>2
<1>6. CASE CleanupDelete
    <2>1. CASE op.id \notin Reg
        BY <1>3, <1>4, <1>6, <2>1
           DEF CleanupDelete, disk, IInv, TypeOK, TodoOK, RegisteredIsConfigured, Reg
    <2>2. CASE op.id \in Reg
        <3>1. PICK err \in Errors : RemoveFromSandbox(op.id, err)
            BY <1>6, <2>2 DEF CleanupDelete
        <3>2. PICK k \in ContainerRecord :
                 /\ Effect(op.id, k)
                 /\ cfg' = cfg \/ (k.st = "absent" /\ cfg' = cfg \ {op.id})
            BY <1>1, <3>1, RemoveEffect
        <3>3. sb' \in StateString /\ obj' = obj
            BY <1>6 DEF CleanupDelete, IInv, TypeOK
        <3> QED BY <1>1, <1>3, <1>4, <2>2, <3>2, <3>3, CallIInv
    <2> QED BY <2>1, <2>2
<1>7. CASE CleanupSandbox
    <2>1. /\ dsb' \in StateString \cup {"none", "torn"} /\ dcfg' \in SUBSET Containers
          /\ sb' \in StateString
        BY <1>7, IInvTyped, WriteDiskTyped DEF CleanupSandbox, StateString, IInv, TypeOK
    <2> QED BY <1>3, <1>4, <1>7, <2>1
            DEF CleanupSandbox, IInv, TypeOK, TodoOK, RegisteredIsConfigured, Reg
<1> QED BY <1>5, <1>6, <1>7

\* Clients and bundles that come and go touch neither map nor configs.
LEMMA EnvironmentIInv ==
    ASSUME NEW c \in Containers
    PROVE  IInv /\ (\/ RemoveBundle \/ ClientVanishes(c)
                    \/ \E status \in {"idle", "running"} : ClientAppears(c, status)) => IInv'
BY DEF RemoveBundle, ClientVanishes, ClientAppears, mem, disk, ClientStatus,
       IInv, TypeOK, TodoOK, RegisteredIsConfigured, Reg
-----------------------------------------------------------------------------
\* The invariant is inductive: every action of sandbox.go, on every path.
THEOREM NextIInv == IInv /\ [Next]_vars => IInv'
<1> SUFFICES ASSUME IInv, [Next]_vars PROVE IInv'
    OBVIOUS
<1>1. CASE SandboxStep
    BY <1>1, CreateSandboxIInv, InitDoneIInv, DropIInv, DeleteIInv, StartIInv, StopIInv
       DEF SandboxStep
<1>2. ASSUME NEW c \in Containers, ContainerStep(c)
      PROVE  IInv'
    BY <1>2, InitContainerIInv, WalkRoundIInv, OperationIInv, UpdateIInv DEF ContainerStep
<1>3. ASSUME NEW c \in PodContainers, PodContainerStep(c)
      PROVE  IInv'
    BY <1>3, CreateContainerIInv, DeleteContainerIInv, OperationIInv
       DEF PodContainerStep, PodContainers
<1>4. CASE CleanupStep
    BY <1>4, CleanupContainerIInv, CleanupStepIInv DEF CleanupStep
<1>5. CASE Environment
    BY <1>5, DropIInv, EnvironmentIInv, SandboxAssumption DEF Environment
<1>6. CASE UNCHANGED vars
    BY <1>6 DEF vars, IInv, TypeOK, TodoOK, RegisteredIsConfigured, Reg
<1> QED BY <1>1, <1>2, <1>3, <1>4, <1>5, <1>6 DEF Next

\* The inductive invariant holds throughout.
THEOREM SpecIInv == Spec => []IInv
<1> QED BY InitIInv, NextIInv, PTL DEF Spec

\* Every variable keeps its type, whatever fails (pkg/micantainer/sandbox.go).
THEOREM TypeCorrect == Spec => []TypeOK
<1>1. IInv => TypeOK
    BY DEF IInv
<1> QED BY <1>1, SpecIInv, PTL

\* Every container in the map of a sandbox has its config in the sandbox's
\* configs, for every set of containers and faults and on every failure path
\* of sandbox.go: what StoreSandbox writes leaves none out.
THEOREM ConfigSafety == Spec => []RegisteredIsConfigured
<1>1. IInv => RegisteredIsConfigured
    BY DEF IInv
<1> QED BY <1>1, SpecIInv, PTL
=============================================================================
