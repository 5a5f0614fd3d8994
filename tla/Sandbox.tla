------------------------------ MODULE Sandbox -------------------------------
(***************************************************************************)
(* A sandbox and its containers (pkg/micantainer/sandbox.go), the state    *)
(* file that survives the process, and the cleanup process that works from *)
(* that file after a crash.                                                *)
(*                                                                         *)
(* The shim calls a sandbox under its service lock, so no two operations   *)
(* overlap.  An operation on one container is one step; an operation that  *)
(* walks over the containers takes one step per container, in any order    *)
(* (Go's map order).  Between two steps the process may crash and clients  *)
(* may come and go.                                                        *)
(***************************************************************************)
EXTENDS Container, FiniteSets

CONSTANTS Owner,    \* the container whose creation creates the sandbox; the
                    \* shim works in its bundle
          Pinning,  \* EnableVCPUsPinning
          Static    \* StaticResourceMgmt

ASSUME SandboxAssumption ==
    /\ Owner \in Containers
    /\ Infra \subseteq {Owner}
    /\ Pinning \in BOOLEAN
    /\ Static \in BOOLEAN

VARIABLES
    obj,     \* which process holds a Sandbox object: "none", "shim", "cleanup"
    sb,      \* s.state.State
    cfg,     \* the keys of s.config.ContainerConfigs
    cst,     \* s.containers: the state of each container, "absent" if not in it
    dsb,     \* the state in the sandbox's file, "none" or "torn"
    dcfg,    \* the container configs in that file
    file,    \* the state in each container's state.json in Owner's bundle
    client,  \* each container's client at micad
    op,      \* the operation in progress
    ret      \* what the last operation returned

mem  == <<obj, sb, cfg, cst>>
disk == <<dsb, dcfg, file>>
vars == <<obj, sb, cfg, cst, dsb, dcfg, file, client, op, ret>>

OpKinds ==
    {"idle", "init", "abort", "drop", "start", "ensure", "stop", "stopClients", "delete",
     "cleanStop", "cleanDelete", "cleanSandbox"}

Operation ==
    [kind : OpKinds, todo : SUBSET Containers, old : StateString, id : Containers]

Idle == [kind |-> "idle", todo |-> {}, old |-> "ready", id |-> Owner]

Step(kind, todo) == [Idle EXCEPT !.kind = kind, !.todo = todo]

Calls ==
    {"none", "CreateSandbox", "Start", "Stop", "Delete", "CreateContainer",
     "DeleteContainer", "StartContainer", "StopContainer", "KillContainer",
     "StatusContainer", "WinResize", "PauseContainer", "ResumeContainer", "UpdateContainer",
     "CleanupContainer"}

Return == [call : Calls, id : Containers, err : Errors]

NoReturn == [call |-> "none", id |-> Owner, err |-> "nil"]

Returns(call, c, err) ==
    ret' = [NoReturn EXCEPT !.call = call, !.id = c, !.err = err]

Reg == {c \in Containers : cst[c] # "absent"}

NoContainers == [c \in Containers |-> "absent"]

TypeOK ==
    /\ obj \in {"none", "shim", "cleanup"}
    /\ sb \in StateString
    /\ cfg \in SUBSET Containers
    /\ cst \in [Containers -> StateString \cup {"absent"}]
    /\ dsb \in StateString \cup {"none", "torn"}
    /\ dcfg \in SUBSET Containers
    /\ file \in [Containers -> StateString \cup {"none"}]
    /\ client \in [Containers -> ClientStatus]
    /\ op \in Operation
    /\ ret \in Return

Init ==
    /\ obj = "none"
    /\ sb = "down"
    /\ cfg = {}
    /\ cst = NoContainers
    /\ dsb = "none"
    /\ dcfg = {}
    /\ file = [c \in Containers |-> "none"]
    /\ client = [c \in Containers |-> "none"]
    /\ op = Idle
    /\ ret = NoReturn
-----------------------------------------------------------------------------
(* Applying what an operation on one container did *)

\* The record of container c, as its operations take it.
Now(c) == [st |-> cst[c], file |-> file[c], cl |-> client[c],
           stored |-> FALSE, err |-> "nil"]

\* StoreSandbox writes the sandbox's state and config as they are in memory.
WriteDisk(done, s, g) ==
    IF done THEN dsb' = s /\ dcfg' = g ELSE UNCHANGED <<dsb, dcfg>>

\* The containers that calculateSandboxVCPUs and calculateSandboxMemory find
\* without a client: asking for their state marks them down.
Gone(states, clients) ==
    {c \in Containers \ Infra : /\ states[c] \notin {"absent", "down"}
                                /\ clients[c] = "none"}

\* The subsets of G whose new state reaches their file.
Written(G) == IF "store" \in Faults THEN SUBSET G ELSE {G}

\* The state files live in Owner's bundle; the process that cleans up after
\* another container runs in that container's bundle.
InOwnersBundle == obj # "cleanup" \/ op.id = Owner

\* Container c ends as k, its own stores having written the configs inner.
\* With refresh the resource totals are then recomputed, and with done the
\* sandbox is stored, both with the configs outer.
Apply(c, k, inner, refresh, done, outer) ==
    LET states  == [cst EXCEPT ![c] = k.st]
        clients == [client EXCEPT ![c] = k.cl]
        gone    == IF refresh THEN Gone(states, clients) ELSE {}
    IN  /\ client' = clients
        /\ cst' = [x \in Containers |-> IF x \in gone THEN "down" ELSE states[x]]
        /\ \E F \in Written(gone) :
              file' = IF InOwnersBundle
                      THEN [x \in Containers |->
                              IF x \in F THEN "down" ELSE IF x = c THEN k.file ELSE file[x]]
                      ELSE file
        /\ \E again \in (IF gone = {} THEN {FALSE} ELSE May("store")) :
              IF done \/ again THEN WriteDisk(TRUE, sb, outer)
                               ELSE WriteDisk(k.stored, sb, inner)

\* The operation touched only container c.
Touch(c, k) == Apply(c, k, cfg, FALSE, FALSE, cfg)

\* checkVCPUsPinning: nothing unless enabled; refused only then.
PinOK == IF Pinning THEN May("pin") ELSE {TRUE}

AtRest == obj = "shim" /\ op.kind = "idle"

\* Where the shim stops the sandbox (Kill, Delete and waitContainerExit) it
\* goes on to delete it under the same lock, whatever Stop returned.
Stopped == AtRest /\ ret.call = "Stop"

\* The shim may call any other method.
Calling == AtRest /\ ~Stopped

\* The containers the shim starts, stops, kills and deletes one by one; the
\* one that came with the sandbox goes with the sandbox.
PodContainers == Containers \ {Owner}
-----------------------------------------------------------------------------
(* Creating the sandbox *)

Restorable == dsb \notin {"none", "torn"}

\* Mutant: a sandbox without a file keeps the empty state it was made with.
LoadedState_unset == dsb

\* newSandbox restores what the file holds, config included, whatever the
\* request asked for; createSandbox makes any state but running ready.
LoadedState  == IF dsb = "running" THEN "running" ELSE "ready"
LoadedConfig == IF Restorable THEN dcfg ELSE {Owner}

CreateSandbox ==
    /\ obj = "none"
    /\ obj' = "shim"
    /\ sb' = LoadedState
    /\ cfg' = LoadedConfig
    /\ cst' = NoContainers
    /\ op' = Step("init", LoadedConfig)
    /\ ret' = NoReturn
    /\ UNCHANGED <<disk, client>>

\* newContainer: the state of the file, or down; then the client is checked.
newContainer(c) ==
    checkState(c, [Now(c) EXCEPT !.st = IF file[c] = "none" THEN "down" ELSE file[c]])

\* createSandboxFromConfig cleans up after an error with Delete, which refuses
\* a sandbox restored as running; the object is dropped in the end.
AbortCreate(err) ==
    /\ Returns("CreateSandbox", Owner, err)
    /\ op' = IF sb = "running" THEN Step("drop", {}) ELSE Step("abort", Reg')
    /\ UNCHANGED <<obj, sb, cfg>>

\* One round of initContainers; an invalid container is left out of the map.
InitContainer(c) ==
    /\ op.kind = "init" /\ c \in op.todo
    /\ \E n \in newContainer(c), valid \in (IF c \in Infra THEN {TRUE} ELSE May("firmware")) :
         IF ~valid
         THEN /\ Touch(c, [n EXCEPT !.st = "absent"])
              /\ AbortCreate("fail")
         ELSE \E k \in create(c, n) :
                IF k.err = "nil"
                THEN /\ Touch(c, k)
                     /\ op' = [op EXCEPT !.todo = @ \ {c}]
                     /\ UNCHANGED <<obj, sb, cfg, ret>>
                ELSE /\ Touch(c, [k EXCEPT !.st = "absent"])
                     /\ AbortCreate(k.err)

\* Marking the containers without a client down, and storing the sandbox.
RefreshAll(refresh, done) ==
    LET gone == IF refresh THEN Gone(cst, client) ELSE {}
    IN  /\ cst' = [c \in Containers |-> IF c \in gone THEN "down" ELSE cst[c]]
        /\ \E F \in Written(gone) :
              file' = [c \in Containers |-> IF c \in F THEN "down" ELSE file[c]]
        /\ \E again \in (IF gone = {} THEN {FALSE} ELSE May("store")) :
              WriteDisk(done \/ again, sb, cfg)
        /\ UNCHANGED client

\* The tail of initContainers, and the shim's check that the new sandbox has
\* exactly one container: otherwise it drops the object and reports an error.
InitDone ==
    /\ op.kind = "init" /\ op.todo = {}
    /\ \E pinned \in PinOK, done \in May("store") :
         /\ RefreshAll(~Static \/ (Pinning /\ pinned), pinned /\ done)
         /\ IF ~(pinned /\ done) THEN AbortCreate("fail")
            ELSE LET one == Cardinality(Reg) = 1
                 IN  /\ op' = IF one THEN Idle ELSE Step("drop", {})
                     /\ Returns("CreateSandbox", Owner, IF one THEN "nil" ELSE "fail")
                     /\ UNCHANGED <<obj, sb, cfg>>

\* The process no longer holds a Sandbox object.
Forget ==
    /\ obj' = "none"
    /\ sb' = "down"
    /\ cfg' = {}
    /\ cst' = NoContainers
    /\ op' = Idle

Drop ==
    /\ op.kind = "drop"
    /\ Forget
    /\ UNCHANGED <<disk, client, ret>>
-----------------------------------------------------------------------------
(* Deleting the sandbox: also the cleanup of a failed creation *)

\* A container that cannot be deleted is logged and stays in the map.
DeleteEach(c) ==
    /\ op.kind \in {"delete", "abort"} /\ c \in op.todo
    /\ \E k \in delete(c, Now(c)) : Touch(c, k)
    /\ op' = [op EXCEPT !.todo = @ \ {c}]
    /\ UNCHANGED <<obj, sb, cfg, ret>>

\* cleanSandboxStorage; failing to release the network is only a warning.
CleanSandboxStorage(done) ==
    /\ IF done THEN dsb' = "none" /\ dcfg' = {} ELSE UNCHANGED <<dsb, dcfg>>
    /\ UNCHANGED <<file, client>>

Delete ==
    /\ Stopped
    /\ IF sb \in {"ready", "paused", "stopped"}
       THEN op' = Step("delete", Reg) /\ ret' = NoReturn
       ELSE Returns("Delete", Owner, "fail") /\ UNCHANGED op
    /\ UNCHANGED <<mem, disk, client>>

DeleteDone ==
    /\ op.kind = "delete" /\ op.todo = {}
    /\ \E done \in May("store") :
         /\ CleanSandboxStorage(done)
         /\ Returns("Delete", Owner, IF done THEN "nil" ELSE "fail")
    /\ op' = Idle
    /\ UNCHANGED mem

AbortDone ==
    /\ op.kind = "abort" /\ op.todo = {}
    /\ \E done \in May("store") : CleanSandboxStorage(done)
    /\ Forget
    /\ UNCHANGED ret

\* After Delete has returned, with or without an error, the shim's Kill and
\* Delete handlers let go of the object; waitContainerExit keeps it.
ReleaseSandbox ==
    /\ Calling
    /\ ret.call = "Delete"
    /\ Forget
    /\ ret' = NoReturn
    /\ UNCHANGED <<disk, client>>
-----------------------------------------------------------------------------
(* Starting and stopping the sandbox *)

Start ==
    /\ Calling
    /\ LET cur == IF sb = "creating" THEN "ready" ELSE sb
       IN  IF cur = "running"
           THEN /\ op' = Step("ensure", Reg)
                /\ ret' = NoReturn
                /\ UNCHANGED sb
           ELSE IF SandboxTransition(cur, "running")
           THEN /\ op' = [Step("start", Reg) EXCEPT !.old = cur]
                /\ ret' = NoReturn
                /\ sb' = "running"
           ELSE /\ Returns("Start", Owner, "fail")
                /\ sb' = cur
                /\ UNCHANGED op
    /\ UNCHANGED <<obj, cfg, cst, disk, client>>

\* Mutant: a container that does not start is skipped.
StartEach_continues(c) ==
    /\ op.kind = "start" /\ c \in op.todo
    /\ \E k \in start(c, Now(c)) : Touch(c, k)
    /\ op' = [op EXCEPT !.todo = @ \ {c}]
    /\ UNCHANGED <<obj, sb, cfg, ret>>

\* The first container that does not start ends the loop and puts the old
\* sandbox state back, in memory only.
StartEach(c) ==
    /\ op.kind = "start" /\ c \in op.todo
    /\ \E k \in start(c, Now(c)) :
         /\ Touch(c, k)
         /\ IF k.err = "nil"
            THEN op' = [op EXCEPT !.todo = @ \ {c}] /\ UNCHANGED <<sb, ret>>
            ELSE op' = Idle /\ sb' = op.old /\ Returns("Start", Owner, k.err)
    /\ UNCHANGED <<obj, cfg>>

\* A sandbox already running starts the containers that are not.
EnsureEach(c) ==
    /\ op.kind = "ensure" /\ c \in op.todo
    /\ \E j \in checkState(c, Now(c)) :
         \E k \in (IF j.st = "running" THEN {j} ELSE start(c, j)) :
           /\ Touch(c, k)
           /\ IF k.err = "nil"
              THEN op' = [op EXCEPT !.todo = @ \ {c}] /\ UNCHANGED ret
              ELSE op' = Idle /\ Returns("Start", Owner, k.err)
    /\ UNCHANGED <<obj, sb, cfg>>

\* Mutant: the running sandbox is not stored.
StartDone_unsaved ==
    /\ op.kind \in {"start", "ensure"} /\ op.todo = {}
    /\ Returns("Start", Owner, "nil")
    /\ op' = Idle
    /\ UNCHANGED <<mem, disk, client>>

\* A failure to store here does not roll back.
StartDone ==
    /\ op.kind \in {"start", "ensure"} /\ op.todo = {}
    /\ \E done \in May("store") :
         /\ WriteDisk(done, sb, cfg)
         /\ Returns("Start", Owner, IF done THEN "nil" ELSE "fail")
    /\ op' = Idle
    /\ UNCHANGED <<mem, file, client>>

\* The shim always forces the stop; CleanupSandbox has the other one.
Stop ==
    /\ Calling
    /\ IF sb # "stopped" /\ SandboxTransition(sb, "stopped")
       THEN op' = Step("stop", Reg) /\ ret' = NoReturn
       ELSE Returns("Stop", Owner, IF sb = "stopped" THEN "nil" ELSE "fail") /\ UNCHANGED op
    /\ UNCHANGED <<mem, disk, client>>

\* Mutant: a forced stop goes on past a container it cannot stop.
StopEach_ignoresError(c) ==
    /\ op.kind = "stop" /\ c \in op.todo
    /\ \E k \in stop(c, Now(c), TRUE) : Touch(c, k)
    /\ op' = [op EXCEPT !.todo = @ \ {c}]
    /\ UNCHANGED <<obj, sb, cfg, ret>>

\* Although it is forced, a container that cannot be stopped ends it.
StopEach(c) ==
    /\ op.kind = "stop" /\ c \in op.todo
    /\ \E k \in stop(c, Now(c), TRUE) :
         /\ Touch(c, k)
         /\ IF k.err = "nil"
            THEN op' = [op EXCEPT !.todo = @ \ {c}] /\ UNCHANGED ret
            ELSE op' = Idle /\ Returns("Stop", Owner, k.err)
    /\ UNCHANGED <<obj, sb, cfg>>

\* stopClients walks over the containers again.
StopClients ==
    /\ op.kind = "stop" /\ op.todo = {}
    /\ op' = [op EXCEPT !.kind = "stopClients", !.todo = Reg]
    /\ UNCHANGED <<mem, disk, client, ret>>

\* Mutant: a container that cannot be stopped is tried again.
StopClientsEach_retries(c) ==
    /\ op.kind = "stopClients" /\ c \in op.todo
    /\ \E k \in stop(c, Now(c), TRUE) :
         /\ Touch(c, k)
         /\ op' = [op EXCEPT !.todo = IF k.err = "nil" THEN @ \ {c} ELSE @]
    /\ UNCHANGED <<obj, sb, cfg, ret>>

\* It ends at the first container it cannot stop, and Stop goes on.
StopClientsEach(c) ==
    /\ op.kind = "stopClients" /\ c \in op.todo
    /\ \E k \in stop(c, Now(c), TRUE) :
         /\ Touch(c, k)
         /\ op' = [op EXCEPT !.todo = IF k.err = "nil" THEN @ \ {c} ELSE {}]
    /\ UNCHANGED <<obj, sb, cfg, ret>>

\* Failing to release the network is ignored.
StopDone ==
    /\ op.kind = "stopClients" /\ op.todo = {}
    /\ sb' = "stopped"
    /\ \E done \in May("store") :
         /\ WriteDisk(done, "stopped", cfg)
         /\ Returns("Stop", Owner, IF done THEN "nil" ELSE "fail")
    /\ op' = Idle
    /\ UNCHANGED <<obj, cfg, cst, file, client>>
-----------------------------------------------------------------------------
(* Operations on one container.  For an id that is not in s.containers they *)
(* return ContainerNotFound, and CreateContainer AlreadyExists for one that *)
(* is, and change nothing.                                                  *)

\* The config is entered first, so every store below writes it.  It stays
\* after an invalid container, whose error the deferred cleanup does not see;
\* after another error it is removed, in memory only.
CreateFailed(c, k, refresh, kept, err) ==
    /\ Apply(c, [k EXCEPT !.st = "absent"], cfg \cup {c}, refresh, FALSE, cfg \cup {c})
    /\ cfg' = IF kept THEN cfg \cup {c} ELSE cfg \ {c}
    /\ Returns("CreateContainer", c, err)

\* When pinning or the last store fails, the new container is stopped and
\* taken out of the map again.
CreateContainer(c) ==
    /\ Calling
    /\ c \notin Reg
    /\ \E n \in newContainer(c), valid \in (IF c \in Infra THEN {TRUE} ELSE May("firmware")) :
         IF ~valid THEN CreateFailed(c, n, FALSE, TRUE, "fail")
         ELSE \E k \in create(c, n) :
              IF k.err # "nil" THEN CreateFailed(c, k, FALSE, FALSE, k.err)
              ELSE \E pinned \in PinOK, done \in May("store") :
                   IF pinned /\ done
                   THEN /\ Apply(c, k, cfg \cup {c}, Pinning, TRUE, cfg \cup {c})
                        /\ cfg' = cfg \cup {c}
                        /\ Returns("CreateContainer", c, "nil")
                   ELSE \E h \in stop(c, k, TRUE) :
                          CreateFailed(c, h, Pinning /\ pinned, FALSE, "fail")
    /\ UNCHANGED <<obj, sb, op>>

\* An operation on container c that ends in one of S.  After a success the
\* sandbox is stored, and with repin pinned.
Operate(call, c, S, repin) ==
    /\ Calling
    /\ c \in Reg
    /\ \E k \in S :
         IF k.err # "nil"
         THEN Touch(c, k) /\ Returns(call, c, k.err)
         ELSE \E done \in May("store") :
              \E pinned \in (IF done /\ repin THEN PinOK ELSE {TRUE}) :
                /\ Apply(c, k, cfg, done /\ repin /\ Pinning /\ pinned, done, cfg)
                /\ Returns(call, c, IF done /\ pinned THEN "nil" ELSE "fail")
    /\ UNCHANGED <<obj, sb, cfg, op>>

StartContainer(c) == Operate("StartContainer", c, start(c, Now(c)), TRUE)
StopContainer(c, force) == Operate("StopContainer", c, stop(c, Now(c), force), FALSE)
PauseContainer(c) == Operate("PauseContainer", c, pause(c, Now(c)), FALSE)
ResumeContainer(c) == Operate("ResumeContainer", c, resume(c, Now(c), sb), FALSE)

\* An operation that ends without storing the sandbox itself.
Probe(call, c, S) ==
    /\ Calling
    /\ c \in Reg
    /\ \E k \in S : Touch(c, k) /\ Returns(call, c, k.err)
    /\ UNCHANGED <<obj, sb, cfg, op>>

KillContainer(c) == Probe("KillContainer", c, kill(c, Now(c), sb))
StatusContainer(c) == Probe("StatusContainer", c, ensureClientPresence(c, Now(c)))

WinResize(c) ==
    /\ sb = "running"
    /\ Probe("WinResize", c,
             {IF k.st \in {"ready", "running"} THEN k ELSE Fail(k) : k \in checkState(c, Now(c))})

\* Best effort: the errors of the update, of pinning and of storing are
\* ignored.  changed: the request changed a resource of a live container.
UpdateContainer(c) ==
    /\ Calling
    /\ c \in Reg
    /\ ~Static
    /\ LET checked == IF c \in Infra \/ sb # "running" THEN {Now(c)} ELSE checkState(c, Now(c))
           live(k) == c \notin Infra /\ sb = "running" /\ k.st \in {"ready", "running"}
       IN  \E k \in checked, pinned \in PinOK, done \in May("store") :
           \E changed \in (IF live(k) THEN BOOLEAN ELSE {FALSE}) :
             Apply(c, k, cfg, changed \/ (Pinning /\ pinned), done, cfg)
    /\ Returns("UpdateContainer", c, "nil")
    /\ UNCHANGED <<obj, sb, cfg, op>>

\* Mutant: the config goes first, whatever becomes of the container.
RemoveFromSandbox_configFirst(c, err) ==
    \E k \in delete(c, Now(c)), done \in May("store") :
       /\ Apply(c, k, cfg \ {c}, ~Static, done, cfg \ {c})
       /\ cfg' = cfg \ {c}
       /\ err = IF done THEN k.err ELSE "fail"

\* Once the container is gone from the map its config follows, the totals are
\* recomputed and the sandbox is stored again, unless pinning fails first.
RemoveFromSandbox(c, err) ==
    \E k \in delete(c, Now(c)) :
       IF k.err # "nil"
       THEN /\ Touch(c, k)
            /\ cfg' = cfg
            /\ err = k.err
       ELSE \E pinned \in PinOK, done \in May("store") :
            /\ Apply(c, k, cfg, ~Static \/ (Pinning /\ pinned), pinned /\ done, cfg \ {c})
            /\ cfg' = cfg \ {c}
            /\ err = IF pinned /\ done THEN "nil" ELSE "fail"

DeleteContainer(c) ==
    /\ Calling
    /\ c \in Reg
    /\ \E err \in Errors : RemoveFromSandbox(c, err) /\ Returns("DeleteContainer", c, err)
    /\ UNCHANGED <<obj, sb, op>>
-----------------------------------------------------------------------------
(* The cleanup process that containerd runs once the shim is gone *)

CleanupReturns(err) ==
    /\ Returns("CleanupContainer", op.id, err)
    /\ op' = [op EXCEPT !.kind = "drop"]

\* loadSandbox: a missing file is fine unless the client is still there.
\* Loading marks the containers without a client down, which stores the
\* sandbox again.
CleanupContainer(c) ==
    /\ obj = "none"
    /\ IF ~Restorable
       THEN /\ Returns("CleanupContainer", c,
                       IF dsb = "none" /\ client[c] = "none" THEN "nil" ELSE "fail")
            /\ UNCHANGED <<mem, disk, client, op>>
       ELSE LET visible(x) == c = Owner /\ file[x] # "none"
                restored == [x \in Containers |-> IF x \notin dcfg THEN "absent"
                                                 ELSE IF visible(x) THEN file[x] ELSE "down"]
                gone == Gone(restored, client)
            IN  /\ obj' = "cleanup"
                /\ sb' = LoadedState
                /\ cfg' = dcfg
                /\ cst' = [x \in Containers |-> IF x \in gone THEN "down" ELSE restored[x]]
                /\ \E F \in Written(gone) :
                      file' = [x \in Containers |-> IF x \in F THEN "down" ELSE file[x]]
                /\ \E again \in (IF gone = {} THEN {FALSE} ELSE May("store")) :
                      WriteDisk(again, LoadedState, dcfg)
                /\ op' = [Step("cleanStop", {}) EXCEPT !.id = c]
                /\ ret' = NoReturn
                /\ UNCHANGED client

\* A container that is not found is as good as stopped.
CleanupStop ==
    /\ op.kind = "cleanStop"
    /\ \/ /\ op.id \notin Reg
          /\ op' = [op EXCEPT !.kind = "cleanDelete"]
          /\ UNCHANGED <<cst, disk, client, ret>>
       \/ /\ op.id \in Reg
          /\ \E k \in stop(op.id, Now(op.id), FALSE), done \in May("store") :
               /\ Apply(op.id, k, cfg, FALSE, k.err = "nil" /\ done, cfg)
               /\ IF k.err = "notfound" \/ (k.err = "nil" /\ done)
                  THEN op' = [op EXCEPT !.kind = "cleanDelete"] /\ UNCHANGED ret
                  ELSE CleanupReturns("fail")
    /\ UNCHANGED <<obj, sb, cfg>>

\* Mutant: no error of the delete is looked at.
CleanupDelete_tolerant ==
    /\ op.kind = "cleanDelete"
    /\ \E err \in Errors :
         /\ IF op.id \in Reg
            THEN RemoveFromSandbox(op.id, err)
            ELSE err = "notfound" /\ UNCHANGED <<cst, cfg, disk, client>>
         /\ IF Reg' # {} THEN CleanupReturns("nil")
            ELSE op' = [op EXCEPT !.kind = "cleanSandbox"] /\ UNCHANGED ret
    /\ UNCHANGED <<obj, sb>>

\* The sandbox goes too when this was the last container in the map.
CleanupDelete ==
    /\ op.kind = "cleanDelete"
    /\ \E err \in Errors :
         /\ IF op.id \in Reg
            THEN RemoveFromSandbox(op.id, err)
            ELSE err = "notfound" /\ UNCHANGED <<cst, cfg, disk, client>>
         /\ IF err = "fail" THEN CleanupReturns("fail")
            ELSE IF Reg' # {} THEN CleanupReturns("nil")
            ELSE op' = [op EXCEPT !.kind = "cleanSandbox"] /\ UNCHANGED ret
    /\ UNCHANGED <<obj, sb>>

\* Stop and Delete of a sandbox without containers.
CleanupSandbox ==
    /\ op.kind = "cleanSandbox"
    /\ sb' = "stopped"
    /\ \E released \in May("net"), stored \in May("store"), cleaned \in May("store") :
         /\ IF ~(released /\ stored) THEN UNCHANGED <<dsb, dcfg>>
            ELSE IF cleaned THEN dsb' = "none" /\ dcfg' = {}
            ELSE WriteDisk(TRUE, "stopped", cfg)
         /\ CleanupReturns(IF released /\ stored /\ cleaned THEN "nil" ELSE "fail")
    /\ UNCHANGED <<obj, cfg, cst, file, client>>
-----------------------------------------------------------------------------
(* The environment *)

\* The process dies, possibly while it rewrites the sandbox's file.
Crash ==
    /\ obj # "none"
    /\ Forget
    /\ ret' = NoReturn
    /\ \/ UNCHANGED <<dsb, dcfg>>
       \/ "tear" \in Faults /\ dsb' = "torn" /\ dcfg' = {}
    /\ UNCHANGED <<file, client>>

\* containerd removes the bundle, and the state files in it.
RemoveBundle ==
    /\ obj = "none"
    /\ file' = [c \in Containers |-> "none"]
    /\ UNCHANGED <<mem, dsb, dcfg, client, op, ret>>

\* A client is registered with `mica create`, before its container exists: an
\* id is not used twice in the life of a bundle.
ClientAppears(c, status) ==
    /\ c \notin Infra /\ client[c] = "none"
    /\ \/ "recreate" \in Faults
       \/ cst[c] = "absent" /\ file[c] = "none"
    /\ client' = [client EXCEPT ![c] = status]
    /\ UNCHANGED <<mem, disk, op, ret>>

\* The RTOS dies or is removed with `mica rm`.
ClientVanishes(c) ==
    /\ client[c] # "none"
    /\ client' = [client EXCEPT ![c] = "none"]
    /\ UNCHANGED <<mem, disk, op, ret>>
-----------------------------------------------------------------------------
SandboxStep ==
    \/ CreateSandbox \/ InitDone \/ Drop
    \/ Delete \/ DeleteDone \/ AbortDone \/ ReleaseSandbox
    \/ Start \/ StartDone
    \/ Stop \/ StopClients \/ StopDone

ContainerStep(c) ==
    \/ InitContainer(c) \/ DeleteEach(c)
    \/ StartEach(c) \/ EnsureEach(c) \/ StopEach(c) \/ StopClientsEach(c)
    \/ PauseContainer(c) \/ ResumeContainer(c)
    \/ StatusContainer(c) \/ WinResize(c) \/ UpdateContainer(c)

PodContainerStep(c) ==
    \/ CreateContainer(c) \/ DeleteContainer(c)
    \/ StartContainer(c) \/ KillContainer(c)
    \/ \E force \in BOOLEAN : StopContainer(c, force)

CleanupStep ==
    \/ \E c \in Containers : CleanupContainer(c)
    \/ CleanupStop \/ CleanupDelete \/ CleanupSandbox

Environment ==
    \/ Crash \/ RemoveBundle
    \/ \E c \in Containers :
          ClientVanishes(c) \/ \E status \in {"idle", "running"} : ClientAppears(c, status)

Next ==
    \/ SandboxStep
    \/ \E c \in Containers : ContainerStep(c)
    \/ \E c \in PodContainers : PodContainerStep(c)
    \/ CleanupStep
    \/ Environment

Spec == Init /\ [][Next]_vars

\* An operation in progress goes on: its loops are over finite maps and every
\* call to micad returns, at the latest when the read deadline of the socket
\* passes.
InProgress ==
    /\ op.kind # "idle"
    /\ SandboxStep \/ (\E c \in Containers : ContainerStep(c)) \/ CleanupStep

FairSpec == Spec /\ WF_vars(InProgress)
-----------------------------------------------------------------------------
(* Properties *)

\* Between two calls, with a sandbox file that can be read.
Settled == AtRest /\ Restorable

Matches(s, cl) ==
    /\ s = "stopped" => cl = "none"
    /\ s = "running" => cl \in {"running", "none"}
    /\ s = "paused"  => cl \in {"idle", "none"}

\* Over every path of Start, Stop, Kill, Pause, Resume, Delete, crash and
\* restart, the state recorded for a workload agrees with its client: a stopped
\* one has no client left at micad, a running one's client is not idle and a
\* paused one's is not running.  A client that died shows only at the next
\* checkState, so "none" is possible for all.  This needs micad to carry out
\* and answer every command, disks that work, and ids that are not used anew.
StateMatchesClient == \A c \in Containers \ Infra : Matches(cst[c], client[c])

\* Sandbox.Start returns nil only when every container in the map is recorded
\* as running, in both of its loops, although each may fail part of the way.
StartCompletes ==
    [][(op.kind \in {"start", "ensure"} /\ ret'.call = "Start" /\ ret'.err = "nil")
          => \A c \in Reg : cst'[c] = "running"]_vars

\* When Sandbox.Stop turns the sandbox to stopped, no workload
\* in the map has a client left, even when micad refused commands on the way
\* and the forced stop swallowed the error of stopClients, unless somebody
\* registers an id anew at micad behind micrun's back ("recreate").
StopLeavesNoClient ==
    [][(op.kind = "stopClients" /\ sb' = "stopped")
         => \A c \in Reg \ Infra : client'[c] = "none"]_vars

\* A workload leaves the map of a live sandbox (container.delete: from
\* DeleteContainer, Sandbox.Delete, or a cleanup) only together with its
\* client, so no RTOS keeps running that nothing accounts for.  A container
\* that CreateContainer itself gives up has not been in the map before.
DeleteReleasesClient ==
    [][\A c \in Containers \ Infra :
         (/\ cst[c] # "absent" /\ cst'[c] = "absent"
          /\ obj' = obj /\ obj # "none")
         => client'[c] = "none"]_vars

\* A cleanup that gets past the DeleteContainer of a container it had loaded
\* leaves no client of that container, whether it stopped it, found it already
\* gone or lost micad's answer.
CleanupReleasesClient ==
    [][(/\ op.kind = "cleanDelete" /\ op.id \in Reg
        /\ op'.kind \in {"drop", "cleanSandbox"} /\ ret'.err = "nil")
         => client'[op.id] = "none"]_vars

\* The state on record for container c: that of the map, or what its file holds for
\* the process that restores it.
Recorded(c) == IF cst[c] # "absent" THEN cst[c]
               ELSE IF file[c] = "none" THEN "down" ELSE file[c]

\* Every change of a state on record is one of the table in states.go, or the
\* discovery that the client is gone, although setContainerState consults no table
\* and force skips the check in doStop; and a process that goes on takes no running
\* container out of its map.  One change is excepted, because the table forbids it:
\* a container that is created from its file becomes ready whatever the file says
\* (container.go:456-468), see RestoredLegally.
TransitionsLegal ==
    [][\A c \in Containers :
         /\ cst'[c] \notin {"absent", "down", Recorded(c)}
              => \/ transition(Recorded(c), cst'[c])
                 \/ cst[c] = "absent" /\ cst'[c] = "ready"
         /\ (cst[c] \in {"running", "creating"} /\ obj' = obj)
              => cst'[c] # "absent"]_vars

\* "ValidTransition checks if a state transition is valid" (states.go:106), by the
\* table of lines 68-100: so it would be for a container that enters the map from its
\* file, which may say running, paused or stopped.
RestoredLegally ==
    [][\A c \in Containers :
         (cst[c] = "absent" /\ cst'[c] \notin {"absent", "down", Recorded(c)})
         => transition(Recorded(c), cst'[c])]_vars

\* Between two calls the sandbox's file holds the sandbox's state, or still
\* says running after a start that was rolled back in memory only: a restart
\* never takes a running sandbox for one that is not.
DiskNeverUnderstates == Settled => dsb \in {sb, "running"}

\* Between two calls every container of the map could be recovered: its config
\* is in the sandbox's file and its own file holds its state, so a restart in
\* Owner's bundle finds what the crash interrupted.
Recoverable == Settled => \A c \in Reg : c \in dcfg /\ file[c] = cst[c]

\* Every container in the map has its config in s.config.ContainerConfigs, at
\* every step of every failure path: StoreSandbox writes the configs and
\* nothing else of the containers, so one without is lost to a restart.
RegisteredIsConfigured == Reg \subseteq cfg

\* No operation hangs: each comes to an end, with clients coming and going and
\* crashes in between.
OperationsEnd == (op.kind # "idle") ~> (op.kind = "idle")
=============================================================================
