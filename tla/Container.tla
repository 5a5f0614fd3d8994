----------------------------- MODULE Container ------------------------------
(***************************************************************************)
(* The operations of one container (pkg/micantainer/container.go) on the   *)
(* three things it owns: its state in memory, the state file in the        *)
(* bundle, and its client at the mica daemon.                              *)
(*                                                                         *)
(* An operation takes the container's record and yields the SET of records *)
(* it can end in: micad may refuse a command or its answer may be lost,    *)
(* and a write to disk may fail.  A record has the fields                  *)
(*   st      the state in memory, "absent" once out of sandbox.containers  *)
(*   file    the state in the bundle's state.json, or "none"               *)
(*   cl      the client at micad: "none", "idle" or "running"              *)
(*   stored  whether StoreSandbox has rewritten the sandbox's own file     *)
(*   err     the error the operation returns                               *)
(***************************************************************************)
EXTENDS States

CONSTANTS Containers,  \* container ids
          Infra,       \* the ids with IsInfra: no micad client behind them
          Faults       \* the faults this instance admits

FaultKinds ==
    { "micad",     \* a mica command fails, is lost, or loses its answer
      "store",     \* a write or a removal under /run or in the bundle fails
      "tear",      \* a crash leaves a half-written sandbox state file
      "net",       \* the network namespace cannot be released
      "pin",       \* vCPU pinning is refused
      "firmware",  \* the image of a container is missing or unknown
      "recreate" } \* a client is registered anew behind micrun's back

ASSUME ContainerAssumption ==
    /\ Infra \subseteq Containers
    /\ Faults \subseteq FaultKinds

ClientStatus == {"none", "idle", "running"}
Errors == {"nil", "notfound", "fail"}

ContainerRecord ==
    [st : StateString \cup {"absent"}, file : StateString \cup {"none"},
     cl : ClientStatus, stored : BOOLEAN, err : Errors]

Ok(S)  == {k \in S : k.err = "nil"}
Bad(S) == {k \in S : k.err # "nil"}

Fail(k)       == [k EXCEPT !.err = "fail"]
NotFound(k)   == [k EXCEPT !.err = "notfound"]
ClearError(k) == [k EXCEPT !.err = "nil"]

\* The results a fallible step may have.
May(fault) == IF fault \in Faults THEN BOOLEAN ELSE {TRUE}
-----------------------------------------------------------------------------
(* Persistence *)

\* SaveState keeps two copies and RestoreState finds only the one in the
\* bundle, so a save that "succeeds" may leave that copy as it was.  When both
\* writes fail StoreSandbox is not reached; when it fails itself the state in
\* memory is already the new one.
Saved(k, s, written, done) ==
    [k EXCEPT !.st = s,
              !.file = IF written THEN s ELSE @,
              !.stored = @ \/ done,
              !.err = IF done THEN "nil" ELSE "fail"]

setContainerState(k, s) ==
    {Saved(k, s, written, done) : written \in May("store"), done \in May("store")}

\* The StoreSandbox call that ends an operation.
StoreSandbox(k) ==
    {IF done THEN [k EXCEPT !.stored = TRUE] ELSE Fail(k) : done \in May("store")}
-----------------------------------------------------------------------------
(* The mica daemon, as libmica drives it *)

ClientNotExist(k) == k.cl = "none"

\* A command that moves the client to cl.  A failed one may have been refused,
\* may have been carried out with its answer lost, or the client has died.
Command(k, cl) ==
    {[k EXCEPT !.cl = cl]}
    \cup (IF "micad" \in Faults
          THEN {Fail([k EXCEPT !.cl = x]) : x \in {k.cl, cl, "none"}}
          ELSE {})

libmicaStart(k)  == Command(k, "running")
libmicaPause(k)  == Command(k, "idle")
libmicaCreate(k) == Command(k, k.cl)
\* Both libmica.Stop and libmica.Remove send "rm", and neither does anything
\* for a client that is gone.
libmicaRemove(k) == IF ClientNotExist(k) THEN {k} ELSE Command(k, "none")
-----------------------------------------------------------------------------
(* Presence of the client *)

\* Mutant: the demotion stays in memory.
checkState_unsaved(c, k) ==
    {IF c \in Infra \/ ~ClientNotExist(k) THEN k ELSE [k EXCEPT !.st = "down"]}

\* A workload whose client is gone is marked down; failing to save that is
\* only logged.  The state checkState returns is the st of the result.
checkState(c, k) ==
    IF c \in Infra \/ ~ClientNotExist(k) \/ k.st = "down"
    THEN {k}
    ELSE {ClearError(j) : j \in setContainerState(k, "down")}

\* createMicaClientConf validates the firmware before micad is asked.
registerClient(k) ==
    LET asked == libmicaCreate(k)
    IN  Bad(asked)
        \cup (IF "firmware" \in Faults THEN {Fail(k)} ELSE {})
        \cup UNION {setContainerState(j, "ready") : j \in Ok(asked)}

\* A container that is down is registered only while its client exists; the
\* infra container has no client and is never registered.
ensureClientPresence(c, k) ==
    UNION {IF j.st # "down" THEN {j}
           ELSE IF c \notin Infra /\ ~ClientNotExist(j)
                THEN Bad(registerClient(j))
                     \cup {IF i.st = "down" THEN NotFound(i) ELSE i :
                              i \in UNION {checkState(c, h) : h \in Ok(registerClient(j))}}
                ELSE {NotFound(j)} :
           j \in checkState(c, k)}
-----------------------------------------------------------------------------
(* The operations of a container *)

create(c, k) ==
    IF c \in Infra
    THEN setContainerState(k, "ready")
    ELSE LET present == ensureClientPresence(c, k)
         IN  Bad(present) \cup UNION {setContainerState(j, "ready") : j \in Ok(present)}

\* Mutant: the container counts as stopped without `rm` reaching micad.
doStop_keepsClient(c, k, force) ==
    {IF force \/ c \in Infra \/ transition(j.st, "stopped") THEN j ELSE Fail(j) :
        j \in checkState(c, k)}

\* The infra helper process is never started, so an infra container has
\* nothing to signal.
doStop(c, k, force) ==
    IF c \in Infra THEN {k}
    ELSE UNION {IF j.st = "stopped" THEN {j}
                ELSE IF ~transition(j.st, "stopped") /\ ~force THEN {Fail(j)}
                ELSE libmicaRemove(j) :
                j \in checkState(c, k)}

stop(c, k, force) ==
    LET present == ensureClientPresence(c, k)
        stopped == UNION {doStop(c, j, force) : j \in Ok(present)}
    IN  Bad(present) \cup Bad(stopped)
        \cup UNION {setContainerState(j, "stopped") : j \in Ok(stopped)}

\* setupMemory, the last part of startClient, fails with the client running.
startClient(c, k) ==
    LET present == ensureClientPresence(c, k)
        started == UNION {libmicaStart(j) : j \in Ok(present)}
    IN  Bad(present) \cup started
        \cup (IF "micad" \in Faults THEN {Fail(j) : j \in Ok(started)} ELSE {})

\* A client that could not be started is stopped, and the container is then
\* recorded as running all the same.
startWorkload(c, k) ==
    LET started == startClient(c, k)
        undone  == {ClearError(j) : j \in
                       UNION {stop(c, ClearError(h), TRUE) : h \in Bad(started)}}
    IN  UNION {setContainerState(j, "running") : j \in Ok(started) \cup undone}

Startable(k) == k.st \in {"ready", "stopped"} /\ transition(k.st, "running")

start(c, k) ==
    LET present == ensureClientPresence(c, k)
    IN  Bad(present)
        \cup UNION {IF c \in Infra /\ j.st = "running" THEN {j}
                    ELSE IF ~Startable(j) THEN {Fail(j)}
                    ELSE IF c \in Infra THEN setContainerState(j, "running")
                    ELSE startWorkload(c, j) :
                    j \in Ok(present)}

\* KillContainer and kill: nothing to do without a client, which is always so
\* for an infra container.
kill(c, k, sandboxState) ==
    IF ClientNotExist(k) THEN {k}
    ELSE IF sandboxState \notin {"ready", "running"} THEN {Fail(k)}
    ELSE LET present == ensureClientPresence(c, k)
             stopped == UNION {IF ClientNotExist(j) THEN {j} ELSE doStop(c, j, TRUE) :
                               j \in Ok(present)}
         IN  Bad(present) \cup Bad(stopped)
             \cup UNION {setContainerState(j, "stopped") : j \in Ok(stopped)}

\* Mutant: a failed `rm` is only logged.
delete_ignoresRefusal(c, k) ==
    LET present == ensureClientPresence(c, k)
        removed == UNION {IF c \in Infra THEN {j} ELSE libmicaRemove(j) :
                          j \in {i \in Ok(present) : i.st \in {"ready", "paused", "stopped"}}}
    IN  Bad(present)
        \cup UNION {StoreSandbox([ClearError(j) EXCEPT !.st = "absent"]) : j \in removed}

\* Removing the cache directory, the last step, touches nothing modelled here.
delete(c, k) ==
    LET present == ensureClientPresence(c, k)
        removed == UNION {IF j.st \notin {"ready", "paused", "stopped"} THEN {Fail(j)}
                          ELSE IF c \in Infra THEN {j} ELSE libmicaRemove(j) :
                          j \in Ok(present)}
    IN  Bad(present) \cup Bad(removed)
        \cup UNION {StoreSandbox([j EXCEPT !.st = "absent"]) : j \in Ok(removed)}

\* Mutant: a container that is not running may be paused.
pause_unguarded(c, k) ==
    LET present == ensureClientPresence(c, k)
        paused  == UNION {IF c \in Infra THEN {j} ELSE libmicaPause(j) : j \in Ok(present)}
    IN  Bad(present) \cup Bad(paused)
        \cup UNION {setContainerState(j, "paused") : j \in Ok(paused)}

pause(c, k) ==
    LET present == ensureClientPresence(c, k)
        paused  == UNION {IF j.st # "running" THEN {Fail(j)}
                          ELSE IF c \in Infra THEN {j} ELSE libmicaPause(j) :
                          j \in Ok(present)}
    IN  Bad(present) \cup Bad(paused)
        \cup UNION {setContainerState(j, "paused") : j \in Ok(paused)}

\* Resuming restarts the client.  In a stopped sandbox a container in any
\* state may be resumed.
resume(c, k, sandboxState) ==
    LET present == ensureClientPresence(c, k)
        resumed == UNION {IF j.st # "paused" /\ sandboxState # "stopped" THEN {Fail(j)}
                          ELSE IF c \in Infra THEN {j} ELSE libmicaStart(j) :
                          j \in Ok(present)}
    IN  Bad(present) \cup Bad(resumed)
        \cup UNION {setContainerState(j, "running") : j \in Ok(resumed)}
=============================================================================
