-------------------------- MODULE Container_proofs --------------------------
(***************************************************************************)
(* What the operations of Container do to a record, for every record and   *)
(* every set of faults: the lemmas the proofs about Sandbox rest on.       *)
(***************************************************************************)
EXTENDS Container, TLAPS

\* j can come out of an operation on k other than delete: it is a record, and
\* the operation has not taken the container out of the map.
Kept(k, j) == /\ j \in ContainerRecord
              /\ k.st # "absent" => j.st # "absent"

\* Every outcome in S is one that operations on k may have.
AllKept(k, S) == \A j \in S : Kept(k, j)

\* Operations can be chained.
LEMMA KeptTrans ==
    ASSUME NEW h, NEW k, NEW j, Kept(h, k), Kept(k, j)
    PROVE  Kept(h, j)
BY DEF Kept

\* Doing nothing keeps a record.
LEMMA KeptRefl ==
    ASSUME NEW k \in ContainerRecord
    PROVE  Kept(k, k)
BY DEF Kept

\* Setting the error of a record.
LEMMA ErrorKept ==
    ASSUME NEW h, NEW k, Kept(h, k)
    PROVE  Kept(h, Fail(k)) /\ Kept(h, NotFound(k)) /\ Kept(h, ClearError(k))
BY DEF Kept, Fail, NotFound, ClearError, ContainerRecord, Errors

\* setContainerState moves to a state and stores it.
LEMMA SetStateKept ==
    ASSUME NEW k \in ContainerRecord, NEW s \in StateString
    PROVE  AllKept(k, setContainerState(k, s))
<1> SUFFICES ASSUME NEW written \in May("store"), NEW done \in May("store")
             PROVE  Kept(k, Saved(k, s, written, done))
    BY DEF AllKept, setContainerState
<1>1. (k.stored \/ done) \in BOOLEAN
    OBVIOUS
<1> QED BY <1>1 DEF Saved, Kept, ContainerRecord, StateString, Errors

\* StoreSandbox changes the file and the error only.
LEMMA StoreSandboxKept ==
    ASSUME NEW k \in ContainerRecord
    PROVE  AllKept(k, StoreSandbox(k))
BY DEF AllKept, StoreSandbox, Kept, Fail, ContainerRecord, Errors

\* A command to micad changes the client and the error only.
LEMMA CommandKept ==
    ASSUME NEW k \in ContainerRecord, NEW cl \in ClientStatus
    PROVE  AllKept(k, Command(k, cl))
BY DEF AllKept, Command, Kept, Fail, ContainerRecord, ClientStatus, Errors

\* Removing a client keeps the record, whether micad carries it out or not.
LEMMA RemoveKept ==
    ASSUME NEW k \in ContainerRecord
    PROVE  AllKept(k, libmicaRemove(k))
BY CommandKept, KeptRefl DEF AllKept, libmicaRemove, ClientStatus

\* checkState keeps a record or marks it down.
LEMMA CheckStateKept ==
    ASSUME NEW c, NEW k \in ContainerRecord
    PROVE  AllKept(k, checkState(c, k))
<1>1. AllKept(k, setContainerState(k, "down"))
    BY SetStateKept DEF StateString
<1> QED BY <1>1, KeptRefl, ErrorKept DEF AllKept, checkState

\* registerClient creates a client and makes the container ready, or fails.
LEMMA RegisterKept ==
    ASSUME NEW k \in ContainerRecord
    PROVE  AllKept(k, registerClient(k))
<1>1. AllKept(k, libmicaCreate(k))
    BY CommandKept DEF libmicaCreate, ContainerRecord
<1>2. ASSUME NEW j \in libmicaCreate(k)
      PROVE  AllKept(k, setContainerState(j, "ready"))
    BY <1>1, <1>2, SetStateKept, KeptTrans DEF AllKept, Kept, StateString
<1>3. Kept(k, Fail(k))
    BY KeptRefl, ErrorKept
<1> QED BY <1>1, <1>2, <1>3 DEF AllKept, registerClient, Ok, Bad

\* ensureClientPresence, with its second look after a registration.
LEMMA EnsureKept ==
    ASSUME NEW c, NEW k \in ContainerRecord
    PROVE  AllKept(k, ensureClientPresence(c, k))
<1>1. AllKept(k, checkState(c, k))
    BY CheckStateKept
<1>2. ASSUME NEW j \in checkState(c, k), NEW h \in registerClient(j)
      PROVE  Kept(k, h)
    BY <1>1, <1>2, RegisterKept, KeptTrans DEF AllKept, Kept
<1>3. ASSUME NEW j \in checkState(c, k), NEW h \in registerClient(j),
             NEW i \in checkState(c, h)
      PROVE  Kept(k, i)
    BY <1>2, <1>3, CheckStateKept, KeptTrans DEF AllKept, Kept
<1> SUFFICES ASSUME NEW j \in checkState(c, k),
                    NEW i \in IF j.st # "down" THEN {j}
                              ELSE IF c \notin Infra /\ ~ClientNotExist(j)
                              THEN Bad(registerClient(j))
                                   \cup {IF g.st = "down" THEN NotFound(g) ELSE g :
                                         g \in UNION {checkState(c, h) : h \in Ok(registerClient(j))}}
                              ELSE {NotFound(j)}
             PROVE  Kept(k, i)
    BY Zenon DEF AllKept, ensureClientPresence
<1>4. Kept(k, j) /\ Kept(k, NotFound(j))
    BY <1>1, ErrorKept DEF AllKept
<1>5. CASE i \in Bad(registerClient(j))
    BY <1>2, <1>5 DEF Bad
<1>6. ASSUME NEW g \in UNION {checkState(c, h) : h \in Ok(registerClient(j))}
      PROVE  Kept(k, g) /\ Kept(k, NotFound(g))
    BY <1>3, <1>6, ErrorKept DEF Ok
<1> QED BY <1>4, <1>5, <1>6

\* container.create, for a record that is in the map already.
LEMMA CreateKept ==
    ASSUME NEW c, NEW k \in ContainerRecord
    PROVE  AllKept(k, create(c, k))
<1>1. AllKept(k, setContainerState(k, "ready"))
    BY SetStateKept DEF StateString
<1>2. AllKept(k, ensureClientPresence(c, k))
    BY EnsureKept
<1>3. ASSUME NEW j \in ensureClientPresence(c, k)
      PROVE  AllKept(k, setContainerState(j, "ready"))
    BY <1>2, <1>3, SetStateKept, KeptTrans DEF AllKept, Kept, StateString
<1> QED BY <1>1, <1>2, <1>3 DEF AllKept, create, Ok, Bad

\* doStop removes the client and changes no state.
LEMMA DoStopKept ==
    ASSUME NEW c, NEW k \in ContainerRecord, NEW force \in BOOLEAN
    PROVE  AllKept(k, doStop(c, k, force))
<1>1. AllKept(k, checkState(c, k))
    BY CheckStateKept
<1>2. ASSUME NEW j \in checkState(c, k)
      PROVE  Kept(k, j) /\ Kept(k, Fail(j)) /\ AllKept(k, libmicaRemove(j))
    BY <1>1, <1>2, RemoveKept, KeptTrans, ErrorKept DEF AllKept, Kept
<1> QED BY <1>1, <1>2, KeptRefl DEF AllKept, doStop

\* container.stop on every path, forced or not.
LEMMA StopKept ==
    ASSUME NEW c, NEW k \in ContainerRecord, NEW force \in BOOLEAN
    PROVE  AllKept(k, stop(c, k, force))
<1>1. AllKept(k, ensureClientPresence(c, k))
    BY EnsureKept
<1>2. ASSUME NEW j \in ensureClientPresence(c, k)
      PROVE  AllKept(k, doStop(c, j, force))
    BY <1>1, <1>2, DoStopKept, KeptTrans DEF AllKept, Kept
<1>3. ASSUME NEW j \in ensureClientPresence(c, k), NEW h \in doStop(c, j, force)
      PROVE  AllKept(k, setContainerState(h, "stopped"))
    BY <1>2, <1>3, SetStateKept, KeptTrans DEF AllKept, Kept, StateString
<1> QED BY <1>1, <1>2, <1>3 DEF AllKept, stop, Ok, Bad

\* The start command with what follows a refusal.
LEMMA StartClientKept ==
    ASSUME NEW c, NEW k \in ContainerRecord
    PROVE  AllKept(k, startClient(c, k))
<1>1. AllKept(k, ensureClientPresence(c, k))
    BY EnsureKept
<1>2. ASSUME NEW j \in ensureClientPresence(c, k), NEW h \in libmicaStart(j)
      PROVE  Kept(k, h) /\ Kept(k, Fail(h))
    BY <1>1, <1>2, CommandKept, KeptTrans, ErrorKept
       DEF AllKept, Kept, libmicaStart, ClientStatus
<1> QED BY <1>1, <1>2 DEF AllKept, startClient, Ok, Bad

\* Starting a workload, registration and rollback included.
LEMMA StartWorkloadKept ==
    ASSUME NEW c, NEW k \in ContainerRecord
    PROVE  AllKept(k, startWorkload(c, k))
<1>1. AllKept(k, startClient(c, k))
    BY StartClientKept
<1>2. ASSUME NEW h \in startClient(c, k), NEW j \in stop(c, ClearError(h), TRUE)
      PROVE  Kept(k, ClearError(j))
    <2>1. Kept(k, ClearError(h))
        BY <1>1, ErrorKept DEF AllKept
    <2>2. Kept(k, j)
        BY <2>1, <1>2, StopKept, KeptTrans DEF AllKept, Kept
    <2> QED BY <2>2, ErrorKept
<1> DEFINE undone == {ClearError(j) : j \in
                         UNION {stop(c, ClearError(h), TRUE) : h \in Bad(startClient(c, k))}}
<1>3. ASSUME NEW j \in Ok(startClient(c, k)) \cup undone
      PROVE  Kept(k, j)
    BY <1>1, <1>2, <1>3 DEF AllKept, Ok, Bad
<1>4. ASSUME NEW j \in Ok(startClient(c, k)) \cup undone
      PROVE  AllKept(k, setContainerState(j, "running"))
    BY <1>3, <1>4, SetStateKept, KeptTrans DEF AllKept, Kept, StateString
<1> QED BY <1>4 DEF AllKept, startWorkload

\* container.start, for infra containers and workloads.
LEMMA StartKept ==
    ASSUME NEW c, NEW k \in ContainerRecord
    PROVE  AllKept(k, start(c, k))
<1>1. AllKept(k, ensureClientPresence(c, k))
    BY EnsureKept
<1>2. ASSUME NEW j \in ensureClientPresence(c, k)
      PROVE  /\ Kept(k, j)
             /\ Kept(k, Fail(j))
             /\ AllKept(k, setContainerState(j, "running"))
             /\ AllKept(k, startWorkload(c, j))
    BY <1>1, <1>2, SetStateKept, StartWorkloadKept, KeptTrans, ErrorKept
       DEF AllKept, Kept, StateString
<1> QED BY <1>1, <1>2 DEF AllKept, start, Ok, Bad

\* container.kill, which may leave a state behind but never the map.
LEMMA KillKept ==
    ASSUME NEW c, NEW k \in ContainerRecord, NEW s
    PROVE  AllKept(k, kill(c, k, s))
<1>1. AllKept(k, ensureClientPresence(c, k))
    BY EnsureKept
<1>2. ASSUME NEW j \in ensureClientPresence(c, k)
      PROVE  Kept(k, j) /\ AllKept(k, doStop(c, j, TRUE))
    BY <1>1, <1>2, DoStopKept, KeptTrans DEF AllKept, Kept
<1> DEFINE stopped == UNION {IF ClientNotExist(j) THEN {j} ELSE doStop(c, j, TRUE) :
                                j \in Ok(ensureClientPresence(c, k))}
<1>3. ASSUME NEW h \in stopped
      PROVE  Kept(k, h)
    BY <1>2, <1>3 DEF AllKept, Ok
<1>4. ASSUME NEW h \in stopped
      PROVE  AllKept(k, setContainerState(h, "stopped"))
    BY <1>3, <1>4, SetStateKept, KeptTrans DEF AllKept, Kept, StateString
<1>5. Kept(k, k) /\ Kept(k, Fail(k))
    BY KeptRefl, ErrorKept
<1> QED BY <1>1, <1>3, <1>4, <1>5 DEF AllKept, kill, Ok, Bad

\* container.pause.
LEMMA PauseKept ==
    ASSUME NEW c, NEW k \in ContainerRecord
    PROVE  AllKept(k, pause(c, k))
<1>1. AllKept(k, ensureClientPresence(c, k))
    BY EnsureKept
<1>2. ASSUME NEW j \in ensureClientPresence(c, k)
      PROVE  Kept(k, j) /\ Kept(k, Fail(j)) /\ AllKept(k, libmicaPause(j))
    BY <1>1, <1>2, CommandKept, KeptTrans, ErrorKept
       DEF AllKept, Kept, libmicaPause, ClientStatus
<1> DEFINE paused == UNION {IF j.st # "running" THEN {Fail(j)}
                            ELSE IF c \in Infra THEN {j} ELSE libmicaPause(j) :
                               j \in Ok(ensureClientPresence(c, k))}
<1>3. ASSUME NEW h \in paused
      PROVE  Kept(k, h)
    BY <1>2, <1>3 DEF AllKept, Ok
<1>4. ASSUME NEW h \in paused
      PROVE  AllKept(k, setContainerState(h, "paused"))
    BY <1>3, <1>4, SetStateKept, KeptTrans DEF AllKept, Kept, StateString
<1> QED BY <1>1, <1>3, <1>4 DEF AllKept, pause, Ok, Bad

\* container.resume, which may register and start a client anew.
LEMMA ResumeKept ==
    ASSUME NEW c, NEW k \in ContainerRecord, NEW s
    PROVE  AllKept(k, resume(c, k, s))
<1>1. AllKept(k, ensureClientPresence(c, k))
    BY EnsureKept
<1>2. ASSUME NEW j \in ensureClientPresence(c, k)
      PROVE  Kept(k, j) /\ Kept(k, Fail(j)) /\ AllKept(k, libmicaStart(j))
    BY <1>1, <1>2, CommandKept, KeptTrans, ErrorKept
       DEF AllKept, Kept, libmicaStart, ClientStatus
<1> DEFINE resumed == UNION {IF j.st # "paused" /\ s # "stopped" THEN {Fail(j)}
                             ELSE IF c \in Infra THEN {j} ELSE libmicaStart(j) :
                                j \in Ok(ensureClientPresence(c, k))}
<1>3. ASSUME NEW h \in resumed
      PROVE  Kept(k, h)
    BY <1>2, <1>3 DEF AllKept, Ok
<1>4. ASSUME NEW h \in resumed
      PROVE  AllKept(k, setContainerState(h, "running"))
    BY <1>3, <1>4, SetStateKept, KeptTrans DEF AllKept, Kept, StateString
<1> QED BY <1>1, <1>3, <1>4 DEF AllKept, resume, Ok, Bad
-----------------------------------------------------------------------------
(* delete *)

\* delete takes a workload out of the map only once it has no client: `rm`
\* succeeded, or there was none.  The infra container has no client to lose.
LEMMA DeleteReleases ==
    ASSUME NEW c, NEW k \in ContainerRecord
    PROVE  \A j \in delete(c, k) :
              /\ j \in ContainerRecord
              /\ (k.st # "absent" /\ j.st = "absent" /\ c \notin Infra) => j.cl = "none"
<1> DEFINE present == ensureClientPresence(c, k)
           removed == UNION {IF j.st \notin {"ready", "paused", "stopped"} THEN {Fail(j)}
                             ELSE IF c \in Infra THEN {j} ELSE libmicaRemove(j) :
                                j \in Ok(present)}
           out(h)  == [h EXCEPT !.st = "absent"]
<1>1. AllKept(k, present)
    BY EnsureKept
<1>2. ASSUME NEW j \in present
      PROVE  Kept(k, j) /\ Kept(k, Fail(j)) /\ AllKept(k, libmicaRemove(j))
    BY <1>1, <1>2, RemoveKept, KeptTrans, ErrorKept DEF AllKept, Kept
<1>3. AllKept(k, removed)
    BY <1>2 DEF AllKept, Ok
<1>4. ASSUME NEW h \in Ok(removed), c \notin Infra
      PROVE  h.cl = "none"
    <2>1. PICK j \in Ok(present) : h \in IF j.st \notin {"ready", "paused", "stopped"}
                                         THEN {Fail(j)} ELSE libmicaRemove(j)
        BY <1>4 DEF Ok
    <2>2. j \in ContainerRecord
        BY <1>2 DEF Ok, Kept
    <2>3. Fail(j).err = "fail"
        BY <2>2 DEF Fail, ContainerRecord
    <2>4. h \in libmicaRemove(j) /\ h.err = "nil"
        BY <2>1, <2>3, <1>4 DEF Ok
    <2>5. \A x : Fail([j EXCEPT !.cl = x]).err = "fail"
        BY <2>2 DEF Fail, ContainerRecord
    <2> QED BY <2>2, <2>4, <2>5 DEF libmicaRemove, Command, ClientNotExist, ContainerRecord
<1>5. ASSUME NEW h \in Ok(removed), NEW j \in StoreSandbox(out(h))
      PROVE  j \in ContainerRecord /\ j.cl = h.cl
    <2>1. h \in ContainerRecord
        BY <1>3, <1>5 DEF AllKept, Kept, Ok
    <2>2. out(h) \in ContainerRecord /\ out(h).cl = h.cl
        BY <2>1 DEF ContainerRecord
    <2> HIDE DEF out
    <2> QED BY <1>5, <2>2 DEF StoreSandbox, Fail, ContainerRecord, Errors
<1> QED BY <1>1, <1>3, <1>4, <1>5 DEF delete, AllKept, Kept, Ok, Bad

\* delete returns nil only for a container that has left the map.
LEMMA DeleteOk ==
    ASSUME NEW c, NEW k \in ContainerRecord, NEW j \in delete(c, k), j.err = "nil"
    PROVE  j.st = "absent"
<1> DEFINE present == ensureClientPresence(c, k)
           removed == UNION {IF i.st \notin {"ready", "paused", "stopped"} THEN {Fail(i)}
                             ELSE IF c \in Infra THEN {i} ELSE libmicaRemove(i) :
                                i \in Ok(present)}
           out(h)  == [h EXCEPT !.st = "absent"]
<1>1. PICK h \in Ok(removed) : j \in StoreSandbox(out(h))
    BY DEF delete, Bad
<1>2. AllKept(k, present)
    BY EnsureKept
<1>3. ASSUME NEW i \in present
      PROVE  Kept(k, i) /\ Kept(k, Fail(i)) /\ AllKept(k, libmicaRemove(i))
    BY <1>2, <1>3, RemoveKept, KeptTrans, ErrorKept DEF AllKept, Kept
<1>4. h \in ContainerRecord
    BY <1>1, <1>3 DEF AllKept, Kept, Ok
<1>5. out(h) \in ContainerRecord /\ out(h).st = "absent"
    BY <1>4 DEF ContainerRecord
<1> HIDE DEF out
<1> QED BY <1>1, <1>5 DEF StoreSandbox, Fail, ContainerRecord
-----------------------------------------------------------------------------
(* What the operations keep of a record.  Each part is a fact about one      *)
(* record that an operation cannot make false, so operations chain.          *)

\* The clients that may be there while s is recorded.
Expected(s) ==
    CASE s = "stopped" -> {"none"}
      [] s = "running" -> {"running", "none"}
      [] s = "paused"  -> {"idle", "none"}
      [] OTHER         -> ClientStatus

\* State and file of a workload agree with its client.
Agreeing(c, k) == c \notin Infra => k.cl \in Expected(k.st) \cap Expected(k.file)

\* Nothing is ever recorded as being created.
Calm(k) == "creating" \notin {k.st, k.file}

\* A workload recorded as stopped, in memory or on disk, has no client.
Rested(c, k) == (c \notin Infra /\ "stopped" \in {k.st, k.file}) => k.cl = "none"

\* The file of a container in the map holds its state.
Synced(k) == k.st # "absent" => k.file = k.st

\* The table allows the move, or the client is gone, or the container is, and that
\* only once it runs no more.
Passable(k, j) ==
    /\ \/ j.st \in {k.st, "down", "absent"}
       \/ k.st \in {"absent", "creating"}
       \/ transition(k.st, j.st)
    /\ k.st \in {"running", "creating"} => j.st # "absent"

\* No operation brings a client to life that was not there.
Keeps(c, k, j) ==
    /\ j \in ContainerRecord
    /\ k.cl = "none" => j.cl = "none"
    /\ Calm(k) => Calm(j)
    /\ Rested(c, k) => Rested(c, j)
    /\ ("store" \notin Faults /\ Synced(k)) => Synced(j)

\* micad carries out every command and every write succeeds.
Undisturbed == {"micad", "store"} \cap Faults = {}

Lawful(c, k, j) ==
    /\ Keeps(c, k, j)
    /\ Passable(k, j)
    /\ (Undisturbed /\ Agreeing(c, k)) => Agreeing(c, j)

\* What ensureClientPresence may do to k: mark it down, or make it ready when
\* it was down and has a client.  It succeeds only for an infra container or
\* with a client.
Ensured(c, k, j) ==
    /\ j \in ContainerRecord
    /\ j.cl \in {k.cl, "none"}
    /\ \/ j.st = k.st /\ j.file = k.file
       \/ /\ j.st = "down" \/ (k.st = "down" /\ j.st = "ready")
          /\ j.file = j.st \/ ("store" \in Faults /\ j.file = k.file)
    /\ c \in Infra => j.st = k.st
    /\ j.err = "nil" => /\ j.st # "down" /\ j.cl = k.cl
                        /\ c \in Infra \/ j.cl # "none"
    /\ (j.err = "notfound" /\ k.err # "notfound") => c \in Infra \/ j.cl = "none"

\* The chain of what operations keep.
LEMMA KeepsTrans ==
    ASSUME NEW c, NEW h, NEW k, NEW j, Keeps(c, h, k), Keeps(c, k, j)
    PROVE  Keeps(c, h, j)
BY DEF Keeps

\* Setting the error of a record.
LEMMA ErrorKeeps ==
    ASSUME NEW c, NEW h, NEW k \in ContainerRecord
    PROVE  /\ Keeps(c, h, k) => /\ Keeps(c, h, Fail(k))
                                /\ Keeps(c, h, NotFound(k))
                                /\ Keeps(c, h, ClearError(k))
           /\ Lawful(c, h, k) => /\ Lawful(c, h, Fail(k))
                                 /\ Lawful(c, h, NotFound(k))
                                 /\ Lawful(c, h, ClearError(k))
<1>1. /\ Fail(k) \in ContainerRecord /\ NotFound(k) \in ContainerRecord
      /\ ClearError(k) \in ContainerRecord
    BY DEF Fail, NotFound, ClearError, ContainerRecord, Errors
<1>2. \A j \in {Fail(k), NotFound(k), ClearError(k)} :
         j.st = k.st /\ j.file = k.file /\ j.cl = k.cl
    BY DEF Fail, NotFound, ClearError, ContainerRecord
<1> QED BY <1>1, <1>2 DEF Lawful, Keeps, Calm, Rested, Synced, Passable, Agreeing

\* setContainerState moves to s in memory, and on disk unless a write fails.
LEMMA Saving ==
    ASSUME NEW k \in ContainerRecord, NEW s \in StateString,
           NEW j \in setContainerState(k, s)
    PROVE  /\ j \in ContainerRecord
           /\ \A c : s \notin {"creating", "stopped"} => Keeps(c, k, j)
           /\ j.st = s /\ j.cl = k.cl
           /\ j.file = s \/ ("store" \in Faults /\ j.file = k.file)
           /\ j.err = "nil" => j.stored
           /\ j.err \in {"nil", "fail"}
<1>1. PICK written \in May("store"), done \in May("store") : j = Saved(k, s, written, done)
    BY DEF setContainerState
<1>2. (k.stored \/ done) \in BOOLEAN
    OBVIOUS
<1>3. /\ j \in ContainerRecord /\ j.st = s /\ j.cl = k.cl
      /\ j.file = IF written THEN s ELSE k.file
      /\ j.err = IF done THEN "nil" ELSE "fail"
    BY <1>1, <1>2 DEF Saved, ContainerRecord, StateString, Errors
<1>4. j.stored <=> (k.stored \/ done)
    BY <1>1, <1>2 DEF Saved, ContainerRecord
<1>5. written \/ "store" \in Faults
    BY DEF May
<1> QED BY <1>3, <1>4, <1>5 DEF Keeps, Calm, Rested, Synced, StateString

\* A command moves the client of a container that has one, or leaves it, or
\* the client dies.  Only a failure sets an error.
LEMMA Commanding ==
    ASSUME NEW c, NEW k \in ContainerRecord, NEW cl \in ClientStatus,
           cl = "none" \/ k.cl # "none",
           NEW j \in Command(k, cl)
    PROVE  /\ Keeps(c, k, j)
           /\ j.st = k.st /\ j.file = k.file /\ j.cl \in {k.cl, cl, "none"}
           /\ (j.err = "nil" \/ "micad" \notin Faults) => j.cl = cl
           /\ j.err \in {k.err, "fail"}
           /\ "micad" \notin Faults => j.err = k.err
<1>1. /\ j \in ContainerRecord /\ j.st = k.st /\ j.file = k.file
      /\ j.cl \in {k.cl, cl, "none"}
      /\ \/ j.cl = cl /\ j.err = k.err
         \/ "micad" \in Faults /\ j.err = "fail"
    <2>1. CASE j = [k EXCEPT !.cl = cl]
        BY <2>1 DEF ContainerRecord
    <2>2. ASSUME NEW x \in {k.cl, cl, "none"}, j = Fail([k EXCEPT !.cl = x])
          PROVE  /\ j \in ContainerRecord /\ j.st = k.st /\ j.file = k.file
                 /\ j.cl = x /\ j.err = "fail"
        BY <2>2 DEF Fail, ContainerRecord, ClientStatus, Errors
    <2> QED BY <2>1, <2>2 DEF Command
<1> QED BY <1>1 DEF Keeps, Calm, Rested, Synced

\* `rm` either succeeds, and then there is no client, or fails.
LEMMA Removing ==
    ASSUME NEW c, NEW k \in ContainerRecord, NEW j \in libmicaRemove(k)
    PROVE  /\ Keeps(c, k, j)
           /\ j.st = k.st /\ j.file = k.file /\ j.cl \in {k.cl, "none"}
           /\ j.err = "nil" => j.cl = "none"
           /\ j.err \in {k.err, "fail"}
BY Commanding DEF libmicaRemove, ClientNotExist, ClientStatus, Keeps

\* checkState marks down a workload without a client.
LEMMA Checking ==
    ASSUME NEW c, NEW k \in ContainerRecord, NEW j \in checkState(c, k)
    PROVE  /\ j \in ContainerRecord /\ j.cl = k.cl
           /\ \/ j = k
              \/ /\ j.st = "down" /\ j.cl = "none" /\ j.err = "nil"
                 /\ j.file = "down" \/ ("store" \in Faults /\ j.file = k.file)
           /\ j.st # "down" => c \in Infra \/ j.cl # "none"
           /\ c \in Infra => j = k
<1>1. CASE c \in Infra \/ ~ClientNotExist(k) \/ k.st = "down"
    BY <1>1 DEF checkState, ClientNotExist
<1>2. CASE ~(c \in Infra \/ ~ClientNotExist(k) \/ k.st = "down")
    <2>1. PICK h \in setContainerState(k, "down") : j = ClearError(h)
        BY <1>2 DEF checkState
    <2>2. /\ h \in ContainerRecord /\ h.st = "down" /\ h.cl = k.cl
          /\ h.file = "down" \/ ("store" \in Faults /\ h.file = k.file)
        BY <2>1, Saving DEF StateString
    <2> QED BY <1>2, <2>1, <2>2
            DEF ClearError, ContainerRecord, Errors, ClientNotExist
<1> QED BY <1>1, <1>2

\* registerClient makes a container that was down ready, or fails.
LEMMA Registering ==
    ASSUME NEW c, NEW k \in ContainerRecord, k.cl # "none", NEW j \in registerClient(k)
    PROVE  /\ j \in ContainerRecord /\ j.cl \in {k.cl, "none"}
           /\ \/ j.st = k.st /\ j.file = k.file /\ j.err # "nil"
              \/ /\ j.st = "ready"
                 /\ j.file = "ready" \/ ("store" \in Faults /\ j.file = k.file)
           /\ j.err = "nil" => j.cl = k.cl
           /\ j.err \in {"nil", "fail", k.err}
<1>1. CASE j \in Bad(libmicaCreate(k))
    BY <1>1, Commanding DEF Bad, libmicaCreate, ContainerRecord, Keeps
<1>2. CASE j = Fail(k)
    BY <1>2 DEF Fail, ContainerRecord, Errors
<1>3. ASSUME NEW h \in Ok(libmicaCreate(k)), j \in setContainerState(h, "ready")
      PROVE  /\ j \in ContainerRecord /\ j.cl = k.cl /\ j.st = "ready"
             /\ j.file = "ready" \/ ("store" \in Faults /\ j.file = k.file)
             /\ j.err \in {"nil", "fail"}
    <2>1. h \in ContainerRecord /\ h.cl = k.cl /\ h.file = k.file
        BY <1>3, Commanding DEF Ok, libmicaCreate, ContainerRecord, Keeps
    <2> QED BY <1>3, <2>1, Saving DEF StateString
<1> QED BY <1>1, <1>2, <1>3 DEF registerClient

\* ensureClientPresence on every path, the second look after a registration included.
LEMMA Ensuring ==
    ASSUME NEW c, NEW k \in ContainerRecord, NEW i \in ensureClientPresence(c, k)
    PROVE  Ensured(c, k, i)
<1>1. PICK j \in checkState(c, k) :
         i \in IF j.st # "down" THEN {j}
               ELSE IF c \notin Infra /\ ~ClientNotExist(j)
               THEN Bad(registerClient(j))
                    \cup {IF g.st = "down" THEN NotFound(g) ELSE g :
                          g \in UNION {checkState(c, h) : h \in Ok(registerClient(j))}}
               ELSE {NotFound(j)}
    BY Zenon DEF ensureClientPresence
<1>2. /\ j \in ContainerRecord /\ j.cl = k.cl
      /\ \/ j = k
         \/ /\ j.st = "down" /\ j.cl = "none" /\ j.err = "nil"
            /\ j.file = "down" \/ ("store" \in Faults /\ j.file = k.file)
      /\ j.st # "down" => c \in Infra \/ j.cl # "none"
      /\ c \in Infra => j = k
    BY <1>1, Checking
<1>3. CASE j.st # "down"
    BY <1>1, <1>2, <1>3 DEF Ensured
<1>4. CASE j.st = "down" /\ ~(c \notin Infra /\ ~ClientNotExist(j))
    BY <1>1, <1>2, <1>4 DEF Ensured, NotFound, ContainerRecord, Errors, ClientNotExist
<1>5. CASE j.st = "down" /\ c \notin Infra /\ ~ClientNotExist(j)
    <2>1. j = k /\ j.cl # "none"
        BY <1>2, <1>5 DEF ClientNotExist
    <2>2. CASE i \in Bad(registerClient(j))
        BY <1>5, <2>1, <2>2, Registering DEF Bad, Ensured
    <2>3. ASSUME NEW h \in Ok(registerClient(j)), NEW g \in checkState(c, h)
          PROVE  g = h /\ g.st = "ready" /\ Ensured(c, k, g)
        <3>1. /\ h \in ContainerRecord /\ h.cl = k.cl /\ h.st = "ready" /\ h.err = "nil"
              /\ h.file = "ready" \/ ("store" \in Faults /\ h.file = k.file)
            BY <2>1, <2>3, Registering DEF Ok
        <3>2. g = h
            BY <2>1, <2>3, <3>1 DEF checkState, ClientNotExist
        <3> QED BY <1>5, <2>1, <3>1, <3>2 DEF Ensured
    <2> QED BY <1>1, <1>5, <2>2, <2>3
<1> QED BY <1>3, <1>4, <1>5

\* Ensuring that the client is there is lawful, and never loses agreement.
LEMMA EnsuredLawful ==
    ASSUME NEW c, NEW k \in ContainerRecord, NEW j, Ensured(c, k, j)
    PROVE  /\ Lawful(c, k, j)
           /\ Agreeing(c, k) => Agreeing(c, j)
<1>1. Keeps(c, k, j)
    BY DEF Ensured, Keeps, Calm, Rested, Synced
<1>2. Passable(k, j)
    BY DEF Ensured, Passable, transition, Successors
<1>3. \A s : s \in {k.st, k.file, "down", "ready"} /\ k.cl \in Expected(s)
             => j.cl \in Expected(s)
    BY DEF Ensured, Expected, ContainerRecord, ClientStatus
<1>4. k.cl \in Expected("down") /\ k.cl \in Expected("ready")
    BY DEF Expected, ContainerRecord
<1>5. j.st \in {k.st, "down", "ready"} /\ j.file \in {k.file, "down", "ready"}
    BY DEF Ensured
<1>6. Agreeing(c, k) => Agreeing(c, j)
    BY <1>3, <1>4, <1>5 DEF Agreeing
<1> QED BY <1>1, <1>2, <1>6 DEF Lawful

\* Nothing to do for a container whose client is there.
LEMMA EnsuringPresent ==
    ASSUME NEW c, NEW k, k.st # "down", c \in Infra \/ k.cl # "none"
    PROVE  checkState(c, k) = {k} /\ ensureClientPresence(c, k) = {k}
<1>1. checkState(c, k) = {k}
    BY DEF checkState, ClientNotExist
<1> QED BY <1>1 DEF ensureClientPresence

\* doStop on a container whose client is there removes it, or fails, unless
\* the container counts as stopped already.
LEMMA DoStopping ==
    ASSUME NEW c, NEW k \in ContainerRecord, k.st # "down", c \in Infra \/ k.cl # "none",
           NEW force, NEW j \in doStop(c, k, force)
    PROVE  /\ Keeps(c, k, j)
           /\ j.st = k.st /\ j.file = k.file /\ j.cl \in {k.cl, "none"}
           /\ (j.err = "nil" /\ k.st # "stopped") => c \in Infra \/ j.cl = "none"
<1>1. Keeps(c, k, k) /\ Keeps(c, k, Fail(k))
    BY ErrorKeeps DEF Keeps
<1>2. CASE j = k /\ (c \in Infra \/ k.st = "stopped")
    BY <1>1, <1>2
<1>3. CASE j = Fail(k)
    BY <1>1, <1>3 DEF Fail, ContainerRecord
<1>4. CASE j \in libmicaRemove(k)
    BY <1>4, Removing
<1> QED BY <1>2, <1>3, <1>4, EnsuringPresent DEF doStop

\* The end of a stop or a kill: whatever was recorded, "stopped" may follow.
LEMMA RecordedStopped ==
    ASSUME NEW c, NEW k \in ContainerRecord, NEW h \in ContainerRecord,
           Keeps(c, k, h), Rested(c, k) => c \in Infra \/ h.cl = "none",
           NEW i \in setContainerState(h, "stopped")
    PROVE  /\ Lawful(c, k, i) /\ i.cl = h.cl
           /\ Rested(c, k) => c \in Infra \/ i.cl = "none"
<1>1. /\ i \in ContainerRecord /\ i.st = "stopped" /\ i.cl = h.cl
      /\ i.file = "stopped" \/ ("store" \in Faults /\ i.file = h.file)
    BY Saving DEF StateString
<1>2. Keeps(c, k, i)
    BY <1>1 DEF Keeps, Calm, Rested, Synced
<1>3. Passable(k, i)
    BY <1>1 DEF Passable, transition, Successors, ContainerRecord, StateString
<1>4. Agreeing(c, k) => Rested(c, k)
    BY DEF Agreeing, Rested, Expected
<1>5. Agreeing(c, k) /\ Undisturbed => Agreeing(c, i)
    BY <1>1, <1>4 DEF Agreeing, Expected, Undisturbed
<1> QED BY <1>1, <1>2, <1>3, <1>5 DEF Lawful

\* A container ensureClientPresence succeeds for.
LEMMA Present ==
    ASSUME NEW c, NEW k \in ContainerRecord, NEW j \in Ok(ensureClientPresence(c, k))
    PROVE  /\ j \in ContainerRecord /\ Ensured(c, k, j) /\ Lawful(c, k, j)
           /\ j.st # "down" /\ (c \in Infra \/ j.cl # "none") /\ j.err = "nil"
           /\ Agreeing(c, k) => Agreeing(c, j)
<1>1. j \in ensureClientPresence(c, k) /\ j.err = "nil"
    BY DEF Ok
<1>2. Ensured(c, k, j)
    BY <1>1, Ensuring
<1> QED BY <1>1, <1>2, EnsuredLawful DEF Ensured

\* doStop after ensureClientPresence.
LEMMA Halting ==
    ASSUME NEW c, NEW k \in ContainerRecord, NEW j, j \in Ok(ensureClientPresence(c, k)),
           NEW force, NEW h, h \in doStop(c, j, force)
    PROVE  /\ h \in ContainerRecord /\ Lawful(c, k, h) /\ h.cl \in {k.cl, "none"}
           /\ (h.err = "nil" /\ Rested(c, k)) => c \in Infra \/ h.cl = "none"
<1>1. /\ Ensured(c, k, j) /\ Lawful(c, k, j) /\ j \in ContainerRecord
      /\ j.st # "down" /\ (c \in Infra \/ j.cl # "none") /\ j.cl \in {k.cl, "none"}
    BY Present DEF Ensured
<1>2. /\ Keeps(c, j, h) /\ h.st = j.st /\ h.file = j.file /\ h.cl \in {j.cl, "none"}
      /\ (h.err = "nil" /\ j.st # "stopped") => c \in Infra \/ h.cl = "none"
    <2>1. /\ j \in ContainerRecord /\ j.st # "down" /\ (c \in Infra \/ j.cl # "none")
          /\ h \in doStop(c, j, force)
        BY <1>1
    <2> QED BY ONLY <2>1, DoStopping
<1>3. Keeps(c, k, h)
    BY <1>1, <1>2, KeepsTrans DEF Lawful
<1>4. \A s : j.cl \in Expected(s) => h.cl \in Expected(s)
    BY <1>1, <1>2 DEF Expected, ContainerRecord, ClientStatus
<1>5. Lawful(c, k, h)
    BY <1>1, <1>2, <1>3, <1>4 DEF Lawful, Passable, Agreeing
<1>6. Rested(c, k) => c \in Infra \/ j.st # "stopped"
    BY <1>1 DEF Lawful, Keeps, Rested
<1>7. h \in ContainerRecord /\ h.cl \in {k.cl, "none"}
    BY <1>1, <1>2 DEF Keeps
<1> QED BY ONLY <1>2, <1>5, <1>6, <1>7

\* container.stop on every path, forced or not: when it succeeds on a workload
\* the client is gone.
LEMMA Stopping ==
    ASSUME NEW c, NEW k \in ContainerRecord, NEW force, NEW i \in stop(c, k, force)
    PROVE  /\ Lawful(c, k, i) /\ i.cl \in {k.cl, "none"}
           /\ (i.err = "nil" /\ Rested(c, k)) => c \in Infra \/ i.cl = "none"
<1>1. CASE i \in Bad(ensureClientPresence(c, k))
    <2>1. Ensured(c, k, i) /\ i.err # "nil"
        BY <1>1, Ensuring DEF Bad
    <2> QED BY <2>1, EnsuredLawful DEF Ensured
<1> DEFINE stopped == UNION {doStop(c, j, force) : j \in Ok(ensureClientPresence(c, k))}
<1>2. ASSUME NEW h \in stopped
      PROVE  /\ h \in ContainerRecord /\ Lawful(c, k, h) /\ h.cl \in {k.cl, "none"}
             /\ (h.err = "nil" /\ Rested(c, k)) => c \in Infra \/ h.cl = "none"
    BY <1>2, Halting
<1>3. CASE i \in Bad(stopped)
    BY <1>2, <1>3 DEF Bad
<1>4. ASSUME NEW h \in Ok(stopped), i \in setContainerState(h, "stopped")
      PROVE  /\ Lawful(c, k, i) /\ i.cl \in {k.cl, "none"}
             /\ (Rested(c, k) => c \in Infra \/ i.cl = "none")
    BY <1>2, <1>4, RecordedStopped DEF Ok, Lawful
<1> QED BY <1>1, <1>3, <1>4 DEF stop

\* container.kill: a stop without the question whether it is allowed.
LEMMA Killing ==
    ASSUME NEW c, NEW k \in ContainerRecord, NEW s, NEW i \in kill(c, k, s)
    PROVE  Lawful(c, k, i)
<1>1. CASE i \in {k, Fail(k)}
    <2>1. Lawful(c, k, k)
        BY DEF Lawful, Keeps, Passable
    <2> QED BY <1>1, <2>1, ErrorKeeps
<1>2. CASE i \in Bad(ensureClientPresence(c, k))
    BY <1>2, Ensuring, EnsuredLawful DEF Bad
<1> DEFINE stopped == UNION {IF ClientNotExist(j) THEN {j} ELSE doStop(c, j, TRUE) :
                                j \in Ok(ensureClientPresence(c, k))}
<1>3. ASSUME NEW h \in stopped
      PROVE  /\ h \in ContainerRecord /\ Lawful(c, k, h)
             /\ (h.err = "nil" /\ Rested(c, k)) => c \in Infra \/ h.cl = "none"
    <2>1. PICK j \in Ok(ensureClientPresence(c, k)) :
             h \in IF ClientNotExist(j) THEN {j} ELSE doStop(c, j, TRUE)
        BY <1>3
    <2>2. CASE h = j /\ j.cl = "none"
        BY <2>1, <2>2, Present
    <2>3. CASE h \in doStop(c, j, TRUE)
        BY <2>3, Halting
    <2> QED BY <2>1, <2>2, <2>3 DEF ClientNotExist
<1>4. CASE i \in Bad(stopped)
    BY <1>3, <1>4 DEF Bad
<1>5. ASSUME NEW h \in Ok(stopped), i \in setContainerState(h, "stopped")
      PROVE  Lawful(c, k, i)
    BY <1>3, <1>5, RecordedStopped DEF Ok, Lawful
<1> QED BY <1>1, <1>2, <1>4, <1>5 DEF kill

\* Starting a workload whose client is there always ends in "running"; with
\* nothing failing its client runs.
LEMMA StartingWorkload ==
    ASSUME NEW c, NEW k \in ContainerRecord, k.st # "down", k.cl # "none", k.err = "nil",
           NEW i \in startWorkload(c, k)
    PROVE  /\ Keeps(c, k, i) /\ i.st = "running"
           /\ Undisturbed => Agreeing(c, i)
<1>1. ensureClientPresence(c, k) = {k}
    BY EnsuringPresent
<1>2. Ok({k}) = {k} /\ Bad({k}) = {}
    BY DEF Ok, Bad
<1>3. ASSUME NEW h \in libmicaStart(k)
      PROVE  /\ h \in ContainerRecord /\ Keeps(c, k, h)
             /\ "micad" \notin Faults => (h.err = "nil" /\ h.cl = "running")
    BY <1>3, Commanding DEF libmicaStart, ClientStatus, Keeps
<1>4. startClient(c, k) = libmicaStart(k)
                          \cup (IF "micad" \in Faults
                                THEN {Fail(j) : j \in Ok(libmicaStart(k))} ELSE {})
    BY <1>1, <1>2 DEF startClient
<1>5. ASSUME NEW h \in startClient(c, k)
      PROVE  /\ h \in ContainerRecord /\ Keeps(c, k, h)
             /\ "micad" \notin Faults => (h.err = "nil" /\ h.cl = "running")
    <2>1. CASE h \in libmicaStart(k)
        BY <1>3, <2>1
    <2>2. ASSUME "micad" \in Faults, NEW j \in libmicaStart(k), h = Fail(j)
          PROVE  h \in ContainerRecord /\ Keeps(c, k, h)
        BY <1>3, <2>2, ErrorKeeps DEF Keeps
    <2> QED BY <1>4, <1>5, <2>1, <2>2 DEF Ok
<1> DEFINE undone == {ClearError(j) : j \in
                         UNION {stop(c, ClearError(h), TRUE) : h \in Bad(startClient(c, k))}}
<1>6. ASSUME NEW g \in undone
      PROVE  "micad" \in Faults /\ g \in ContainerRecord /\ Keeps(c, k, g)
    <2>1. PICK h \in Bad(startClient(c, k)) :
             \E j \in stop(c, ClearError(h), TRUE) : g = ClearError(j)
        BY <1>6
    <2>2. /\ "micad" \in Faults /\ h \in ContainerRecord /\ Keeps(c, k, h)
          /\ ClearError(h) \in ContainerRecord /\ Keeps(c, k, ClearError(h))
        BY <1>5, ErrorKeeps DEF Bad, Keeps
    <2>3. ASSUME NEW j \in stop(c, ClearError(h), TRUE)
          PROVE  ClearError(j) \in ContainerRecord /\ Keeps(c, k, ClearError(j))
        <3>1. Keeps(c, ClearError(h), j)
            BY <2>2, <2>3, Stopping DEF Lawful
        <3>2. j \in ContainerRecord /\ Keeps(c, k, j)
            BY <2>2, <3>1, KeepsTrans DEF Keeps
        <3> QED BY <3>2, ErrorKeeps DEF Keeps
    <2> QED BY <2>1, <2>2, <2>3
<1>7. PICK j \in Ok(startClient(c, k)) \cup undone : i \in setContainerState(j, "running")
    BY DEF startWorkload
<1>8. /\ j \in ContainerRecord /\ Keeps(c, k, j)
      /\ "micad" \notin Faults => j.cl = "running"
    BY <1>5, <1>6, <1>7 DEF Ok
<1>9. /\ Keeps(c, j, i) /\ i.st = "running" /\ i.cl = j.cl
      /\ i.file = "running" \/ "store" \in Faults
    BY <1>7, <1>8, Saving DEF StateString
<1>10. Keeps(c, k, i)
    BY <1>8, <1>9, KeepsTrans
<1> QED BY <1>8, <1>9, <1>10 DEF Undisturbed, Agreeing, Expected

\* container.start: success means recorded as running.
LEMMA Starting ==
    ASSUME NEW c, NEW k \in ContainerRecord, NEW i \in start(c, k)
    PROVE  /\ Lawful(c, k, i)
           /\ i.err = "nil" => i.st = "running"
<1>1. CASE i \in Bad(ensureClientPresence(c, k))
    BY <1>1, Ensuring, EnsuredLawful DEF Bad
<1>2. ASSUME NEW j \in Ok(ensureClientPresence(c, k)),
             i \in IF c \in Infra /\ j.st = "running" THEN {j}
                   ELSE IF ~Startable(j) THEN {Fail(j)}
                   ELSE IF c \in Infra THEN setContainerState(j, "running")
                   ELSE startWorkload(c, j)
      PROVE  Lawful(c, k, i) /\ (i.err = "nil" => i.st = "running")
    <2>1. /\ Ensured(c, k, j) /\ Lawful(c, k, j) /\ j \in ContainerRecord
          /\ j.st # "down" /\ (c \in Infra \/ j.cl # "none") /\ j.err = "nil"
        BY <1>2, Present
    <2>2. CASE i = j /\ j.st = "running"
        BY <2>1, <2>2
    <2>3. CASE i = Fail(j)
        BY <2>1, <2>3, ErrorKeeps DEF Fail, ContainerRecord
    <2>4. CASE /\ Startable(j)
               /\ \/ c \in Infra /\ i \in setContainerState(j, "running")
                  \/ c \notin Infra /\ i \in startWorkload(c, j)
        <3>1. /\ Keeps(c, j, i) /\ i.st = "running"
              /\ Undisturbed => Agreeing(c, i)
            BY <2>1, <2>4, Saving, StartingWorkload DEF StateString, Agreeing
        <3>2. Keeps(c, k, i)
            BY <2>1, <3>1, KeepsTrans DEF Lawful
        <3>3. Passable(k, i)
            BY <2>1, <2>4, <3>1 DEF Ensured, Startable, Passable, transition, Successors
        <3> QED BY <3>1, <3>2, <3>3 DEF Lawful
    <2> QED BY <1>2, <2>2, <2>3, <2>4
<1> QED BY <1>1, <1>2 DEF start

\* container.create puts a new container in the map as ready and stored.
LEMMA Creating ==
    ASSUME NEW c, NEW k \in ContainerRecord, NEW i \in create(c, k)
    PROVE  /\ Keeps(c, k, i)
           /\ Agreeing(c, k) => Agreeing(c, i)
           /\ i.err = "nil" => i.st = "ready" /\ i.stored
           /\ (i.err = "nil" /\ "store" \notin Faults) => i.file = "ready"
<1>1. ASSUME NEW j \in ContainerRecord, Keeps(c, k, j),
             Agreeing(c, k) => Agreeing(c, j), i \in setContainerState(j, "ready")
      PROVE  /\ Keeps(c, k, i)
             /\ Agreeing(c, k) => Agreeing(c, i)
             /\ i.err = "nil" => i.st = "ready" /\ i.stored
             /\ (i.err = "nil" /\ "store" \notin Faults) => i.file = "ready"
    <2>1. /\ Keeps(c, j, i) /\ i.st = "ready" /\ i.cl = j.cl
          /\ i.file = "ready" \/ ("store" \in Faults /\ i.file = j.file)
          /\ i.err = "nil" => i.stored
        BY <1>1, Saving DEF StateString
    <2>2. Keeps(c, k, i)
        BY <1>1, <2>1, KeepsTrans
    <2>3. j.cl \in ClientStatus
        BY <1>1 DEF ContainerRecord
    <2>4. Agreeing(c, j) => Agreeing(c, i)
        BY <2>1, <2>3 DEF Agreeing, Expected
    <2> QED BY <1>1, <2>1, <2>2, <2>4
<1>2. Keeps(c, k, k)
    BY DEF Keeps
<1>3. ASSUME NEW j \in ensureClientPresence(c, k)
      PROVE  /\ j \in ContainerRecord /\ Keeps(c, k, j)
             /\ Agreeing(c, k) => Agreeing(c, j)
    BY <1>3, Ensuring, EnsuredLawful DEF Ensured, Lawful
<1> QED BY <1>1, <1>2, <1>3 DEF create, Ok, Bad

\* What pause and resume do after ensureClientPresence: a command, if the state
\* allows it, for a workload.
LEMMA Commanded ==
    ASSUME NEW c, NEW k \in ContainerRecord, NEW j, j \in Ok(ensureClientPresence(c, k)),
           NEW cl \in ClientStatus, NEW h,
           h = j \/ h = Fail(j) \/ (c \notin Infra /\ h \in Command(j, cl))
    PROVE  /\ h \in ContainerRecord /\ Keeps(c, k, h) /\ Passable(k, h) /\ h.st = j.st
           /\ Undisturbed /\ Agreeing(c, k) /\ h.err # "nil" => Agreeing(c, h)
<1>1. /\ j \in ContainerRecord /\ j.err = "nil" /\ Lawful(c, k, j)
      /\ c \in Infra \/ j.cl # "none"
    BY Present
<1>2. CASE h \in {j, Fail(j)}
    <2>1. Lawful(c, k, h)
        BY <1>1, <1>2, ErrorKeeps
    <2>2. h.st = j.st
        BY <1>1, <1>2 DEF Fail, ContainerRecord
    <2> QED BY <2>1, <2>2 DEF Lawful, Keeps
<1>3. CASE c \notin Infra /\ h \in Command(j, cl)
    <2>1. j.cl # "none"
        BY <1>1, <1>3
    <2>2. /\ Keeps(c, j, h) /\ h.st = j.st
          /\ "micad" \notin Faults => h.err = j.err
        BY ONLY <1>1, <1>3, <2>1, Commanding, cl \in ClientStatus
    <2>3. Keeps(c, k, h)
        BY <1>1, <2>2, KeepsTrans DEF Lawful
    <2> QED BY <1>1, <2>2, <2>3 DEF Lawful, Passable, Keeps, Undisturbed
<1> QED BY <1>2, <1>3

\* The end of a pause or a resume.
LEMMA StateRecorded ==
    ASSUME NEW c, NEW k \in ContainerRecord, NEW h \in ContainerRecord, Keeps(c, k, h),
           NEW s \in {"running", "paused"},
           k.st \in {s, "absent", "creating"} \/ transition(k.st, s),
           Undisturbed => c \in Infra \/ h.cl \in Expected(s),
           NEW i \in setContainerState(h, s)
    PROVE  Lawful(c, k, i)
<1>1. /\ Keeps(c, h, i) /\ i.st = s /\ i.cl = h.cl
      /\ i.file = s \/ "store" \in Faults
    BY Saving DEF StateString
<1>2. Keeps(c, k, i)
    BY <1>1, KeepsTrans
<1> QED BY <1>1, <1>2 DEF Lawful, Passable, Agreeing, Undisturbed

\* container.pause: only a running container is ever paused.
LEMMA Pausing ==
    ASSUME NEW c, NEW k \in ContainerRecord, NEW i \in pause(c, k)
    PROVE  Lawful(c, k, i)
<1>1. CASE i \in Bad(ensureClientPresence(c, k))
    BY <1>1, Ensuring, EnsuredLawful DEF Bad
<1> DEFINE paused == UNION {IF j.st # "running" THEN {Fail(j)}
                            ELSE IF c \in Infra THEN {j} ELSE libmicaPause(j) :
                               j \in Ok(ensureClientPresence(c, k))}
<1>2. ASSUME NEW h \in paused
      PROVE  /\ h \in ContainerRecord /\ Keeps(c, k, h) /\ Passable(k, h)
             /\ Undisturbed /\ Agreeing(c, k) /\ h.err # "nil" => Agreeing(c, h)
             /\ h.err = "nil" => k.st = "running"
             /\ h.err = "nil" /\ Undisturbed => c \in Infra \/ h.cl = "idle"
    <2>1. PICK j \in Ok(ensureClientPresence(c, k)) :
             h \in IF j.st # "running" THEN {Fail(j)}
                   ELSE IF c \in Infra THEN {j} ELSE libmicaPause(j)
        BY <1>2
    <2>2. /\ j \in ContainerRecord /\ j.err = "nil" /\ Ensured(c, k, j)
          /\ c \in Infra \/ j.cl # "none"
        BY <2>1, Present
    <2>3. h = j \/ h = Fail(j) \/ (c \notin Infra /\ h \in Command(j, "idle"))
        BY <2>1 DEF libmicaPause
    <2>4. /\ h \in ContainerRecord /\ Keeps(c, k, h) /\ Passable(k, h)
          /\ Undisturbed /\ Agreeing(c, k) /\ h.err # "nil" => Agreeing(c, h)
        <3>1. "idle" \in ClientStatus
            BY DEF ClientStatus
        <3> QED BY <2>1, <2>3, <3>1, Commanded
    <2>5. j.st # "running" => h.err = "fail"
        BY <2>1, <2>2 DEF Fail, ContainerRecord
    <2>6. j.st = "running" => k.st = "running"
        BY <2>2 DEF Ensured
    <2>7. CASE h \in Command(j, "idle") /\ c \notin Infra
        <3>1. Undisturbed => h.cl = "idle"
            BY ONLY <2>2, <2>7, Commanding DEF ClientStatus, Undisturbed
        <3> QED BY <2>4, <2>5, <2>6, <3>1
    <2>8. CASE h = Fail(j)
        BY <2>2, <2>4, <2>8 DEF Fail, ContainerRecord
    <2>9. CASE c \in Infra
        BY <2>4, <2>5, <2>6, <2>9
    <2> QED BY <2>1, <2>3, <2>7, <2>8, <2>9 DEF libmicaPause
<1>3. CASE i \in Bad(paused)
    BY <1>2, <1>3 DEF Bad, Lawful
<1>4. ASSUME NEW h \in Ok(paused), i \in setContainerState(h, "paused")
      PROVE  Lawful(c, k, i)
    BY <1>2, <1>4, StateRecorded DEF Ok, Expected, transition, Successors
<1> QED BY <1>1, <1>3, <1>4 DEF pause

\* container.resume, also from a state other than paused in a stopped sandbox.
LEMMA Resuming ==
    ASSUME NEW c, NEW k \in ContainerRecord, NEW s, NEW i \in resume(c, k, s)
    PROVE  Lawful(c, k, i)
<1>1. CASE i \in Bad(ensureClientPresence(c, k))
    BY <1>1, Ensuring, EnsuredLawful DEF Bad
<1> DEFINE resumed == UNION {IF j.st # "paused" /\ s # "stopped" THEN {Fail(j)}
                             ELSE IF c \in Infra THEN {j} ELSE libmicaStart(j) :
                                j \in Ok(ensureClientPresence(c, k))}
<1>2. ASSUME NEW h \in resumed
      PROVE  /\ h \in ContainerRecord /\ Keeps(c, k, h) /\ Passable(k, h)
             /\ Undisturbed /\ Agreeing(c, k) /\ h.err # "nil" => Agreeing(c, h)
             /\ h.err = "nil" /\ Undisturbed => c \in Infra \/ h.cl = "running"
    <2>1. PICK j \in Ok(ensureClientPresence(c, k)) :
             h \in IF j.st # "paused" /\ s # "stopped" THEN {Fail(j)}
                   ELSE IF c \in Infra THEN {j} ELSE libmicaStart(j)
        BY <1>2
    <2>2. j \in ContainerRecord /\ j.err = "nil" /\ (c \in Infra \/ j.cl # "none")
        BY <2>1, Present
    <2>3. h = j \/ h = Fail(j) \/ (c \notin Infra /\ h \in Command(j, "running"))
        BY <2>1 DEF libmicaStart
    <2>4. /\ h \in ContainerRecord /\ Keeps(c, k, h) /\ Passable(k, h)
          /\ Undisturbed /\ Agreeing(c, k) /\ h.err # "nil" => Agreeing(c, h)
        <3>1. "running" \in ClientStatus
            BY DEF ClientStatus
        <3> QED BY <2>1, <2>3, <3>1, Commanded
    <2>5. CASE h \in Command(j, "running") /\ c \notin Infra
        <3>1. Undisturbed => h.cl = "running"
            BY ONLY <2>2, <2>5, Commanding DEF ClientStatus, Undisturbed
        <3> QED BY <2>4, <3>1
    <2>6. CASE h = Fail(j)
        BY <2>2, <2>4, <2>6 DEF Fail, ContainerRecord
    <2> QED BY <2>1, <2>3, <2>4, <2>5, <2>6 DEF libmicaStart
<1>3. CASE i \in Bad(resumed)
    BY <1>2, <1>3 DEF Bad, Lawful
<1>4. k.st \in {"running", "absent", "creating"} \/ transition(k.st, "running")
    BY DEF transition, Successors, ContainerRecord, StateString
<1>5. ASSUME NEW h \in Ok(resumed), i \in setContainerState(h, "running")
      PROVE  Lawful(c, k, i)
    BY <1>2, <1>4, <1>5, StateRecorded DEF Ok, Expected
<1> QED BY <1>1, <1>3, <1>5 DEF resume

\* container.delete, whose answer "not found" means that the client is gone.
LEMMA Deleting ==
    ASSUME NEW c, NEW k \in ContainerRecord, k.err = "nil", NEW i \in delete(c, k)
    PROVE  /\ Lawful(c, k, i) /\ i.cl \in {k.cl, "none"}
           /\ i.err \in {"nil", "notfound"} => c \in Infra \/ i.cl = "none"
<1>1. CASE i \in Bad(ensureClientPresence(c, k))
    <2>1. Ensured(c, k, i) /\ i.err # "nil"
        BY <1>1, Ensuring DEF Bad
    <2> QED BY <2>1, EnsuredLawful DEF Ensured
<1> DEFINE removed == UNION {IF j.st \notin {"ready", "paused", "stopped"} THEN {Fail(j)}
                             ELSE IF c \in Infra THEN {j} ELSE libmicaRemove(j) :
                                j \in Ok(ensureClientPresence(c, k))}
           out(h)  == [h EXCEPT !.st = "absent"]
<1>2. ASSUME NEW h \in removed
      PROVE  /\ h \in ContainerRecord /\ Lawful(c, k, h) /\ h.cl \in {k.cl, "none"}
             /\ h.err \in {"nil", "fail"}
             /\ h.err = "nil" => c \in Infra \/ h.cl = "none"
             /\ h.err = "nil" => k.st \notin {"running", "creating"}
    <2>1. PICK j \in Ok(ensureClientPresence(c, k)) :
             h \in IF j.st \notin {"ready", "paused", "stopped"} THEN {Fail(j)}
                   ELSE IF c \in Infra THEN {j} ELSE libmicaRemove(j)
        BY <1>2
    <2>2. j \in ContainerRecord /\ j.err = "nil" /\ Lawful(c, k, j) /\ j.cl \in {k.cl, "none"}
        BY <2>1, Present DEF Ensured
    <2>6. j.st \in {"ready", "paused", "stopped"} => k.st \notin {"running", "creating"}
        BY <2>1, Present DEF Ensured
    <2>3. CASE h = Fail(j)
        <3>1. h.cl = j.cl /\ h.err = "fail"
            BY <2>2, <2>3 DEF Fail, ContainerRecord
        <3>2. Lawful(c, k, h)
            BY <2>2, <2>3, ErrorKeeps
        <3> QED BY <2>2, <3>1, <3>2 DEF Lawful, Keeps
    <2>4. CASE h = j /\ c \in Infra /\ j.st \in {"ready", "paused", "stopped"}
        BY <2>2, <2>4, <2>6
    <2>5. CASE h \in libmicaRemove(j) /\ j.st \in {"ready", "paused", "stopped"}
        <3>1. /\ Keeps(c, j, h) /\ h.st = j.st /\ h.file = j.file /\ h.cl \in {j.cl, "none"}
              /\ h.err = "nil" => h.cl = "none"
              /\ h.err \in {"nil", "fail"}
            BY ONLY <2>2, <2>5, Removing
        <3>2. Keeps(c, k, h)
            BY <2>2, <3>1, KeepsTrans DEF Lawful
        <3>3. \A s : j.cl \in Expected(s) => h.cl \in Expected(s)
            BY <2>2, <3>1 DEF Expected, ContainerRecord, ClientStatus
        <3>4. Lawful(c, k, h)
            BY <2>2, <3>1, <3>2, <3>3 DEF Lawful, Passable, Agreeing
        <3> QED BY <2>2, <2>5, <2>6, <3>1, <3>4 DEF Lawful, Keeps
    <2> QED BY <2>1, <2>3, <2>4, <2>5
<1>3. CASE i \in Bad(removed)
    BY <1>2, <1>3 DEF Bad
<1>4. ASSUME NEW h \in Ok(removed), i \in StoreSandbox(out(h))
      PROVE  Lawful(c, k, i) /\ i.cl \in {k.cl, "none"} /\ (c \in Infra \/ i.cl = "none")
    <2>1. /\ h \in ContainerRecord /\ Lawful(c, k, h) /\ h.cl \in {k.cl, "none"}
          /\ c \in Infra \/ h.cl = "none"
          /\ k.st \notin {"running", "creating"}
        BY <1>2, <1>4 DEF Ok
    <2>2. /\ i \in ContainerRecord /\ i.st = "absent" /\ i.cl = h.cl /\ i.file = h.file
        BY <1>4, <2>1 DEF StoreSandbox, Fail, ContainerRecord, Errors
    <2>3. h.cl \in Expected("absent")
        BY <2>1 DEF Expected, ContainerRecord
    <2> QED BY <2>1, <2>2, <2>3 DEF Lawful, Keeps, Passable, Agreeing, Calm, Rested, Synced
<1>5. \/ i \in Bad(ensureClientPresence(c, k)) \/ i \in Bad(removed)
      \/ \E h \in Ok(removed) : i \in StoreSandbox(out(h))
    BY DEF delete
<1> QED BY <1>1, <1>3, <1>4, <1>5

\* checkState is lawful, and so is failing after it.
LEMMA CheckingLawful ==
    ASSUME NEW c, NEW k \in ContainerRecord, NEW j \in checkState(c, k)
    PROVE  Lawful(c, k, j) /\ (Agreeing(c, k) => Agreeing(c, j))
<1>1. /\ j \in ContainerRecord /\ j.cl = k.cl
      /\ \/ j = k
         \/ /\ j.st = "down" /\ j.cl = "none"
            /\ j.file = "down" \/ ("store" \in Faults /\ j.file = k.file)
    BY Checking
<1> QED BY <1>1 DEF Lawful, Keeps, Passable, Calm, Rested, Synced, Agreeing, Expected, ContainerRecord
=============================================================================
