--------------------------- MODULE Release_proofs ---------------------------
(***************************************************************************)
(* The properties of Sandbox, for every set of containers and of faults.   *)
(*                                                                         *)
(* First DeleteReleasesClient: only delete takes a container out of the    *)
(* map, and only once `rm` has succeeded or found nothing to remove.       *)
(*                                                                         *)
(* Then every action is shown to be a step of one of six kinds (Moved):    *)
(* one container changes the way its operations allow, the map is dropped, *)
(* a cleanup loads it, the bundle goes, a client comes or goes, or nothing *)
(* of this changes.  What each kind keeps (Sound) gives StateMatchesClient,*)
(* TransitionsLegal and CleanupReleasesClient; how far a loop got (WalkOK) *)
(* StartCompletes and StopLeavesNoClient; and what has been stored         *)
(* (DiskOK) DiskNeverUnderstates and Recoverable.                          *)
(***************************************************************************)
EXTENDS Sandbox_proofs

\* The step condition of DeleteReleasesClient.
Releases ==
    \A c \in Containers \ Infra :
       (/\ cst[c] # "absent" /\ cst'[c] = "absent"
        /\ obj' = obj /\ obj # "none")
       => client'[c] = "none"

\* Nothing leaves the map.
LEMMA StayingReleases ==
    ASSUME Reg \subseteq Reg'
    PROVE  Releases
BY DEF Reg, Releases

\* The process lets go of its Sandbox object, or had none.
LEMMA ForgettingReleases ==
    ASSUME Forget \/ obj = "none"
    PROVE  Releases
BY DEF Forget, Releases

\* An operation that cannot take c out of the map.
LEMMA KeptStays ==
    ASSUME NEW c \in Containers, NEW k, Kept(Now(c), k), Effect(c, k)
    PROVE  Reg \subseteq Reg'
BY DEF Kept, Now, Effect, Reg

\* delete on container c.
LEMMA DeleteStepReleases ==
    ASSUME IInv, NEW c \in Containers, NEW k \in delete(c, Now(c)), Effect(c, k)
    PROVE  Releases
<1>1. /\ k \in ContainerRecord
      /\ (Now(c).st # "absent" /\ k.st = "absent" /\ c \notin Infra) => k.cl = "none"
    BY IInvTyped, DeleteReleases
<1>2. /\ \A x \in Containers \ {c} : cst'[x] = "absent" <=> cst[x] = "absent"
      /\ cst'[c] = "absent" <=> k.st = "absent"
      /\ Now(c).st = cst[c]
    BY DEF Effect, Now
<1>3. client'[c] = k.cl
    BY IInvTyped DEF Effect, DataOK
<1> QED BY <1>1, <1>2, <1>3 DEF Releases

\* A container that was not in the map does not leave it.
LEMMA NewcomerReleases ==
    ASSUME NEW c \in Containers, cst[c] = "absent", NEW k, Effect(c, k)
    PROVE  Releases
BY StayingReleases DEF Effect, Reg
-----------------------------------------------------------------------------
(* What the operations have in common. *)

\* Operations that store the sandbox keep their container in the map.
LEMMA OperateReleases ==
    ASSUME IInv, NEW call, NEW c \in Containers, NEW S, AllKept(Now(c), S), NEW repin,
           Operate(call, c, S, repin)
    PROVE  Releases
<1>1. PICK k \in S :
         \/ Touch(c, k)
         \/ \E done, pinned :
              Apply(c, k, cfg, done /\ repin /\ Pinning /\ pinned, done, cfg)
    BY DEF Operate
<1>2. Kept(Now(c), k) /\ k \in ContainerRecord
    BY DEF AllKept, Kept
<1>3. Effect(c, k)
    BY <1>1, <1>2, IInvTyped, TouchEffect, ApplyEffect
<1> QED BY <1>2, <1>3, KeptStays, StayingReleases

\* So do those that do not store it.
LEMMA ProbeReleases ==
    ASSUME IInv, NEW call, NEW c \in Containers, NEW S, AllKept(Now(c), S),
           Probe(call, c, S)
    PROVE  Releases
<1>1. PICK k \in S : Touch(c, k)
    BY DEF Probe
<1>2. Kept(Now(c), k) /\ k \in ContainerRecord
    BY DEF AllKept, Kept
<1>3. Effect(c, k)
    BY <1>1, <1>2, IInvTyped, TouchEffect
<1> QED BY <1>2, <1>3, KeptStays, StayingReleases

\* A round of a walk that does not delete.
LEMMA KeptTouch ==
    ASSUME IInv, NEW c \in Containers, NEW S, AllKept(Now(c), S),
           \E k \in S : Touch(c, k)
    PROVE  Releases
<1>1. PICK k \in S : Touch(c, k)
    OBVIOUS
<1>2. Kept(Now(c), k) /\ k \in ContainerRecord
    BY DEF AllKept, Kept
<1>3. Effect(c, k)
    BY <1>1, <1>2, IInvTyped, TouchEffect
<1> QED BY <1>2, <1>3, KeptStays, StayingReleases

\* DeleteContainer takes a workload out of the map only without a client.
LEMMA RemoveReleases ==
    ASSUME IInv, NEW c \in Containers, NEW err, RemoveFromSandbox(c, err)
    PROVE  Releases
BY RemoveEffect, DeleteStepReleases
-----------------------------------------------------------------------------
(* The actions. *)

\* The steps of the sandbox as a whole take no container out of a live map.
LEMMA SandboxStepReleases == IInv /\ SandboxStep => Releases
<1> SUFFICES ASSUME IInv, SandboxStep PROVE Releases
    OBVIOUS
<1>1. CASE CreateSandbox \/ Drop \/ AbortDone \/ ReleaseSandbox
    BY <1>1, ForgettingReleases DEF CreateSandbox, Drop, AbortDone, ReleaseSandbox
<1>2. CASE InitDone
    <2>1. PICK refresh, done : RefreshAll(refresh, done)
        BY <1>2 DEF InitDone
    <2>2. \A x \in Containers : cst'[x] = "absent" <=> cst[x] = "absent"
        BY <2>1, IInvTyped, RefreshAllEffect
    <2> QED BY <2>2, StayingReleases DEF Reg
<1>3. CASE Delete \/ DeleteDone \/ Start \/ StartDone \/ Stop \/ StopClients \/ StopDone
    <2>1. cst' = cst
        BY <1>3 DEF Delete, DeleteDone, Start, StartDone, Stop, StopClients, StopDone, mem
    <2> QED BY <2>1, StayingReleases DEF Reg
<1> QED BY <1>1, <1>2, <1>3 DEF SandboxStep

\* A container that initContainers gives up has not been in the map.
LEMMA InitContainerReleases ==
    ASSUME NEW c \in Containers
    PROVE  IInv /\ InitContainer(c) => Releases
<1> SUFFICES ASSUME IInv, InitContainer(c) PROVE Releases
    OBVIOUS
<1>1. cst[c] = "absent"
    BY DEF InitContainer, IInv, TodoOK, Reg
<1>2. newContainer(c) \subseteq ContainerRecord
    <2>1. [Now(c) EXCEPT !.st = IF file[c] = "none" THEN "down" ELSE file[c]] \in ContainerRecord
        BY IInvTyped DEF DataOK, ContainerRecord, StateString
    <2> QED BY <2>1, OperationsTyped DEF newContainer
<1>3. PICK n \in newContainer(c) :
         \E k \in {n} \cup create(c, n) :
            Touch(c, k) \/ Touch(c, [k EXCEPT !.st = "absent"])
    BY DEF InitContainer
<1>4. PICK k \in ContainerRecord : Touch(c, k) \/ Touch(c, [k EXCEPT !.st = "absent"])
    BY <1>2, <1>3, OperationsTyped
<1>5. [k EXCEPT !.st = "absent"] \in ContainerRecord
    BY DEF ContainerRecord
<1>6. Effect(c, k) \/ Effect(c, [k EXCEPT !.st = "absent"])
    BY <1>4, <1>5, IInvTyped, TouchEffect
<1> QED BY <1>1, <1>6, NewcomerReleases

\* The rounds of Start, Stop and Delete: only delete takes a container out.
LEMMA WalkRoundReleases ==
    ASSUME NEW c \in Containers
    PROVE  IInv /\ (\/ DeleteEach(c) \/ StartEach(c) \/ EnsureEach(c)
                    \/ StopEach(c) \/ StopClientsEach(c)) => Releases
<1> SUFFICES ASSUME IInv,
                    \/ DeleteEach(c) \/ StartEach(c) \/ EnsureEach(c)
                    \/ StopEach(c) \/ StopClientsEach(c)
             PROVE  Releases
    OBVIOUS
<1>1. Now(c) \in ContainerRecord
    BY IInvTyped
<1>2. CASE DeleteEach(c)
    <2>1. PICK k \in delete(c, Now(c)) : Touch(c, k)
        BY <1>2 DEF DeleteEach
    <2>2. Effect(c, k)
        BY <1>1, <2>1, DeleteReleases, IInvTyped, TouchEffect
    <2> QED BY <2>2, DeleteStepReleases
<1>3. CASE StartEach(c) \/ EnsureEach(c) \/ StopEach(c) \/ StopClientsEach(c)
    <2>1. CASE StartEach(c)
        <3>1. \E k \in start(c, Now(c)) : Touch(c, k)
            BY <2>1 DEF StartEach
        <3> QED BY <1>1, <3>1, StartKept, KeptTouch
    <2>2. CASE EnsureEach(c)
        <3>1. PICK j \in checkState(c, Now(c)) : \E k \in {j} \cup start(c, j) : Touch(c, k)
            BY <2>2 DEF EnsureEach
        <3>2. Kept(Now(c), j) /\ j \in ContainerRecord
            BY <1>1, CheckStateKept DEF AllKept, Kept
        <3>3. AllKept(Now(c), {j} \cup start(c, j))
            BY <3>2, StartKept, KeptTrans DEF AllKept
        <3> QED BY <3>1, <3>3, KeptTouch
    <2>3. CASE StopEach(c) \/ StopClientsEach(c)
        <3>1. \E k \in stop(c, Now(c), TRUE) : Touch(c, k)
            BY <2>3 DEF StopEach, StopClientsEach
        <3> QED BY <1>1, <3>1, StopKept, KeptTouch
    <2> QED BY <1>3, <2>1, <2>2, <2>3
<1> QED BY <1>2, <1>3

\* The operations of the shim on one container of the map.
LEMMA OperationReleases ==
    ASSUME NEW c \in Containers
    PROVE  IInv /\ (\/ PauseContainer(c) \/ ResumeContainer(c) \/ StatusContainer(c)
                    \/ WinResize(c) \/ StartContainer(c) \/ KillContainer(c)
                    \/ \E force \in BOOLEAN : StopContainer(c, force)) => Releases
<1> SUFFICES ASSUME IInv PROVE
             (\/ PauseContainer(c) \/ ResumeContainer(c) \/ StatusContainer(c)
              \/ WinResize(c) \/ StartContainer(c) \/ KillContainer(c)
              \/ \E force \in BOOLEAN : StopContainer(c, force)) => Releases
    OBVIOUS
<1>1. Now(c) \in ContainerRecord
    BY IInvTyped
<1>2. PauseContainer(c) \/ ResumeContainer(c) \/ StartContainer(c) => Releases
    BY <1>1, PauseKept, ResumeKept, StartKept, OperateReleases
       DEF PauseContainer, ResumeContainer, StartContainer
<1>3. ASSUME NEW force \in BOOLEAN
      PROVE  StopContainer(c, force) => Releases
    BY <1>1, StopKept, OperateReleases DEF StopContainer
<1>4. KillContainer(c) \/ StatusContainer(c) => Releases
    BY <1>1, KillKept, EnsureKept, ProbeReleases DEF KillContainer, StatusContainer
<1>5. WinResize(c) => Releases
    <2> DEFINE S == {IF k.st \in {"ready", "running"} THEN k ELSE Fail(k) :
                        k \in checkState(c, Now(c))}
    <2>1. AllKept(Now(c), S)
        BY <1>1, CheckStateKept, ErrorKept DEF AllKept
    <2> HIDE DEF S
    <2>2. Probe("WinResize", c, S) => Releases
        BY <2>1, ProbeReleases
    <2> QED BY <2>2 DEF WinResize, S
<1> QED BY <1>2, <1>3, <1>4, <1>5

\* UpdateContainer touches the state of its container only.
LEMMA UpdateReleases ==
    ASSUME NEW c \in Containers
    PROVE  IInv /\ UpdateContainer(c) => Releases
<1> SUFFICES ASSUME IInv, UpdateContainer(c) PROVE Releases
    OBVIOUS
<1>1. Now(c) \in ContainerRecord
    BY IInvTyped
<1>2. PICK k, changed, pinned, done :
         /\ k \in {Now(c)} \cup checkState(c, Now(c))
         /\ Apply(c, k, cfg, changed \/ (Pinning /\ pinned), done, cfg)
    BY DEF UpdateContainer
<1>3. Kept(Now(c), k) /\ k \in ContainerRecord
    BY <1>1, <1>2, KeptRefl, CheckStateKept DEF AllKept, Kept
<1>4. Effect(c, k)
    BY <1>2, <1>3, IInvTyped, ApplyEffect
<1> QED BY <1>3, <1>4, KeptStays, StayingReleases

\* CreateContainer works on a container that is not in the map.
LEMMA CreateContainerReleases ==
    ASSUME NEW c \in Containers
    PROVE  IInv /\ CreateContainer(c) => Releases
<1> SUFFICES ASSUME IInv, CreateContainer(c) PROVE Releases
    OBVIOUS
<1>1. cst[c] = "absent"
    BY DEF CreateContainer, Reg
<1>2. newContainer(c) \subseteq ContainerRecord
    <2>1. [Now(c) EXCEPT !.st = IF file[c] = "none" THEN "down" ELSE file[c]] \in ContainerRecord
        BY IInvTyped DEF DataOK, ContainerRecord, StateString
    <2> QED BY <2>1, OperationsTyped DEF newContainer
<1>3. ASSUME NEW k \in ContainerRecord, NEW refresh, NEW kept, NEW err,
             CreateFailed(c, k, refresh, kept, err)
      PROVE  Releases
    <2>1. [k EXCEPT !.st = "absent"] \in ContainerRecord
        BY DEF ContainerRecord
    <2>2. Effect(c, [k EXCEPT !.st = "absent"])
        BY <1>3, <2>1, IInvTyped, ApplyEffect DEF CreateFailed
    <2> QED BY <1>1, <2>2, NewcomerReleases
<1>4. PICK n \in newContainer(c) :
         \/ CreateFailed(c, n, FALSE, TRUE, "fail")
         \/ \E k \in create(c, n) :
              \/ CreateFailed(c, k, FALSE, FALSE, k.err)
              \/ \E refresh, h : h \in stop(c, k, TRUE)
                                 /\ CreateFailed(c, h, refresh, FALSE, "fail")
              \/ Apply(c, k, cfg \cup {c}, Pinning, TRUE, cfg \cup {c})
    BY DEF CreateContainer
<1>5. CASE CreateFailed(c, n, FALSE, TRUE, "fail")
    BY <1>2, <1>3, <1>5
<1>6. ASSUME NEW k \in create(c, n)
      PROVE  k \in ContainerRecord /\ stop(c, k, TRUE) \subseteq ContainerRecord
    <2>1. n \in ContainerRecord
        BY <1>2, <1>4
    <2>2. k \in ContainerRecord
        BY <1>6, <2>1, OperationsTyped
    <2> QED BY <2>2, OperationsTyped
<1>7. ASSUME NEW k \in create(c, n), Apply(c, k, cfg \cup {c}, Pinning, TRUE, cfg \cup {c})
      PROVE  Releases
    <2>1. Effect(c, k)
        BY <1>6, <1>7, IInvTyped, ApplyEffect
    <2> QED BY <1>1, <2>1, NewcomerReleases
<1> QED BY <1>3, <1>4, <1>5, <1>6, <1>7

\* The cleanup process releases the client of what it deletes.
LEMMA CleanupReleases == IInv /\ CleanupStep => Releases
<1> SUFFICES ASSUME IInv, CleanupStep PROVE Releases
    OBVIOUS
<1>1. CASE \E c \in Containers : CleanupContainer(c)
    BY <1>1, ForgettingReleases DEF CleanupContainer
<1>2. CASE CleanupStop
    <2>1. CASE op.id \notin Reg
        BY <1>2, <2>1, StayingReleases DEF CleanupStop, Reg
    <2>2. CASE op.id \in Reg
        <3>1. PICK k, done :
                 /\ k \in stop(op.id, Now(op.id), FALSE)
                 /\ Apply(op.id, k, cfg, FALSE, done, cfg)
            BY <1>2, <2>2 DEF CleanupStop
        <3>2. Kept(Now(op.id), k) /\ k \in ContainerRecord
            BY <3>1, IInvTyped, StopKept DEF AllKept, Kept
        <3>3. Effect(op.id, k)
            BY <3>1, <3>2, IInvTyped, ApplyEffect
        <3> QED BY <3>2, <3>3, IInvTyped, KeptStays, StayingReleases
    <2> QED BY <2>1, <2>2
<1>3. CASE CleanupDelete
    <2>1. CASE op.id \notin Reg
        BY <1>3, <2>1, StayingReleases DEF CleanupDelete, Reg
    <2>2. CASE op.id \in Reg
        BY <1>3, <2>2, IInvTyped, RemoveReleases DEF CleanupDelete
    <2> QED BY <2>1, <2>2
<1>4. CASE CleanupSandbox
    BY <1>4, StayingReleases DEF CleanupSandbox, Reg
<1> QED BY <1>1, <1>2, <1>3, <1>4 DEF CleanupStep

\* A crash ends the sandbox object; the rest leaves the map alone.
LEMMA EnvironmentReleases == IInv /\ Environment => Releases
<1> SUFFICES ASSUME IInv, Environment PROVE Releases
    OBVIOUS
<1>1. CASE Crash
    BY <1>1, ForgettingReleases DEF Crash
<1>2. CASE \/ RemoveBundle
           \/ \E c \in Containers : \/ ClientVanishes(c)
                                     \/ \E status : ClientAppears(c, status)
    BY <1>2, StayingReleases DEF RemoveBundle, ClientVanishes, ClientAppears, mem, Reg
<1> QED BY <1>1, <1>2 DEF Environment

\* Every step of the specification.
LEMMA NextReleases == IInv /\ [Next]_vars => Releases
<1> SUFFICES ASSUME IInv, [Next]_vars PROVE Releases
    OBVIOUS
<1>1. ASSUME NEW c \in Containers, ContainerStep(c)
      PROVE  Releases
    BY <1>1, InitContainerReleases, WalkRoundReleases, OperationReleases, UpdateReleases
       DEF ContainerStep
<1>2. ASSUME NEW c \in PodContainers, PodContainerStep(c)
      PROVE  Releases
    <2>1. CASE DeleteContainer(c)
        BY <2>1, RemoveReleases DEF DeleteContainer, PodContainers
    <2> QED BY <1>2, <2>1, CreateContainerReleases, OperationReleases
            DEF PodContainerStep, PodContainers
<1>3. CASE UNCHANGED vars
    BY <1>3, StayingReleases DEF vars, Reg
<1> QED BY <1>1, <1>2, <1>3, SandboxStepReleases, CleanupReleases, EnvironmentReleases DEF Next

\* A workload leaves the map of a live sandbox only together with its client
\* (container.delete and its callers), for every set of containers, whatever
\* micad refuses, whichever write fails and wherever the process crashes.
THEOREM DeleteSafety == Spec => DeleteReleasesClient
<1>1. IInv /\ [Next]_vars => Releases
    BY NextReleases
<1>2. Releases <=> \A c \in Containers \ Infra :
                      (/\ cst[c] # "absent" /\ cst'[c] = "absent"
                       /\ obj' = obj /\ obj # "none")
                      => client'[c] = "none"
    BY DEF Releases
<1> QED BY <1>1, <1>2, SpecIInv, PTL DEF Spec, DeleteReleasesClient
-----------------------------------------------------------------------------
(* What a step does to states, files and clients, whichever operation it      *)
(* belongs to.  The proofs below need no more of it.                          *)

\* Container x as an operation that ended container c as k leaves it, before
\* the totals are recomputed.
Outcome(c, k, x) == IF x = c THEN k ELSE Now(x)

\* Recomputing the totals may then mark x down, if its client is gone; the
\* process that cleans up in another bundle writes no state file.
Applied(c, k) ==
    /\ client' = [client EXCEPT ![c] = k.cl]
    /\ \A x \in Containers :
          /\ \/ cst'[x] = Outcome(c, k, x).st /\ file'[x] = Outcome(c, k, x).file
             \/ cst'[x] = Outcome(c, k, x).st /\ obj = "cleanup" /\ file'[x] = file[x]
             \/ /\ cst'[x] = "down" /\ x \notin Infra
                /\ Outcome(c, k, x).st # "absent" /\ Outcome(c, k, x).cl = "none"
                /\ \/ file'[x] = "down"
                   \/ "store" \in Faults /\ file'[x] = Outcome(c, k, x).file
                   \/ obj = "cleanup" /\ file'[x] = file[x]

\* Every operation applies its outcome that way.
LEMMA ApplyApplied ==
    ASSUME DataOK, NEW c \in Containers, NEW k \in ContainerRecord,
           NEW inner, NEW outer, NEW refresh, NEW done,
           Apply(c, k, inner, refresh, done, outer)
    PROVE  Applied(c, k)
<1> DEFINE states  == [cst EXCEPT ![c] = k.st]
           clients == [client EXCEPT ![c] = k.cl]
           gone    == IF refresh THEN Gone(states, clients) ELSE {}
<1>1. client' = clients /\ cst' = [x \in Containers |-> IF x \in gone THEN "down" ELSE states[x]]
    BY DEF Apply
<1>2. PICK F \in Written(gone) :
         file' = IF InOwnersBundle
                 THEN [x \in Containers |->
                         IF x \in F THEN "down" ELSE IF x = c THEN k.file ELSE file[x]]
                 ELSE file
    BY DEF Apply
<1>3. F \subseteq gone /\ (F = gone \/ "store" \in Faults)
    BY <1>2 DEF Written
<1>4. \A x \in Containers : /\ states[x] = Outcome(c, k, x).st
                            /\ clients[x] = Outcome(c, k, x).cl
                            /\ (IF x = c THEN k.file ELSE file[x]) = Outcome(c, k, x).file
    BY DEF DataOK, Outcome, Now
<1>5. \A x \in gone : /\ x \in Containers /\ x \notin Infra
                      /\ states[x] # "absent" /\ clients[x] = "none"
    BY DEF Gone
<1>6. InOwnersBundle \/ (obj = "cleanup" /\ file' = file)
    BY <1>2 DEF InOwnersBundle
<1> HIDE DEF states, clients, gone
<1>7. ASSUME NEW x \in Containers
      PROVE  \/ cst'[x] = Outcome(c, k, x).st /\ file'[x] = Outcome(c, k, x).file
             \/ cst'[x] = Outcome(c, k, x).st /\ obj = "cleanup" /\ file'[x] = file[x]
             \/ /\ cst'[x] = "down" /\ x \notin Infra
                /\ Outcome(c, k, x).st # "absent" /\ Outcome(c, k, x).cl = "none"
                /\ \/ file'[x] = "down"
                   \/ "store" \in Faults /\ file'[x] = Outcome(c, k, x).file
                   \/ obj = "cleanup" /\ file'[x] = file[x]
    <2>1. CASE InOwnersBundle
        <3>1. file'[x] = IF x \in F THEN "down" ELSE Outcome(c, k, x).file
            BY <1>2, <1>4, <2>1
        <3>2. cst'[x] = IF x \in gone THEN "down" ELSE Outcome(c, k, x).st
            BY <1>1, <1>4
        <3> QED BY <1>3, <1>4, <1>5, <3>1, <3>2
    <2>2. CASE obj = "cleanup" /\ file' = file
        <3>1. cst'[x] = IF x \in gone THEN "down" ELSE Outcome(c, k, x).st
            BY <1>1, <1>4
        <3> QED BY <1>4, <1>5, <2>2, <3>1
    <2> QED BY <1>6, <2>1, <2>2
<1> QED BY <1>1, <1>7 DEF Applied, clients

\* And nothing else when the totals are not recomputed.
LEMMA TouchApplied ==
    ASSUME DataOK, NEW c \in Containers, NEW k \in ContainerRecord, Touch(c, k)
    PROVE  /\ Applied(c, k)
           /\ cst' = [cst EXCEPT ![c] = k.st]
           /\ client' = [client EXCEPT ![c] = k.cl]
<1>1. Applied(c, k)
    BY ApplyApplied DEF Touch
<1> QED BY <1>1 DEF Touch, Apply, DataOK

\* Recomputing the totals alone.
LEMMA RefreshAllApplied ==
    ASSUME DataOK, NEW c \in Containers, NEW refresh, NEW done,
           RefreshAll(refresh, done)
    PROVE  Applied(c, Now(c))
<1> DEFINE gone == IF refresh THEN Gone(cst, client) ELSE {}
<1>1. cst' = [x \in Containers |-> IF x \in gone THEN "down" ELSE cst[x]] /\ client' = client
    BY DEF RefreshAll
<1>2. PICK F \in Written(gone) : file' = [x \in Containers |-> IF x \in F THEN "down" ELSE file[x]]
    BY DEF RefreshAll
<1>3. F \subseteq gone /\ (F = gone \/ "store" \in Faults)
    BY <1>2 DEF Written
<1>4. \A x \in gone : x \in Containers /\ x \notin Infra /\ cst[x] # "absent" /\ client[x] = "none"
    BY DEF Gone
<1>5. \A x \in Containers : /\ Outcome(c, Now(c), x).st = cst[x]
                            /\ Outcome(c, Now(c), x).file = file[x]
                            /\ Outcome(c, Now(c), x).cl = client[x]
    BY DEF Outcome, Now
<1>6. client' = [client EXCEPT ![c] = Now(c).cl]
    BY <1>1 DEF Now, DataOK
<1> HIDE DEF gone
<1> QED BY <1>1, <1>2, <1>3, <1>4, <1>5, <1>6 DEF Applied

\* Without a Sandbox object there is no map and no operation; the cleanup
\* process runs the operations of a cleanup only.
ObjectOK ==
    /\ obj = "none" => Reg = {} /\ op.kind = "idle"
    /\ obj = "cleanup" => op.kind \in {"cleanStop", "cleanDelete", "cleanSandbox", "drop"}

\* The record newContainer starts from.
Found(c) == [Now(c) EXCEPT !.st = IF file[c] = "none" THEN "down" ELSE file[c]]

\* A new container got as far as k.
Begun(c, k) ==
    /\ k \in ContainerRecord
    /\ client[c] = "none" => k.cl = "none"
    /\ Calm(Found(c)) => Calm(k)
    /\ Rested(c, Found(c)) => Rested(c, k)
    /\ (Undisturbed /\ Agreeing(c, Found(c))) => Agreeing(c, k)

\* What may become of container c in one step: nothing, what its operations
\* allow, or the end of a creation, successful or not.
Reached(c, k) ==
    \/ k = Now(c)
    \/ cst[c] # "absent" /\ Lawful(c, Now(c), k)
    \/ /\ cst[c] = "absent" /\ Begun(c, k) /\ k.st \in {"absent", "ready"}
       /\ "store" \notin Faults => Synced(k)

\* The cleanup process fills its map from the files.
Loaded ==
    /\ obj = "none" /\ obj' = "cleanup"
    /\ client' = client
    /\ \A x \in Containers :
          /\ cst'[x] \in {"absent", "down"} \/ (file[x] # "none" /\ cst'[x] = file[x])
          /\ file'[x] \in {file[x], "down"}

\* The shim does anything, a cleanup only takes the client away.
Allowed(c, k) == obj = "shim" \/ (obj = "cleanup" /\ k.cl \in {client[c], "none"})

Worked == \E c \in Containers, k \in ContainerRecord :
             Applied(c, k) /\ Reached(c, k) /\ Allowed(c, k) /\ obj' = obj
Emptied == cst' = NoContainers /\ obj' # obj /\ UNCHANGED <<file, client>>

\* The kinds of step there are.
Moved ==
    \/ Worked \/ Emptied \/ Loaded \/ RemoveBundle
    \/ UNCHANGED <<obj, cst, file, client>>
    \/ \E c \in Containers :
          ClientVanishes(c) \/ \E status \in {"idle", "running"} : ClientAppears(c, status)

\* The record of a container that is not in the map yet.
LEMMA FoundTyped ==
    ASSUME DataOK, NEW c \in Containers
    PROVE  /\ Found(c) \in ContainerRecord
           /\ Found(c).cl = client[c] /\ Found(c).file = file[c]
           /\ Found(c).st = IF file[c] = "none" THEN "down" ELSE file[c]
           /\ Found(c).err = "nil"
BY NowTyped DEF DataOK, Found, Now, ContainerRecord, StateString, Errors

\* newContainer, and create after it.
LEMMA CreatingBegun ==
    ASSUME DataOK, NEW c \in Containers, NEW n \in newContainer(c)
    PROVE  /\ Begun(c, n)
           /\ \A k \in create(c, n) :
                 /\ Begun(c, k)
                 /\ k.err = "nil" => /\ k.st = "ready" /\ k.stored
                                     /\ "store" \notin Faults => Synced(k)
<1>1. Found(c) \in ContainerRecord /\ Found(c).cl = client[c] /\ n \in checkState(c, Found(c))
    BY FoundTyped DEF newContainer, Found
<1>2. Keeps(c, Found(c), n) /\ (Agreeing(c, Found(c)) => Agreeing(c, n))
    BY <1>1, CheckingLawful DEF Lawful
<1>3. n \in ContainerRecord
    BY <1>2 DEF Keeps
<1>4. ASSUME NEW k \in create(c, n)
      PROVE  /\ Begun(c, k)
             /\ k.err = "nil" => /\ k.st = "ready" /\ k.stored
                                 /\ "store" \notin Faults => Synced(k)
    <2>1. /\ Keeps(c, n, k) /\ (Agreeing(c, n) => Agreeing(c, k))
          /\ k.err = "nil" => k.st = "ready" /\ k.stored
          /\ (k.err = "nil" /\ "store" \notin Faults) => k.file = "ready"
        BY <1>3, Creating
    <2> QED BY <1>1, <1>2, <2>1 DEF Keeps, Begun, Synced
<1> QED BY <1>1, <1>2, <1>4 DEF Keeps, Begun

\* A forced stop of a new container.
LEMMA StoppingBegun ==
    ASSUME NEW c \in Containers, NEW k, Begun(c, k), NEW h \in stop(c, k, TRUE)
    PROVE  Begun(c, h)
BY Stopping DEF Begun, Lawful, Keeps

\* Giving a new container up.
LEMMA GivenUp ==
    ASSUME NEW c \in Containers, cst[c] = "absent", NEW k, Begun(c, k)
    PROVE  /\ [k EXCEPT !.st = "absent"] \in ContainerRecord
           /\ Reached(c, [k EXCEPT !.st = "absent"])
<1> DEFINE j == [k EXCEPT !.st = "absent"]
<1>1. j \in ContainerRecord /\ j.st = "absent" /\ j.file = k.file /\ j.cl = k.cl
    BY DEF Begun, ContainerRecord
<1>2. k.cl \in Expected("absent")
    BY DEF Begun, ContainerRecord, Expected
<1> HIDE DEF j
<1>3. Begun(c, j) /\ Synced(j)
    BY <1>1, <1>2 DEF Begun, Calm, Rested, Agreeing, Synced
<1> QED BY <1>1, <1>3 DEF Reached, j

\* A step of an operation that touches container c only.
LEMMA TouchMoved ==
    ASSUME IInv, NEW c \in Containers, NEW k \in ContainerRecord, Reached(c, k),
           \/ Touch(c, k)
           \/ \E inner, refresh, done, outer : Apply(c, k, inner, refresh, done, outer),
           obj' = obj, Allowed(c, k)
    PROVE  Worked
<1>1. Applied(c, k)
    BY IInvTyped, TouchApplied, ApplyApplied
<1> QED BY <1>1 DEF Worked

\* An operation on a container of the map, ending in one of S.
LEMMA LawfulMoved ==
    ASSUME IInv, NEW c \in Containers, c \in Reg, NEW k, Lawful(c, Now(c), k),
           \/ Touch(c, k)
           \/ \E inner, refresh, done, outer : Apply(c, k, inner, refresh, done, outer),
           obj' = obj, Allowed(c, k)
    PROVE  Worked
BY TouchMoved DEF Reached, Lawful, Keeps, Reg

\* The operations of a container of the map.
LEMMA AllLawful ==
    ASSUME IInv, NEW c \in Containers
    PROVE  /\ Lawful(c, Now(c), Now(c)) /\ Now(c).err = "nil"
           /\ \A k \in checkState(c, Now(c)) : Lawful(c, Now(c), k)
           /\ \A k \in ensureClientPresence(c, Now(c)) : Lawful(c, Now(c), k)
           /\ \A force \in BOOLEAN : \A k \in stop(c, Now(c), force) : Lawful(c, Now(c), k)
           /\ \A k \in start(c, Now(c)) : Lawful(c, Now(c), k)
           /\ \A k \in delete(c, Now(c)) : Lawful(c, Now(c), k)
           /\ \A k \in pause(c, Now(c)) : Lawful(c, Now(c), k)
           /\ \A s : \A k \in kill(c, Now(c), s) : Lawful(c, Now(c), k)
           /\ \A s : \A k \in resume(c, Now(c), s) : Lawful(c, Now(c), k)
<1>1. Now(c) \in ContainerRecord /\ Now(c).err = "nil"
    BY IInvTyped DEF Now
<1>2. Lawful(c, Now(c), Now(c))
    BY <1>1 DEF Lawful, Keeps, Passable
<1>3. \A k \in checkState(c, Now(c)) : Lawful(c, Now(c), k)
    BY <1>1, CheckingLawful
<1>4. \A k \in ensureClientPresence(c, Now(c)) : Lawful(c, Now(c), k)
    BY <1>1, Ensuring, EnsuredLawful
<1>5. \A force \in BOOLEAN : \A k \in stop(c, Now(c), force) : Lawful(c, Now(c), k)
    BY <1>1, Stopping
<1>6. \A k \in start(c, Now(c)) : Lawful(c, Now(c), k)
    BY <1>1, Starting
<1>7. \A k \in delete(c, Now(c)) : Lawful(c, Now(c), k)
    BY <1>1, Deleting
<1>8. \A k \in pause(c, Now(c)) : Lawful(c, Now(c), k)
    BY <1>1, Pausing
<1>9. \A s : \A k \in kill(c, Now(c), s) : Lawful(c, Now(c), k)
    BY <1>1, Killing
<1>10. \A s : \A k \in resume(c, Now(c), s) : Lawful(c, Now(c), k)
    BY <1>1, Resuming
<1> QED BY ONLY <1>1, <1>2, <1>3, <1>4, <1>5, <1>6, <1>7, <1>8, <1>9, <1>10

\* The second look of EnsureEach: checkState, then start.
LEMMA EnsureEachLawful ==
    ASSUME IInv, NEW c \in Containers, NEW j \in checkState(c, Now(c)), NEW k \in start(c, j),
           j.st # "running"
    PROVE  Lawful(c, Now(c), k)
<1>1. Now(c) \in ContainerRecord
    BY IInvTyped
<1>2. /\ j \in ContainerRecord /\ j.cl = Now(c).cl
      /\ j = Now(c) \/ (j.st = "down" /\ j.cl = "none" /\ c \notin Infra)
    BY <1>1, Checking
<1>3. CASE j = Now(c)
    BY <1>3, AllLawful
<1>4. CASE j.st = "down" /\ j.cl = "none" /\ c \notin Infra
    <2>1. \A i \in ensureClientPresence(c, j) : i \in {j, NotFound(j)} /\ i.err # "nil"
        BY <1>2, <1>4 DEF ensureClientPresence, checkState, ClientNotExist, NotFound, ContainerRecord
    <2>2. k \in {j, NotFound(j)}
        BY <2>1 DEF start, Ok, Bad
    <2> QED BY <1>2, <2>2, AllLawful, ErrorKeeps
<1> QED BY <1>2, <1>3, <1>4
-----------------------------------------------------------------------------
(* Every action is one of the kinds of step. *)

\* The rounds of the walks work on one container of the shim's map.
LEMMA RoundTouches ==
    ASSUME IInv, ObjectOK, NEW c \in Containers,
           \/ DeleteEach(c) \/ StartEach(c) \/ EnsureEach(c)
           \/ StopEach(c) \/ StopClientsEach(c)
    PROVE  /\ c \in Reg /\ obj = "shim" /\ obj' = obj
           /\ \E k : Lawful(c, Now(c), k) /\ Touch(c, k)
<1>1. op.kind \in Walks /\ c \in op.todo /\ obj' = obj
    BY DEF DeleteEach, StartEach, EnsureEach, StopEach, StopClientsEach, Walks
<1>2. c \in Reg /\ obj = "shim"
    BY <1>1 DEF IInv, TypeOK, TodoOK, ObjectOK, Walks
<1>3. CASE DeleteEach(c)
    BY <1>1, <1>2, <1>3, AllLawful DEF DeleteEach
<1>4. CASE StartEach(c)
    BY <1>1, <1>2, <1>4, AllLawful DEF StartEach
<1>5. CASE EnsureEach(c)
    <2>1. PICK j \in checkState(c, Now(c)) :
             \E k \in IF j.st = "running" THEN {j} ELSE start(c, j) : Touch(c, k)
        BY <1>5 DEF EnsureEach
    <2>2. Lawful(c, Now(c), j)
        BY AllLawful
    <2>3. j.st # "running" => \A k \in start(c, j) : Lawful(c, Now(c), k)
        BY EnsureEachLawful
    <2> QED BY <1>1, <1>2, <2>1, <2>2, <2>3
<1>6. CASE StopEach(c) \/ StopClientsEach(c)
    BY <1>1, <1>2, <1>6, AllLawful DEF StopEach, StopClientsEach
<1> QED BY <1>3, <1>4, <1>5, <1>6

\* So they are steps of the first kind.
LEMMA RoundMoved ==
    ASSUME IInv, ObjectOK, NEW c \in Containers,
           \/ DeleteEach(c) \/ StartEach(c) \/ EnsureEach(c)
           \/ StopEach(c) \/ StopClientsEach(c)
    PROVE  Worked
BY RoundTouches, LawfulMoved DEF Allowed

\* The calls on a container of the map.
LEMMA CallMoved ==
    ASSUME IInv, NEW c \in Containers,
           \/ PauseContainer(c) \/ ResumeContainer(c) \/ StatusContainer(c)
           \/ WinResize(c) \/ UpdateContainer(c) \/ StartContainer(c) \/ KillContainer(c)
           \/ \E force \in BOOLEAN : StopContainer(c, force)
    PROVE  Worked
<1>1. ASSUME NEW call, NEW S, \A k \in S : Lawful(c, Now(c), k), NEW repin,
             Operate(call, c, S, repin) \/ Probe(call, c, S)
      PROVE  Worked
    <2>1. \E k \in S : \/ Touch(c, k)
                       \/ \E done, pinned :
                            Apply(c, k, cfg, done /\ repin /\ Pinning /\ pinned, done, cfg)
        BY <1>1 DEF Operate, Probe
    <2>2. PICK k \in S : \/ Touch(c, k)
                         \/ \E inner, refresh, done, outer :
                              Apply(c, k, inner, refresh, done, outer)
        BY <2>1
    <2>3. c \in Reg /\ obj' = obj /\ obj = "shim"
        BY <1>1 DEF Operate, Probe, Calling, AtRest
    <2> QED BY <1>1, <2>2, <2>3, LawfulMoved DEF Allowed
<1>2. CASE PauseContainer(c) \/ ResumeContainer(c) \/ StartContainer(c)
    BY <1>1, <1>2, AllLawful DEF PauseContainer, ResumeContainer, StartContainer
<1>3. CASE \E force \in BOOLEAN : StopContainer(c, force)
    BY <1>1, <1>3, AllLawful DEF StopContainer
<1>4. CASE KillContainer(c) \/ StatusContainer(c)
    BY <1>1, <1>4, AllLawful DEF KillContainer, StatusContainer
<1>5. CASE WinResize(c)
    <2> DEFINE S == {IF k.st \in {"ready", "running"} THEN k ELSE Fail(k) :
                        k \in checkState(c, Now(c))}
    <2>1. ASSUME NEW k \in checkState(c, Now(c))
          PROVE  Lawful(c, Now(c), k) /\ Lawful(c, Now(c), Fail(k))
        <3>1. Lawful(c, Now(c), k)
            BY AllLawful
        <3> QED BY <3>1, ErrorKeeps DEF Lawful, Keeps
    <2>2. \A k \in S : Lawful(c, Now(c), k)
        BY <2>1
    <2> HIDE DEF S
    <2>3. Probe("WinResize", c, S) => Worked
        BY <1>1, <2>2
    <2> QED BY <1>5, <2>3 DEF WinResize, S
<1>6. CASE UpdateContainer(c)
    <2>1. PICK k, changed, pinned, done :
             /\ k \in {Now(c)} \cup checkState(c, Now(c))
             /\ Apply(c, k, cfg, changed \/ (Pinning /\ pinned), done, cfg)
        BY <1>6 DEF UpdateContainer
    <2>2. \E inner, refresh, d, outer : Apply(c, k, inner, refresh, d, outer)
        BY <2>1
    <2>3. Lawful(c, Now(c), k)
        BY <2>1, AllLawful
    <2> QED BY <1>6, <2>2, <2>3, LawfulMoved DEF UpdateContainer, Calling, AtRest, Allowed
<1> QED BY <1>2, <1>3, <1>4, <1>5, <1>6

\* Taking a container out of the sandbox.
LEMMA RemoveMoved ==
    ASSUME IInv, NEW c \in Containers, c \in Reg, NEW err, RemoveFromSandbox(c, err),
           obj' = obj, obj # "none"
    PROVE  Worked
<1>1. PICK k \in delete(c, Now(c)) :
         \/ Touch(c, k)
         \/ \E pinned, done :
              Apply(c, k, cfg, ~Static \/ (Pinning /\ pinned), pinned /\ done, cfg \ {c})
    BY DEF RemoveFromSandbox
<1>2. \/ Touch(c, k)
      \/ \E inner, refresh, done, outer : Apply(c, k, inner, refresh, done, outer)
    BY <1>1
<1>3. Lawful(c, Now(c), k)
    BY AllLawful
<1>4. Allowed(c, k)
    <2>1. k.cl \in {Now(c).cl, "none"}
        BY IInvTyped, AllLawful, Deleting
    <2> QED BY <2>1 DEF Allowed, Now, IInv, TypeOK
<1> QED BY <1>2, <1>3, <1>4, LawfulMoved

\* A container that the walk of initContainers, or CreateContainer, adds.
LEMMA BegunMoved ==
    ASSUME IInv, NEW c \in Containers, cst[c] = "absent", NEW k, Begun(c, k), NEW j,
           \/ j = [k EXCEPT !.st = "absent"]
           \/ j = k /\ k.st = "ready" /\ ("store" \notin Faults => Synced(k)),
           \/ Touch(c, j)
           \/ \E inner, refresh, done, outer : Apply(c, j, inner, refresh, done, outer),
           obj' = obj, obj = "shim"
    PROVE  Worked
<1>1. CASE j = [k EXCEPT !.st = "absent"]
    <2>1. j \in ContainerRecord /\ Reached(c, j)
        BY <1>1, GivenUp
    <2> QED BY <2>1, TouchMoved DEF Allowed
<1>2. CASE j = k /\ k.st = "ready" /\ ("store" \notin Faults => Synced(k))
    <2>1. j \in ContainerRecord /\ Reached(c, j)
        BY <1>2 DEF Reached, Begun
    <2> QED BY <2>1, TouchMoved DEF Allowed
<1> QED BY <1>1, <1>2

\* A round of initContainers.
LEMMA InitContainerMoved ==
    ASSUME IInv, ObjectOK, NEW c \in Containers, InitContainer(c)
    PROVE  Worked
<1>1. cst[c] = "absent" /\ obj = "shim" /\ obj' = obj
    <2>1. op.kind = "init" /\ c \in op.todo
        BY DEF InitContainer
    <2>2. obj' = obj
        BY DEF InitContainer, AbortCreate
    <2> QED BY <2>1, <2>2 DEF IInv, TypeOK, TodoOK, Reg, ObjectOK
<1>2. PICK n \in newContainer(c) :
         \/ Touch(c, [n EXCEPT !.st = "absent"])
         \/ \E k \in create(c, n) : \/ k.err = "nil" /\ Touch(c, k)
                                    \/ Touch(c, [k EXCEPT !.st = "absent"])
    BY DEF InitContainer
<1>3. /\ Begun(c, n)
      /\ \A k \in create(c, n) : /\ Begun(c, k)
                                 /\ k.err = "nil" => /\ k.st = "ready"
                                                     /\ "store" \notin Faults => Synced(k)
    BY IInvTyped, CreatingBegun
<1>4. CASE Touch(c, [n EXCEPT !.st = "absent"])
    BY <1>1, <1>3, <1>4, BegunMoved
<1>5. ASSUME NEW k \in create(c, n), k.err = "nil" /\ Touch(c, k)
      PROVE  Worked
    BY <1>1, <1>3, <1>5, BegunMoved
<1>6. ASSUME NEW k \in create(c, n), Touch(c, [k EXCEPT !.st = "absent"])
      PROVE  Worked
    BY <1>1, <1>3, <1>6, BegunMoved
<1> QED BY <1>2, <1>4, <1>5, <1>6

\* CreateContainer, with what it does when pinning or storing fails.
LEMMA CreateContainerMoved ==
    ASSUME IInv, NEW c \in Containers, CreateContainer(c)
    PROVE  Worked
<1>1. cst[c] = "absent" /\ obj' = obj /\ obj = "shim"
    BY DEF CreateContainer, Calling, AtRest, Reg
<1>2. PICK n \in newContainer(c) :
         \/ CreateFailed(c, n, FALSE, TRUE, "fail")
         \/ \E k \in create(c, n) :
              \/ CreateFailed(c, k, FALSE, FALSE, k.err)
              \/ \E refresh, h : h \in stop(c, k, TRUE)
                                 /\ CreateFailed(c, h, refresh, FALSE, "fail")
              \/ k.err = "nil" /\ Apply(c, k, cfg \cup {c}, Pinning, TRUE, cfg \cup {c})
    BY DEF CreateContainer
<1>3. /\ Begun(c, n)
      /\ \A k \in create(c, n) : /\ Begun(c, k)
                                 /\ k.err = "nil" => /\ k.st = "ready"
                                                     /\ "store" \notin Faults => Synced(k)
    BY IInvTyped, CreatingBegun
<1>4. ASSUME NEW k, Begun(c, k), NEW refresh, NEW kept, NEW err,
             CreateFailed(c, k, refresh, kept, err)
      PROVE  Worked
    <2>1. \E inner, r, done, outer : Apply(c, [k EXCEPT !.st = "absent"], inner, r, done, outer)
        BY <1>4 DEF CreateFailed
    <2> QED BY <1>1, <1>4, <2>1, BegunMoved
<1>5. CASE CreateFailed(c, n, FALSE, TRUE, "fail")
    BY <1>3, <1>4, <1>5
<1>6. ASSUME NEW k \in create(c, n), CreateFailed(c, k, FALSE, FALSE, k.err)
      PROVE  Worked
    BY <1>3, <1>4, <1>6
<1>7. ASSUME NEW k \in create(c, n), NEW refresh, NEW h \in stop(c, k, TRUE),
             CreateFailed(c, h, refresh, FALSE, "fail")
      PROVE  Worked
    <2>1. Begun(c, h)
        BY <1>3, StoppingBegun
    <2> QED BY <1>4, <1>7, <2>1
<1>8. ASSUME NEW k \in create(c, n), k.err = "nil",
             Apply(c, k, cfg \cup {c}, Pinning, TRUE, cfg \cup {c})
      PROVE  Worked
    <2>1. \E inner, r, done, outer : Apply(c, k, inner, r, done, outer)
        BY <1>8
    <2> QED BY <1>1, <1>3, <1>8, <2>1, BegunMoved
<1> QED BY <1>2, <1>5, <1>6, <1>7, <1>8

\* The steps of the sandbox as a whole: only the tail of initContainers
\* changes a container.
LEMMA SandboxStepMoved == IInv /\ ObjectOK /\ SandboxStep => Moved
<1> SUFFICES ASSUME IInv, ObjectOK, SandboxStep PROVE Moved
    OBVIOUS
<1>1. CASE CreateSandbox \/ Drop \/ AbortDone \/ ReleaseSandbox
    BY <1>1 DEF CreateSandbox, Drop, AbortDone, ReleaseSandbox, CleanSandboxStorage, Forget,
                disk, Moved, Emptied, Calling, AtRest, ObjectOK, IInv, TypeOK
<1>2. CASE InitDone
    <2>1. PICK refresh, done : RefreshAll(refresh, done)
        BY <1>2 DEF InitDone
    <2>2. obj' = obj
        BY <1>2 DEF InitDone, AbortCreate
    <2>3. obj = "shim"
        BY <1>2 DEF InitDone, ObjectOK, IInv, TypeOK
    <2>4. Applied(Owner, Now(Owner)) /\ Now(Owner) \in ContainerRecord
        BY <2>1, IInvTyped, RefreshAllApplied, SandboxAssumption
    <2>5. Worked
        BY <2>2, <2>3, <2>4, SandboxAssumption DEF Worked, Reached, Allowed
    <2> QED BY <2>5 DEF Moved
<1>3. CASE Delete \/ DeleteDone \/ Start \/ StartDone \/ Stop \/ StopClients \/ StopDone
    BY <1>3 DEF Delete, DeleteDone, CleanSandboxStorage, Start, StartDone, Stop, StopClients,
                StopDone, mem, disk, Moved
<1> QED BY <1>1, <1>2, <1>3 DEF SandboxStep

\* The steps of the cleanup process: it loads the files, stops and deletes.
LEMMA CleanupStepMoved == IInv /\ ObjectOK /\ CleanupStep => Moved
<1> SUFFICES ASSUME IInv, ObjectOK, CleanupStep PROVE Moved
    OBVIOUS
<1>1. ASSUME NEW c \in Containers, CleanupContainer(c)
      PROVE  Moved
    <2>1. CASE ~Restorable
        BY <1>1, <2>1 DEF CleanupContainer, mem, disk, Moved
    <2>2. CASE Restorable
        <3> DEFINE visible(x) == c = Owner /\ file[x] # "none"
                   restored == [x \in Containers |-> IF x \notin dcfg THEN "absent"
                                                ELSE IF visible(x) THEN file[x] ELSE "down"]
                   gone == Gone(restored, client)
        <3>1. /\ obj = "none" /\ obj' = "cleanup" /\ client' = client
              /\ cst' = [x \in Containers |-> IF x \in gone THEN "down" ELSE restored[x]]
              /\ \E F \in Written(gone) :
                    file' = [x \in Containers |-> IF x \in F THEN "down" ELSE file[x]]
            BY <1>1, <2>2 DEF CleanupContainer
        <3>2. \A x \in Containers : \/ restored[x] \in {"absent", "down"}
                                    \/ file[x] # "none" /\ restored[x] = file[x]
            OBVIOUS
        <3> HIDE DEF restored, gone
        <3>3. Loaded
            BY <3>1, <3>2 DEF Loaded
        <3> QED BY <3>3 DEF Moved
    <2> QED BY <2>1, <2>2
<1>2. CASE CleanupStop /\ op.id \in Reg
    <2>1. PICK k \in stop(op.id, Now(op.id), FALSE) :
             \E done : Apply(op.id, k, cfg, FALSE, done, cfg)
        BY <1>2 DEF CleanupStop
    <2>2. \E inner, refresh, done, outer : Apply(op.id, k, inner, refresh, done, outer)
        BY <2>1
    <2>3. op.id \in Containers /\ Now(op.id) \in ContainerRecord /\ Now(op.id).cl = client[op.id]
        BY IInvTyped DEF Now
    <2>4. Lawful(op.id, Now(op.id), k) /\ k.cl \in {client[op.id], "none"}
        BY <2>1, <2>3, Stopping
    <2>5. Allowed(op.id, k) /\ obj' = obj
        BY <1>2, <2>4 DEF CleanupStop, Allowed, ObjectOK, IInv, TypeOK
    <2>6. Worked
        BY <1>2, <2>2, <2>3, <2>4, <2>5, LawfulMoved
    <2> QED BY <2>6 DEF Moved
<1>3. CASE CleanupDelete /\ op.id \in Reg
    <2>1. obj' = obj /\ obj # "none" /\ op.id \in Containers
        BY <1>3, IInvTyped DEF CleanupDelete, ObjectOK
    <2>2. \E err : RemoveFromSandbox(op.id, err)
        BY <1>3 DEF CleanupDelete
    <2>3. Worked
        BY <1>3, <2>1, <2>2, RemoveMoved
    <2> QED BY <2>3 DEF Moved
<1>4. CASE (CleanupStop \/ CleanupDelete) /\ op.id \notin Reg
    BY <1>4 DEF CleanupStop, CleanupDelete, disk, Moved
<1>5. CASE CleanupSandbox
    BY <1>5 DEF CleanupSandbox, Moved
<1> QED BY <1>1, <1>2, <1>3, <1>4, <1>5 DEF CleanupStep

\* Every step is one of the kinds.
LEMMA NextMoved == IInv /\ ObjectOK /\ [Next]_vars => Moved
<1> SUFFICES ASSUME IInv, ObjectOK, [Next]_vars PROVE Moved
    OBVIOUS
<1>1. ASSUME NEW c \in Containers, ContainerStep(c)
      PROVE  Worked
    BY <1>1, InitContainerMoved, RoundMoved, CallMoved DEF ContainerStep
<1>2. ASSUME NEW c \in PodContainers, PodContainerStep(c)
      PROVE  Worked
    <2>1. c \in Containers
        BY DEF PodContainers
    <2>2. CASE DeleteContainer(c)
        <3>1. c \in Reg /\ obj' = obj /\ obj # "none" /\ \E err : RemoveFromSandbox(c, err)
            BY <2>2 DEF DeleteContainer, Calling, AtRest
        <3> QED BY <2>1, <3>1, RemoveMoved
    <2> QED BY <1>2, <2>1, <2>2, CreateContainerMoved, CallMoved DEF PodContainerStep
<1>3. CASE Environment
    BY <1>3 DEF Environment, Crash, Forget, Moved, Emptied
<1>4. CASE UNCHANGED vars
    BY <1>4 DEF vars, Moved
<1> QED BY <1>1, <1>2, <1>3, <1>4, SandboxStepMoved, CleanupStepMoved DEF Next, Moved
-----------------------------------------------------------------------------
(* Which process holds the object. *)

\* What the shim does leaves the object with it, or drops it.
LEMMA ShimKeepsObject ==
    ASSUME IInv, ObjectOK,
           \/ SandboxStep
           \/ \E c \in Containers : ContainerStep(c)
           \/ \E c \in PodContainers : PodContainerStep(c)
    PROVE  obj' = "shim" \/ Forget
<1>1. op.kind \in OpKinds /\ obj \in {"none", "shim", "cleanup"}
    BY DEF IInv, TypeOK, Operation
<1>2. CASE SandboxStep
    <2>1. CASE CreateSandbox \/ Drop \/ AbortDone \/ ReleaseSandbox
        BY <2>1 DEF CreateSandbox, Drop, AbortDone, ReleaseSandbox
    <2>2. CASE InitDone
        BY <1>1, <2>2 DEF InitDone, AbortCreate, ObjectOK
    <2>3. CASE Delete \/ DeleteDone \/ Start \/ StartDone
        BY <1>1, <2>3 DEF Delete, DeleteDone, Start, StartDone, Stopped, Calling, AtRest, mem, ObjectOK
    <2>4. CASE Stop \/ StopClients \/ StopDone
        BY <1>1, <2>4 DEF Stop, StopClients, StopDone, Calling, AtRest, mem, ObjectOK
    <2> QED BY <1>2, <2>1, <2>2, <2>3, <2>4 DEF SandboxStep
<1>3. ASSUME NEW c \in Containers, ContainerStep(c)
      PROVE  obj' = "shim"
    <2>1. CASE InitContainer(c)
        BY <1>1, <2>1 DEF InitContainer, AbortCreate, ObjectOK
    <2>2. CASE DeleteEach(c) \/ StartEach(c) \/ EnsureEach(c) \/ StopEach(c) \/ StopClientsEach(c)
        BY <1>1, <2>2 DEF DeleteEach, StartEach, EnsureEach, StopEach, StopClientsEach, ObjectOK
    <2>3. CASE \/ PauseContainer(c) \/ ResumeContainer(c) \/ StatusContainer(c)
               \/ WinResize(c) \/ UpdateContainer(c)
        BY <2>3 DEF PauseContainer, ResumeContainer, StatusContainer, WinResize,
                    UpdateContainer, Operate, Probe, Calling, AtRest
    <2> QED BY <1>3, <2>1, <2>2, <2>3 DEF ContainerStep
<1>4. ASSUME NEW c \in PodContainers, PodContainerStep(c)
      PROVE  obj' = "shim"
    BY <1>4 DEF PodContainerStep, CreateContainer, DeleteContainer, StartContainer,
                KillContainer, StopContainer, Operate, Probe, Calling, AtRest
<1> QED BY <1>2, <1>3, <1>4

\* Without an object there is no map; a cleanup does nothing but clean up.
LEMMA NextObjectOK == IInv /\ ObjectOK /\ [Next]_vars => ObjectOK'
<1> SUFFICES ASSUME IInv, ObjectOK, [Next]_vars PROVE ObjectOK'
    OBVIOUS
<1>1. CASE obj' = "shim"
    BY <1>1 DEF ObjectOK
<1>2. CASE Forget
    BY <1>2 DEF Forget, Idle, ObjectOK, Reg, NoContainers
<1>3. ASSUME NEW c \in Containers, CleanupContainer(c)
      PROVE  ObjectOK'
    <2>1. CASE ~Restorable
        BY <1>3, <2>1 DEF CleanupContainer, mem, ObjectOK, Reg
    <2>2. CASE Restorable
        BY <1>3, <2>2, SandboxAssumption DEF CleanupContainer, ObjectOK, Step, Idle
    <2> QED BY <2>1, <2>2
<1>4. CASE CleanupStop \/ CleanupDelete \/ CleanupSandbox
    <2>1. obj' = obj /\ obj # "none"
        BY <1>4 DEF CleanupStop, CleanupDelete, CleanupSandbox, ObjectOK
    <2>2. op'.kind \in {"cleanDelete", "cleanSandbox", "drop"}
        BY <1>4 DEF CleanupStop, CleanupDelete, CleanupSandbox, CleanupReturns,
                    IInv, TypeOK, Operation
    <2> QED BY <2>1, <2>2 DEF ObjectOK
<1>5. CASE Environment
    <2>1. CASE Crash
        BY <1>2, <2>1 DEF Crash
    <2>2. CASE Environment /\ ~Crash
        BY <2>2 DEF Environment, RemoveBundle, ClientVanishes, ClientAppears, mem, ObjectOK, Reg
    <2> QED BY <1>5, <2>1, <2>2
<1>6. CASE UNCHANGED vars
    BY <1>6 DEF vars, ObjectOK, Reg
<1> QED BY <1>1, <1>2, <1>3, <1>4, <1>5, <1>6, ShimKeepsObject DEF Next, CleanupStep
-----------------------------------------------------------------------------
(* What states, files and clients have to do with each other. *)

\* It depends on what may fail: a lost write or command makes a file or a
\* client stay behind, a client registered anew turns up under a stopped
\* container.
Sound(c) ==
    /\ Calm(Now(c))
    /\ c \in Infra => client[c] = "none"
    /\ "recreate" \notin Faults => Rested(c, Now(c))
    /\ ("recreate" \notin Faults /\ Undisturbed) => Agreeing(c, Now(c))
    /\ ("store" \notin Faults /\ obj = "shim") => Synced(Now(c))

AllSound == \A c \in Containers : Sound(c)

\* Sound spelled out for a container's fields.
SoundFields(c, st, fl, cl, shim) ==
    /\ "creating" \notin {st, fl}
    /\ c \in Infra => cl = "none"
    /\ "recreate" \notin Faults =>
          ((c \notin Infra /\ "stopped" \in {st, fl}) => cl = "none")
    /\ ("recreate" \notin Faults /\ Undisturbed) =>
          (c \notin Infra => cl \in Expected(st) \cap Expected(fl))
    /\ ("store" \notin Faults /\ shim) => (st # "absent" => fl = st)

\* The two say the same, before a step and after it.
LEMMA SoundByFields ==
    /\ \A c : Sound(c) <=> SoundFields(c, cst[c], file[c], client[c], obj = "shim")
    /\ \A c : Sound(c)' <=> SoundFields(c, cst'[c], file'[c], client'[c], obj' = "shim")
BY DEF Sound, SoundFields, Now, Calm, Rested, Agreeing, Synced

\* Whatever is recorded, the client may have died.
LEMMA NoneExpected == \A s : "none" \in Expected(s)
BY DEF Expected, ClientStatus

\* States that expect nothing of the client.
LEMMA AnyExpected == \A s \in {"absent", "down", "none", "ready", "creating"} : Expected(s) = ClientStatus
BY DEF Expected

\* What an operation reaches from a sound container is sound, in a file
\* that a cleanup does not write as well.
LEMMA ReachedSound ==
    ASSUME IInv, NEW c \in Containers, NEW k \in ContainerRecord,
           Sound(c), Reached(c, k), Allowed(c, k)
    PROVE  /\ SoundFields(c, k.st, k.file, k.cl, obj = "shim")
           /\ obj = "cleanup" => SoundFields(c, k.st, file[c], k.cl, FALSE)
<1>1. /\ Now(c).st = cst[c] /\ Now(c).file = file[c] /\ Now(c).cl = client[c]
      /\ Now(c) \in ContainerRecord /\ file[c] \in StateString \cup {"none"}
    BY IInvTyped DEF Now, DataOK
<1>2. /\ Calm(Now(c)) => Calm(k)
      /\ client[c] = "none" => k.cl = "none"
      /\ Rested(c, Now(c)) => Rested(c, k)
      /\ (Undisturbed /\ Agreeing(c, Now(c))) => Agreeing(c, k)
      /\ ("store" \notin Faults /\ Synced(Now(c))) => Synced(k)
    <2>1. CASE k = Now(c)
        BY <1>1, <2>1
    <2>2. CASE Lawful(c, Now(c), k)
        BY <1>1, <2>2 DEF Lawful, Keeps
    <2>3. CASE Begun(c, k) /\ ("store" \notin Faults => Synced(k))
        <3>1. /\ Found(c).file = file[c] /\ Found(c).cl = client[c]
              /\ Found(c).st = "down" \/ Found(c).st = file[c]
            BY IInvTyped, FoundTyped
        <3>2. /\ Calm(Now(c)) => Calm(Found(c))
              /\ Rested(c, Now(c)) => Rested(c, Found(c))
            BY <1>1, <3>1 DEF Calm, Rested
        <3>3. Agreeing(c, Now(c)) => Agreeing(c, Found(c))
            BY <1>1, <3>1, AnyExpected DEF Agreeing, ContainerRecord
        <3> QED BY <2>3, <3>2, <3>3 DEF Begun
    <2> QED BY <2>1, <2>2, <2>3 DEF Reached
<1>3. SoundFields(c, k.st, k.file, k.cl, obj = "shim")
    BY <1>2 DEF Sound, SoundFields, Calm, Rested, Agreeing, Synced
<1>4. ASSUME obj = "cleanup"
      PROVE  SoundFields(c, k.st, file[c], k.cl, FALSE)
    BY <1>1, <1>2, <1>3, <1>4, NoneExpected
       DEF Sound, SoundFields, Calm, Rested, Agreeing, Allowed
<1> QED BY <1>3, <1>4

\* Every kind of step keeps every container sound.
LEMMA MovedSound ==
    ASSUME IInv, ObjectOK, AllSound, Moved
    PROVE  AllSound'
<1> SUFFICES ASSUME NEW x \in Containers
             PROVE  SoundFields(x, cst'[x], file'[x], client'[x], obj' = "shim")
    BY SoundByFields DEF AllSound
<1>1. Sound(x) /\ SoundFields(x, cst[x], file[x], client[x], obj = "shim")
    BY SoundByFields DEF AllSound
<1>2. file[x] \in StateString \cup {"none"} /\ client[x] \in ClientStatus
    BY IInvTyped DEF DataOK
<1>3. ASSUME NEW c \in Containers, NEW k \in ContainerRecord,
             Applied(c, k), Reached(c, k), Allowed(c, k), obj' = obj
      PROVE  SoundFields(x, cst'[x], file'[x], client'[x], obj' = "shim")
    <2> DEFINE o == Outcome(c, k, x)
    <2>1. /\ client'[x] = o.cl
          /\ SoundFields(x, o.st, o.file, o.cl, obj = "shim")
          /\ obj = "cleanup" => SoundFields(x, o.st, file[x], o.cl, FALSE)
        <3>1. CASE x = c
            BY <1>1, <1>3, <3>1, ReachedSound, IInvTyped DEF Outcome, Applied, DataOK
        <3>2. CASE x # c
            <4>1. client'[x] = client[x]
                BY <1>3, <3>2 DEF Applied
            <4>2. o.st = cst[x] /\ o.file = file[x] /\ o.cl = client[x]
                BY <3>2 DEF Outcome, Now
            <4> QED BY <1>1, <4>1, <4>2 DEF SoundFields
        <3> QED BY <3>1, <3>2
    <2>2. \/ cst'[x] = o.st /\ file'[x] = o.file
          \/ cst'[x] = o.st /\ obj = "cleanup" /\ file'[x] = file[x]
          \/ /\ cst'[x] = "down" /\ x \notin Infra /\ o.cl = "none"
             /\ \/ file'[x] = "down"
                \/ "store" \in Faults /\ file'[x] = o.file
                \/ obj = "cleanup" /\ file'[x] = file[x]
        BY <1>3 DEF Applied
    <2> HIDE DEF o
    <2> QED BY <1>3, <2>1, <2>2, NoneExpected DEF SoundFields
<1>4. CASE Emptied
    BY <1>1, <1>2, <1>4, AnyExpected DEF Emptied, NoContainers, SoundFields
<1>5. CASE Loaded
    BY <1>1, <1>2, <1>5, AnyExpected DEF Loaded, SoundFields
<1>6. CASE RemoveBundle
    BY <1>1, <1>2, <1>6, AnyExpected DEF RemoveBundle, mem, SoundFields
<1>7. CASE UNCHANGED <<obj, cst, file, client>>
    BY <1>1, <1>7 DEF SoundFields
<1>8. ASSUME NEW c \in Containers, NEW status \in {"idle", "running"}, ClientAppears(c, status)
      PROVE  SoundFields(x, cst'[x], file'[x], client'[x], obj' = "shim")
    <2>1. UNCHANGED <<obj, cst, file>> /\ c \notin Infra
        BY <1>8 DEF ClientAppears, mem, disk
    <2>2. CASE x = c
        <3>1. client'[x] = status
            BY <1>8, <2>2, IInvTyped DEF ClientAppears, DataOK
        <3>2. "recreate" \in Faults \/ (cst[x] = "absent" /\ file[x] = "none")
            BY <1>8, <2>2 DEF ClientAppears
        <3> QED BY <1>1, <2>1, <2>2, <3>1, <3>2, AnyExpected DEF SoundFields, ClientStatus
    <2>3. CASE x # c
        BY <1>1, <1>8, <2>1, <2>3 DEF ClientAppears, SoundFields
    <2> QED BY <2>2, <2>3
<1>9. ASSUME NEW c \in Containers, ClientVanishes(c)
      PROVE  SoundFields(x, cst'[x], file'[x], client'[x], obj' = "shim")
    <2>1. UNCHANGED <<obj, cst, file>> /\ client'[x] \in {client[x], "none"}
        BY <1>9, IInvTyped DEF ClientVanishes, mem, disk, DataOK
    <2> QED BY <1>1, <2>1, NoneExpected DEF SoundFields
<1> QED BY <1>3, <1>4, <1>5, <1>6, <1>7, <1>8, <1>9 DEF Moved, Worked

\* At the start there is nothing.
LEMMA InitSound == Init => IInv /\ ObjectOK /\ AllSound
<1> SUFFICES ASSUME Init PROVE IInv /\ ObjectOK /\ AllSound
    OBVIOUS
<1>1. IInv
    BY InitIInv
<1>2. ObjectOK
    BY DEF Init, ObjectOK, Reg, NoContainers, Idle
<1>3. ASSUME NEW c \in Containers
      PROVE  SoundFields(c, cst[c], file[c], client[c], obj = "shim")
    BY <1>3, AnyExpected DEF Init, NoContainers, SoundFields, ClientStatus
<1> QED BY <1>1, <1>2, <1>3, SoundByFields DEF AllSound

\* What is recorded is sound throughout, for every set of faults.
THEOREM SpecSound == Spec => [](IInv /\ ObjectOK /\ AllSound)
<1>1. (IInv /\ ObjectOK /\ AllSound) /\ [Next]_vars => (IInv /\ ObjectOK /\ AllSound)'
    BY NextIInv, NextObjectOK, NextMoved, MovedSound
<1> QED BY <1>1, InitSound, PTL DEF Spec

\* Between micad's clients and the states of the workloads there is no
\* disagreement on any path of sandbox.go and container.go, for every set of
\* containers, through pinning refused, images missing, torn files, crashes
\* and restarts, when micad carries out commands, disks work and nobody
\* registers an id anew.
THEOREM ClientsMatch ==
    ASSUME Faults \cap {"micad", "store", "recreate"} = {}
    PROVE  Spec => []StateMatchesClient
<1>1. AllSound => StateMatchesClient
    <2> SUFFICES ASSUME AllSound, NEW c \in Containers \ Infra
                 PROVE  Matches(cst[c], client[c])
        BY DEF StateMatchesClient
    <2>1. SoundFields(c, cst[c], file[c], client[c], obj = "shim")
        BY SoundByFields DEF AllSound
    <2>2. client[c] \in Expected(cst[c])
        BY <2>1 DEF SoundFields, Undisturbed
    <2> QED BY <2>2 DEF Expected, Matches
<1> QED BY <1>1, SpecSound, PTL

\* The step condition of TransitionsLegal.
Transits ==
    \A c \in Containers :
       /\ cst'[c] \notin {"absent", "down", Recorded(c)}
            => \/ transition(Recorded(c), cst'[c])
               \/ cst[c] = "absent" /\ cst'[c] = "ready"
       /\ (cst[c] \in {"running", "creating"} /\ obj' = obj)
            => cst'[c] # "absent"

\* A container of the map changes its state by the table, and leaves the map only
\* once it runs no more.
LEMMA MapTransits ==
    ASSUME IInv, ObjectOK, AllSound, Moved, NEW x \in Containers, cst[x] # "absent"
    PROVE  /\ cst'[x] \notin {"absent", "down", cst[x]} => transition(cst[x], cst'[x])
           /\ (cst[x] \in {"running", "creating"} /\ obj' = obj) => cst'[x] # "absent"
<1>1. cst[x] # "creating"
    BY SoundByFields DEF AllSound, SoundFields
<1>2. ASSUME NEW c \in Containers, NEW k, Applied(c, k), Reached(c, k)
      PROVE  /\ cst'[x] \notin {"absent", "down", cst[x]} => transition(cst[x], cst'[x])
             /\ cst[x] = "running" => cst'[x] # "absent"
    <2>1. cst'[x] = Outcome(c, k, x).st \/ cst'[x] = "down"
        BY <1>2 DEF Applied
    <2>2. CASE x = c
        <3>1. cst'[x] \in {k.st, "down"} /\ Now(c).st = cst[x]
            BY <2>1, <2>2 DEF Outcome, Now
        <3>2. Passable(Now(c), k) \/ k.st = cst[x]
            BY <1>2, <2>2, <3>1 DEF Reached, Lawful
        <3> QED BY <1>1, <3>1, <3>2 DEF Passable
    <2>3. CASE x # c
        BY <2>1, <2>3 DEF Outcome, Now
    <2> QED BY <2>2, <2>3
<1>3. CASE Worked
    BY <1>1, <1>2, <1>3 DEF Worked
<1>4. CASE Emptied
    BY <1>4 DEF Emptied, NoContainers
<1>5. ~Loaded
    BY DEF Loaded, ObjectOK, Reg
<1>6. CASE cst' = cst
    BY <1>6
<1> QED BY <1>3, <1>4, <1>5, <1>6
        DEF Moved, RemoveBundle, ClientVanishes, ClientAppears, mem

\* One that enters the map is made ready, or is there as its file says.
LEMMA EntryTransits ==
    ASSUME IInv, ObjectOK, Moved, NEW x \in Containers, cst[x] = "absent"
    PROVE  cst'[x] \in {"absent", "down", "ready", Recorded(x)}
<1>1. ASSUME NEW c \in Containers, NEW k, Applied(c, k), Reached(c, k)
      PROVE  cst'[x] \in {"absent", "down", "ready"}
    <2>1. cst'[x] = Outcome(c, k, x).st \/ cst'[x] = "down"
        BY <1>1 DEF Applied
    <2>2. CASE x = c
        <3>1. k = Now(c) \/ k.st \in {"absent", "ready"}
            BY <1>1, <2>2 DEF Reached
        <3> QED BY <2>1, <2>2, <3>1 DEF Outcome, Now
    <2>3. CASE x # c
        BY <2>1, <2>3 DEF Outcome, Now
    <2> QED BY <2>2, <2>3
<1>2. CASE Worked
    BY <1>1, <1>2 DEF Worked
<1>3. CASE Emptied
    BY <1>3 DEF Emptied, NoContainers
<1>4. CASE Loaded
    BY <1>4 DEF Loaded, Recorded
<1>5. CASE cst' = cst
    BY <1>5
<1> QED BY <1>2, <1>3, <1>4, <1>5
        DEF Moved, RemoveBundle, ClientVanishes, ClientAppears, mem

\* It holds of every kind of step.
LEMMA MovedTransits ==
    ASSUME IInv, ObjectOK, AllSound, Moved
    PROVE  Transits
BY MapTransits, EntryTransits DEF Transits, Recorded

\* Every change of a state on record, in the map or in the file that a restart takes it
\* from, is in the table of states.go or the discovery that the client is gone, but for
\* the one to ready of a container that is created; for every set of containers and
\* faults, although most of the code saves states without asking the table.
THEOREM OnlyLegalMoves == Spec => TransitionsLegal
<1>1. (IInv /\ ObjectOK /\ AllSound) /\ [Next]_vars => Transits
    BY NextMoved, MovedTransits
<1>2. Transits <=> \A c \in Containers :
         /\ cst'[c] \notin {"absent", "down", Recorded(c)}
              => \/ transition(Recorded(c), cst'[c])
                 \/ cst[c] = "absent" /\ cst'[c] = "ready"
         /\ (cst[c] \in {"running", "creating"} /\ obj' = obj)
              => cst'[c] # "absent"
    BY DEF Transits
<1> QED BY <1>1, <1>2, SpecSound, PTL DEF Spec, TransitionsLegal
-----------------------------------------------------------------------------
(* The cleanup process. *)

\* The step condition of CleanupReleasesClient.
Cleans ==
    (/\ op.kind = "cleanDelete" /\ op.id \in Reg
     /\ op'.kind \in {"drop", "cleanSandbox"} /\ ret'.err = "nil")
    => client'[op.id] = "none"

\* Only CleanupDelete goes on from its step of the cleanup.
LEMMA CleanDeleteStep ==
    ASSUME IInv, ObjectOK, [Next]_vars, op.kind = "cleanDelete",
           op'.kind \in {"drop", "cleanSandbox"}
    PROVE  CleanupDelete
<1>1. obj # "none"
    BY DEF ObjectOK
<1>2. ~SandboxStep
    BY <1>1 DEF SandboxStep, CreateSandbox, InitDone, Drop, Delete, DeleteDone, AbortDone,
                ReleaseSandbox, Start, StartDone, Stop, StopClients, StopDone, Stopped,
                Calling, AtRest
<1>3. \A c : ~ContainerStep(c)
    BY DEF ContainerStep, InitContainer, DeleteEach, StartEach, EnsureEach, StopEach,
           StopClientsEach, PauseContainer, ResumeContainer, StatusContainer, WinResize,
           UpdateContainer, Operate, Probe, Calling, AtRest
<1>4. \A c : ~PodContainerStep(c)
    BY DEF PodContainerStep, CreateContainer, DeleteContainer, StartContainer, KillContainer,
           StopContainer, Operate, Probe, Calling, AtRest
<1>5. ~Environment
    BY DEF Environment, Crash, Forget, Idle, RemoveBundle, ClientVanishes, ClientAppears
<1> QED BY <1>1, <1>2, <1>3, <1>4, <1>5
        DEF Next, vars, CleanupStep, CleanupContainer, CleanupStop, CleanupSandbox

\* When the delete of the cleanup gets through, the client is gone.
LEMMA NextCleans == IInv /\ ObjectOK /\ AllSound /\ [Next]_vars => Cleans
<1> SUFFICES ASSUME IInv, ObjectOK, AllSound, [Next]_vars,
                    op.kind = "cleanDelete", op.id \in Reg,
                    op'.kind \in {"drop", "cleanSandbox"}, ret'.err = "nil"
             PROVE  client'[op.id] = "none"
    BY DEF Cleans
<1> DEFINE c == op.id
<1>1. c \in Containers /\ Now(c) \in ContainerRecord /\ Now(c).err = "nil" /\ Now(c).cl = client[c]
    BY IInvTyped DEF Now
<1>2. PICK err \in Errors :
         /\ RemoveFromSandbox(c, err)
         /\ err = "fail" => CleanupReturns("fail")
    BY CleanDeleteStep DEF CleanupDelete
<1>3. err # "fail"
    BY <1>2 DEF CleanupReturns, Returns, NoReturn
<1>4. PICK k \in delete(c, Now(c)) :
         /\ k.err = "nil" \/ err = k.err
         /\ \/ Touch(c, k)
            \/ \E inner, refresh, done, outer : Apply(c, k, inner, refresh, done, outer)
    BY <1>2 DEF RemoveFromSandbox
<1>5. k \in ContainerRecord /\ k.cl \in {client[c], "none"} /\ (c \in Infra \/ k.cl = "none")
    <2>1. k.err \in {"nil", "notfound"}
        BY <1>2, <1>3, <1>4 DEF Errors
    <2> QED BY <1>1, <2>1, Deleting DEF Lawful, Keeps
<1>6. c \in Infra => client[c] = "none"
    BY <1>1, SoundByFields DEF AllSound, SoundFields
<1>7. client'[c] = k.cl
    <2>1. Applied(c, k)
        BY <1>1, <1>4, <1>5, IInvTyped, TouchApplied, ApplyApplied
    <2> QED BY <1>1, <2>1, IInvTyped DEF Applied, DataOK
<1> QED BY <1>5, <1>6, <1>7

\* A cleanup that gets past the delete of a container it had loaded leaves no
\* client of it, for every set of containers and faults: whether it stopped
\* the container, found it gone or lost micad's answer.
THEOREM CleanupSafety == Spec => CleanupReleasesClient
<1>1. (IInv /\ ObjectOK /\ AllSound) /\ [Next]_vars => Cleans
    BY NextCleans
<1>2. Cleans <=> ((/\ op.kind = "cleanDelete" /\ op.id \in Reg
                   /\ op'.kind \in {"drop", "cleanSandbox"} /\ ret'.err = "nil")
                  => client'[op.id] = "none")
    BY DEF Cleans
<1> QED BY <1>1, <1>2, SpecSound, PTL DEF Spec, CleanupReleasesClient
-----------------------------------------------------------------------------
(* The walks of Start and Stop.                                              *)

Walking == op.kind \in {"start", "ensure", "stop", "stopClients"}

\* The containers a Start has passed run, and it has not returned yet.
StartWalked ==
    op.kind \in {"start", "ensure"} =>
       ret.call # "Start" /\ \A c \in Reg \ op.todo : cst[c] = "running"

\* The workloads a Stop has passed have no client, and the sandbox is not
\* stopped yet.
StopWalked ==
    /\ op.kind \in {"stop", "stopClients"} => sb # "stopped"
    /\ op.kind = "stop" => \A c \in Reg \ (Infra \cup op.todo) : client[c] = "none"
    /\ op.kind = "stopClients" => \A c \in Reg \ Infra : client[c] = "none"

\* A client comes or goes, or nothing happens.
Aside ==
    /\ UNCHANGED <<mem, op, ret>>
    /\ \/ client' = client
       \/ \E c \in Containers :
             ClientVanishes(c) \/ \E status \in {"idle", "running"} : ClientAppears(c, status)

\* The steps there are while a walk is under way.
Goes ==
    \/ \E c \in Containers :
          StartEach(c) \/ EnsureEach(c) \/ StopEach(c) \/ StopClientsEach(c)
    \/ StartDone \/ StopClients \/ StopDone
    \/ Crash
    \/ Aside

\* No other step is possible then.
LEMMA WalkGoes ==
    ASSUME IInv, ObjectOK, Walking, [Next]_vars
    PROVE  Goes
<1>1. obj # "none"
    BY DEF ObjectOK, Walking
<1>2. SandboxStep => StartDone \/ StopClients \/ StopDone
    BY <1>1 DEF Walking, SandboxStep, CreateSandbox, InitDone, Drop, Delete, DeleteDone,
                AbortDone, ReleaseSandbox, Start, Stop, Stopped, Calling, AtRest
<1>3. ASSUME NEW c \in Containers, ContainerStep(c)
      PROVE  StartEach(c) \/ EnsureEach(c) \/ StopEach(c) \/ StopClientsEach(c)
    BY <1>3 DEF Walking, ContainerStep, InitContainer, DeleteEach, PauseContainer,
                ResumeContainer, StatusContainer, WinResize, UpdateContainer, Operate, Probe,
                Calling, AtRest
<1>4. \A c : ~PodContainerStep(c)
    BY DEF Walking, PodContainerStep, CreateContainer, DeleteContainer, StartContainer,
           KillContainer, StopContainer, Operate, Probe, Calling, AtRest
<1>5. ~CleanupStep
    BY <1>1 DEF Walking, CleanupStep, CleanupContainer, CleanupStop, CleanupDelete, CleanupSandbox
<1>6. CASE Environment
    BY <1>1, <1>6 DEF Environment, RemoveBundle, ClientVanishes, ClientAppears, Goes, Aside
<1>7. CASE UNCHANGED vars
    BY <1>7 DEF vars, mem, Goes, Aside
<1> QED BY <1>2, <1>3, <1>4, <1>5, <1>6, <1>7 DEF Next, Goes

\* The fields of an operation that begins.
LEMMA StepFields ==
    /\ Idle.kind = "idle" /\ Idle.todo = {}
    /\ \A kind, todo : Step(kind, todo).kind = kind /\ Step(kind, todo).todo = todo
BY DEF Step, Idle

\* A walk begins with a call.
LEMMA WalkBegins ==
    ASSUME IInv, ObjectOK, ~Walking, Walking', [Next]_vars
    PROVE  Start \/ Stop
<1>1. op \in Operation
    BY DEF IInv, TypeOK
<1>2. op'.kind # op.kind /\ op'.kind \in {"start", "ensure", "stop", "stopClients"}
    BY DEF Walking
<1>3. SandboxStep => Start \/ Stop
    <2>1. ~(CreateSandbox \/ InitDone \/ Drop \/ AbortDone \/ ReleaseSandbox)
        BY <1>2, StepFields DEF CreateSandbox, InitDone, AbortCreate, Drop, AbortDone,
                                ReleaseSandbox, Forget
    <2>2. ~(Delete \/ DeleteDone \/ StartDone \/ StopClients \/ StopDone)
        BY <1>2, StepFields DEF Walking, Delete, DeleteDone, StartDone, StopClients, StopDone
    <2> QED BY <2>1, <2>2 DEF SandboxStep
<1>4. \A c : ~ContainerStep(c)
    <2>1. \A c : ~InitContainer(c)
        BY <1>1, <1>2 DEF InitContainer, AbortCreate, Step, Idle, Operation
    <2>2. \A c : ~(DeleteEach(c) \/ StartEach(c) \/ EnsureEach(c) \/ StopEach(c) \/ StopClientsEach(c))
        BY <1>1, <1>2 DEF Walking, DeleteEach, StartEach, EnsureEach, StopEach, StopClientsEach,
                          Operation
    <2> QED BY <1>2, <2>1, <2>2
            DEF ContainerStep, PauseContainer, ResumeContainer, StatusContainer, WinResize,
                UpdateContainer, Operate, Probe
<1>5. \A c : ~PodContainerStep(c)
    BY <1>2 DEF PodContainerStep, CreateContainer, DeleteContainer, StartContainer,
                KillContainer, StopContainer, Operate, Probe
<1>6. ~CleanupStep
    BY <1>1, <1>2 DEF CleanupStep, CleanupContainer, CleanupStop, CleanupDelete, CleanupSandbox,
                      CleanupReturns, Operation, Step, Idle
<1>7. ~Environment
    BY <1>2 DEF Environment, Crash, Forget, Idle, RemoveBundle, ClientVanishes, ClientAppears
<1> QED BY <1>2, <1>3, <1>4, <1>5, <1>6, <1>7 DEF Next, vars

\* What Start or Stop begins with.
LEMMA BeginningWalked ==
    ASSUME Start \/ Stop, IInv
    PROVE  Walking' => StartWalked' /\ StopWalked'
<1>1. Reg' = Reg /\ Reg \subseteq Containers
    BY DEF Start, Stop, mem, Reg
<1>2. CASE Start
    <2>1. \/ op'.kind = "idle"
          \/ /\ op'.kind \in {"start", "ensure"} /\ op'.todo = Reg
             /\ ret'.call = "none"
        <3>1. CASE op' = op
            BY <1>2, <3>1 DEF Start, Calling, AtRest
        <3>2. CASE op' = Step("ensure", Reg) /\ ret' = NoReturn
            BY <3>2, StepFields DEF NoReturn
        <3>3. CASE /\ \E old : op' = [Step("start", Reg) EXCEPT !.old = old]
                   /\ ret' = NoReturn
            BY <3>3 DEF NoReturn, Step, Idle
        <3> QED BY <1>2, <3>1, <3>2, <3>3 DEF Start
    <2> QED BY <1>1, <2>1 DEF Walking, StartWalked, StopWalked
<1>3. CASE Stop
    <2>1. op'.kind = "idle" \/ (op'.kind = "stop" /\ op'.todo = Reg /\ sb # "stopped" /\ sb' = sb)
        BY <1>3, StepFields DEF Stop, Calling, AtRest, mem
    <2> QED BY <1>1, <2>1 DEF Walking, StartWalked, StopWalked
<1> QED BY <1>2, <1>3

\* A round of a Start that goes on has its container running.
LEMMA StartRound ==
    ASSUME IInv, NEW c \in Containers, StartEach(c) \/ EnsureEach(c)
    PROVE  /\ op.kind \in {"start", "ensure"} /\ c \in op.todo
           /\ \/ op' = Idle /\ ret'.err # "nil"
              \/ /\ op' = [op EXCEPT !.todo = @ \ {c}] /\ ret' = ret
                 /\ cst' = [cst EXCEPT ![c] = "running"]
<1>1. PICK k \in ContainerRecord :
         /\ Touch(c, k) /\ (k.err = "nil" => k.st = "running")
         /\ IF k.err = "nil"
            THEN op' = [op EXCEPT !.todo = @ \ {c}] /\ UNCHANGED ret
            ELSE op' = Idle /\ Returns("Start", Owner, k.err)
    <2>1. CASE StartEach(c)
        <3>1. PICK k \in start(c, Now(c)) :
                 /\ Touch(c, k)
                 /\ IF k.err = "nil"
                    THEN op' = [op EXCEPT !.todo = @ \ {c}] /\ UNCHANGED ret
                    ELSE op' = Idle /\ Returns("Start", Owner, k.err)
            BY <2>1 DEF StartEach
        <3>2. k \in ContainerRecord /\ (k.err = "nil" => k.st = "running")
            BY IInvTyped, Starting DEF Lawful, Keeps
        <3> QED BY <3>1, <3>2
    <2>2. CASE EnsureEach(c)
        <3>1. PICK j \in checkState(c, Now(c)) :
                 \E k \in (IF j.st = "running" THEN {j} ELSE start(c, j)) :
                    /\ Touch(c, k)
                    /\ IF k.err = "nil"
                       THEN op' = [op EXCEPT !.todo = @ \ {c}] /\ UNCHANGED ret
                       ELSE op' = Idle /\ Returns("Start", Owner, k.err)
            BY <2>2 DEF EnsureEach
        <3>2. j \in ContainerRecord
            BY IInvTyped, Checking
        <3>3. \A k \in start(c, j) : k \in ContainerRecord /\ (k.err = "nil" => k.st = "running")
            BY <3>2, Starting DEF Lawful, Keeps
        <3> QED BY <3>1, <3>2, <3>3
    <2> QED BY <2>1, <2>2
<1>2. cst' = [cst EXCEPT ![c] = k.st]
    BY <1>1, IInvTyped, TouchApplied
<1>3. op.kind \in {"start", "ensure"} /\ c \in op.todo
    BY DEF StartEach, EnsureEach
<1> QED BY <1>1, <1>2, <1>3 DEF Returns, NoReturn

\* A round of a Stop takes the client away or leaves it, and goes on past a
\* workload only in the second walk with its client still there.
LEMMA StopRound ==
    ASSUME IInv, AllSound, NEW c \in Containers, StopEach(c) \/ StopClientsEach(c)
    PROVE  /\ op.kind \in {"stop", "stopClients"} /\ c \in op.todo /\ sb' = sb
           /\ \A x \in Containers : client'[x] \in {client[x], "none"}
           /\ \A x \in Reg' : x \in Reg
           /\ \/ op' = Idle
              \/ /\ op'.kind = op.kind
                 /\ op.kind = "stop" =>
                       /\ op'.todo = op.todo \ {c}
                       /\ "recreate" \notin Faults => c \in Infra \/ client'[c] = "none"
<1>1. c \in Reg /\ op \in Operation
    BY DEF StopEach, StopClientsEach, IInv, TypeOK, TodoOK, Walks
<1>2. PICK k \in stop(c, Now(c), TRUE) :
         /\ Touch(c, k)
         /\ \/ op' = Idle
            \/ op.kind = "stop" /\ k.err = "nil" /\ op' = [op EXCEPT !.todo = @ \ {c}]
            \/ op.kind = "stopClients"
               /\ op' = [op EXCEPT !.todo = IF k.err = "nil" THEN @ \ {c} ELSE {}]
    BY DEF StopEach, StopClientsEach
<1>3. /\ k \in ContainerRecord /\ k.cl \in {client[c], "none"}
      /\ (k.err = "nil" /\ Rested(c, Now(c))) => c \in Infra \/ k.cl = "none"
    BY IInvTyped, Stopping DEF Lawful, Keeps, Now
<1>4. client' = [client EXCEPT ![c] = k.cl] /\ cst' = [cst EXCEPT ![c] = k.st]
    BY <1>2, <1>3, IInvTyped, TouchApplied
<1>5. /\ \A x \in Containers : client'[x] \in {client[x], "none"}
      /\ client'[c] = k.cl
    BY <1>3, <1>4, IInvTyped DEF DataOK
<1>6. \A x \in Reg' : x \in Reg
    BY <1>1, <1>4, IInvTyped DEF Reg, DataOK
<1>7. "recreate" \notin Faults => Rested(c, Now(c))
    BY DEF AllSound, Sound
<1>8. op.kind \in {"stop", "stopClients"} /\ c \in op.todo /\ sb' = sb
    BY DEF StopEach, StopClientsEach
<1>9. \/ op' = Idle
      \/ /\ op'.kind = op.kind
         /\ op.kind = "stop" =>
               /\ op'.todo = op.todo \ {c}
               /\ "recreate" \notin Faults => c \in Infra \/ client'[c] = "none"
    BY <1>1, <1>2, <1>3, <1>5, <1>7 DEF Operation
<1> QED BY <1>5, <1>6, <1>8, <1>9

WalkOK == StartWalked /\ ("recreate" \notin Faults => StopWalked)

\* A client that comes or goes does not undo what a walk has done.
LEMMA AsideWalkOK ==
    ASSUME IInv, WalkOK, Aside
    PROVE  WalkOK'
<1>1. Reg' = Reg /\ Reg \subseteq Containers /\ UNCHANGED <<sb, cst, op, ret>>
    BY DEF Aside, mem, Reg
<1>2. StartWalked'
    BY <1>1 DEF WalkOK, StartWalked
<1>3. ASSUME "recreate" \notin Faults
      PROVE  \A c \in Reg : client[c] = "none" => client'[c] = "none"
    BY <1>1, <1>3, IInvTyped DEF Aside, ClientVanishes, ClientAppears, Reg, DataOK
<1>4. ASSUME "recreate" \notin Faults PROVE StopWalked'
    BY <1>1, <1>3, <1>4 DEF WalkOK, StopWalked
<1> QED BY <1>2, <1>4 DEF WalkOK

\* The walks do what they say.
LEMMA NextWalkOK ==
    ASSUME IInv, ObjectOK, AllSound, WalkOK, [Next]_vars
    PROVE  WalkOK'
<1>1. CASE ~Walking'
    BY <1>1 DEF Walking, WalkOK, StartWalked, StopWalked
<1>2. CASE ~Walking /\ Walking'
    BY <1>2, WalkBegins, BeginningWalked DEF WalkOK
<1>3. CASE Walking /\ Walking'
    <2>1. ASSUME NEW c \in Containers, StartEach(c) \/ EnsureEach(c)
          PROVE  WalkOK'
        <3>1. /\ op.kind \in {"start", "ensure"} /\ c \in op.todo /\ op \in Operation
              /\ op' = [op EXCEPT !.todo = @ \ {c}] /\ ret' = ret
              /\ cst' = [cst EXCEPT ![c] = "running"]
            BY <1>3, <2>1, StartRound DEF Walking, Idle, IInv, TypeOK
        <3>2. op'.kind = op.kind /\ op'.todo = op.todo \ {c}
            BY <3>1 DEF Operation
        <3>3. \A x \in Reg' \ op'.todo : cst'[x] = "running"
            BY <2>1, <3>1, <3>2, IInvTyped DEF WalkOK, StartWalked, Reg, DataOK
        <3> QED BY <3>1, <3>2, <3>3 DEF WalkOK, StartWalked, StopWalked
    <2>2. ASSUME NEW c \in Containers, StopEach(c) \/ StopClientsEach(c)
          PROVE  WalkOK'
        <3>1. /\ op.kind \in {"stop", "stopClients"} /\ c \in op.todo /\ sb' = sb
              /\ \A x \in Containers : client'[x] \in {client[x], "none"}
              /\ \A x \in Reg' : x \in Reg
              /\ op'.kind = op.kind
              /\ op.kind = "stop" =>
                    /\ op'.todo = op.todo \ {c}
                    /\ "recreate" \notin Faults => c \in Infra \/ client'[c] = "none"
            BY <1>3, <2>2, StopRound DEF Walking, Idle
        <3> QED BY <3>1, IInvTyped DEF WalkOK, StartWalked, StopWalked
    <2>3. CASE StartDone \/ StopDone \/ Crash
        BY <1>3, <2>3, StepFields DEF Walking, StartDone, StopDone, Crash, Forget
    <2>4. CASE StopClients
        <3>1. /\ op.kind = "stop" /\ op.todo = {} /\ op'.kind = "stopClients"
              /\ sb' = sb /\ client' = client /\ Reg' = Reg
            BY <2>4 DEF StopClients, mem, Reg, IInv, TypeOK, Operation
        <3> QED BY <3>1 DEF WalkOK, StartWalked, StopWalked
    <2>5. CASE Aside
        BY <2>5, AsideWalkOK
    <2> QED BY <1>3, <2>1, <2>2, <2>3, <2>4, <2>5, WalkGoes DEF Goes
<1> QED BY <1>1, <1>2, <1>3

\* Throughout.
THEOREM SpecWalkOK == Spec => []WalkOK
<1>1. Init => WalkOK
    BY StepFields DEF Init, WalkOK, StartWalked, StopWalked
<1>2. (IInv /\ ObjectOK /\ AllSound) /\ WalkOK /\ [Next]_vars => WalkOK'
    BY NextWalkOK
<1> QED BY <1>1, <1>2, SpecSound, PTL DEF Spec

\* The step conditions of StartCompletes and StopLeavesNoClient.
Completes ==
    (op.kind \in {"start", "ensure"} /\ ret'.call = "Start" /\ ret'.err = "nil")
       => \A c \in Reg : cst'[c] = "running"
LeavesNone ==
    (op.kind = "stopClients" /\ sb' = "stopped")
       => \A c \in Reg \ Infra : client'[c] = "none"

\* A walk that ends well has reached every container.
LEMMA NextEndsWell ==
    ASSUME IInv, ObjectOK, AllSound, WalkOK, [Next]_vars
    PROVE  Completes /\ ("recreate" \notin Faults => LeavesNone)
<1>1. CASE ~Walking
    BY <1>1 DEF Walking, Completes, LeavesNone
<1>2. CASE Walking
    <2>1. ASSUME NEW c \in Containers, StartEach(c) \/ EnsureEach(c)
          PROVE  Completes /\ LeavesNone
        BY <2>1, StartRound DEF WalkOK, StartWalked, Completes, LeavesNone
    <2>2. ASSUME NEW c \in Containers, StopEach(c) \/ StopClientsEach(c)
          PROVE  Completes /\ ("recreate" \notin Faults => LeavesNone)
        BY <2>2, StopRound DEF WalkOK, StopWalked, Completes, LeavesNone
    <2>3. CASE StartDone
        BY <2>3 DEF StartDone, mem, WalkOK, StartWalked, Completes, LeavesNone
    <2>4. CASE StopClients \/ StopDone
        BY <2>4 DEF StopClients, StopDone, WalkOK, StopWalked, Completes, LeavesNone
    <2>5. CASE Crash
        BY <2>5 DEF Crash, Forget, NoReturn, Completes, LeavesNone
    <2>6. CASE Aside
        BY <2>6 DEF Aside, mem, WalkOK, StartWalked, StopWalked, Completes, LeavesNone
    <2> QED BY <1>2, <2>1, <2>2, <2>3, <2>4, <2>5, <2>6, WalkGoes DEF Goes
<1> QED BY <1>1, <1>2

\* Sandbox.Start returns nil only with every container of the map recorded as
\* running, through both of its loops, for every set of containers and faults.
THEOREM StartSafety == Spec => StartCompletes
<1>1. (IInv /\ ObjectOK /\ AllSound) /\ WalkOK /\ [Next]_vars => Completes
    BY NextEndsWell
<1>2. Completes <=>
         ((op.kind \in {"start", "ensure"} /\ ret'.call = "Start" /\ ret'.err = "nil")
            => \A c \in Reg : cst'[c] = "running")
    BY DEF Completes
<1> QED BY <1>1, <1>2, SpecSound, SpecWalkOK, PTL DEF Spec, StartCompletes

\* A sandbox turns to stopped only when no workload in its map has a client,
\* for every set of containers, whatever micad refuses and although the error
\* of stopClients is swallowed; nobody registers an id anew meanwhile.
THEOREM StopSafety ==
    ASSUME "recreate" \notin Faults
    PROVE  Spec => StopLeavesNoClient
<1>1. (IInv /\ ObjectOK /\ AllSound) /\ WalkOK /\ [Next]_vars => LeavesNone
    BY NextEndsWell
<1>2. LeavesNone <=>
         ((op.kind = "stopClients" /\ sb' = "stopped")
            => \A c \in Reg \ Infra : client'[c] = "none")
    BY DEF LeavesNone
<1> QED BY <1>1, <1>2, SpecSound, SpecWalkOK, PTL DEF Spec, StopLeavesNoClient
-----------------------------------------------------------------------------
(* What a restart finds.                                                     *)

\* While the shim holds the sandbox, the file it can be restored from has the
\* configs of the containers in the map, and the sandbox's state or "running";
\* before a start gets through also the state before it.
DiskOK ==
    obj = "shim" =>
       /\ op.kind \notin {"cleanStop", "cleanDelete", "cleanSandbox"}
       /\ sb # "creating"
       /\ op.kind = "start" => sb = "running" /\ op.old # "creating"
       /\ Restorable =>
             /\ Reg \subseteq dcfg
             /\ op.kind \notin {"init", "abort", "drop"} =>
                   \/ dsb \in {sb, "running"}
                   \/ op.kind = "start" /\ dsb = op.old

\* What an operation's stores write.
LEMMA ApplyWrites ==
    ASSUME NEW c, NEW k, NEW inner, NEW refresh, NEW done, NEW outer,
           Apply(c, k, inner, refresh, done, outer)
    PROVE  /\ \/ UNCHANGED <<dsb, dcfg>>
              \/ dsb' = sb /\ dcfg' \in {inner, outer}
           /\ done => dsb' = sb /\ dcfg' = outer
           /\ (k.stored /\ inner = outer) => dsb' = sb /\ dcfg' = outer
BY DEF Apply, WriteDisk

\* A step that may store the sandbox as it is.
LEMMA KeptDiskOK ==
    ASSUME DiskOK, obj = "shim", sb' = sb, Reg' \subseteq Reg,
           \/ UNCHANGED <<dsb, dcfg>>
           \/ dsb' = sb /\ Reg' \subseteq dcfg',
           \/ op' = op
           \/ op'.kind = op.kind /\ op'.old = op.old
           \/ op'.kind \in {"abort", "drop"}
           \/ /\ op.kind \notin {"init", "abort", "drop", "start"}
              /\ op'.kind \in {"idle", "ensure", "stop", "stopClients", "delete"}
    PROVE  DiskOK'
BY DEF DiskOK, Restorable

\* A step that stores the sandbox as it will be.
LEMMA StoredDiskOK ==
    ASSUME sb' # "creating", dsb' = sb', Reg' \subseteq dcfg',
           op'.kind \notin {"start", "cleanStop", "cleanDelete", "cleanSandbox"}
    PROVE  DiskOK'
BY DEF DiskOK

\* An operation on a container of the map, or one that leaves it out.
LEMMA ApplyDisk ==
    ASSUME IInv, NEW c \in Containers, NEW k \in ContainerRecord,
           c \in Reg \/ k.st = "absent",
           NEW inner, NEW refresh, NEW done, NEW outer,
           inner \subseteq Containers, outer \subseteq Containers,
           Apply(c, k, inner, refresh, done, outer)
    PROVE  Reg' \subseteq Reg
<1>1. Effect(c, k)
    BY IInvTyped, ApplyEffect
<1> QED BY <1>1, EffectReg

\* The rounds of the walks.
LEMMA RoundDisk ==
    ASSUME IInv, ObjectOK, DiskOK, NEW c \in Containers,
           \/ DeleteEach(c) \/ StartEach(c) \/ EnsureEach(c)
           \/ StopEach(c) \/ StopClientsEach(c)
    PROVE  DiskOK'
<1>1. PICK k : /\ c \in Reg /\ obj = "shim" /\ k \in ContainerRecord
               /\ Apply(c, k, cfg, FALSE, FALSE, cfg)
    BY RoundTouches DEF Lawful, Keeps, Touch
<1>2. Reg' \subseteq Reg /\ Reg \subseteq cfg
    BY <1>1, ApplyDisk, IInvTyped
<1>3. UNCHANGED <<dsb, dcfg>> \/ (dsb' = sb /\ dcfg' = cfg)
    BY <1>1, ApplyWrites
<1>4. op \in Operation
    BY DEF IInv, TypeOK
<1>5. CASE StartEach(c)
    <2>1. /\ op.kind = "start"
          /\ \/ op' = [op EXCEPT !.todo = @ \ {c}] /\ sb' = sb
             \/ op' = Idle /\ sb' = op.old
        BY <1>5 DEF StartEach
    <2>2. CASE op' = [op EXCEPT !.todo = @ \ {c}] /\ sb' = sb
        BY <1>1, <1>2, <1>3, <1>4, <2>2, KeptDiskOK DEF Operation
    <2>3. CASE op' = Idle /\ sb' = op.old
        BY <1>1, <1>2, <1>3, <2>1, <2>3, StepFields DEF DiskOK, Restorable
    <2> QED BY <2>1, <2>2, <2>3
<1>6. CASE DeleteEach(c)
    BY <1>1, <1>2, <1>3, <1>4, <1>6, KeptDiskOK DEF DeleteEach, Operation
<1>7. CASE EnsureEach(c) \/ StopEach(c) \/ StopClientsEach(c)
    <2>1. /\ op.kind \in {"ensure", "stop", "stopClients"} /\ sb' = sb
          /\ op'.kind \in {op.kind, "idle"}
        BY <1>4, <1>7, StepFields DEF EnsureEach, StopEach, StopClientsEach, Operation
    <2> QED BY <1>1, <1>2, <1>3, <2>1, KeptDiskOK
<1> QED BY <1>5, <1>6, <1>7

\* The calls on a container of the map.
LEMMA CallDisk ==
    ASSUME IInv, DiskOK, NEW c \in Containers,
           \/ PauseContainer(c) \/ ResumeContainer(c) \/ StatusContainer(c)
           \/ WinResize(c) \/ UpdateContainer(c) \/ StartContainer(c) \/ KillContainer(c)
           \/ \E force \in BOOLEAN : StopContainer(c, force)
    PROVE  DiskOK'
<1>1. Now(c) \in ContainerRecord
    BY IInvTyped
<1>2. ASSUME c \in Reg, obj = "shim", UNCHANGED <<sb, op>>,
             NEW k \in ContainerRecord, NEW refresh, NEW done,
             Apply(c, k, cfg, refresh, done, cfg)
      PROVE  DiskOK'
    <2>1. Reg' \subseteq Reg /\ Reg \subseteq cfg
        BY <1>2, ApplyDisk, IInvTyped
    <2>2. UNCHANGED <<dsb, dcfg>> \/ (dsb' = sb /\ dcfg' = cfg)
        BY <1>2, ApplyWrites
    <2> QED BY <1>2, <2>1, <2>2, KeptDiskOK
<1>3. ASSUME NEW call, NEW S \in SUBSET ContainerRecord, NEW repin,
             Operate(call, c, S, repin) \/ Probe(call, c, S)
      PROVE  DiskOK'
    <2>1. PICK k \in S : \E refresh, done : Apply(c, k, cfg, refresh, done, cfg)
        BY <1>3 DEF Operate, Probe, Touch
    <2>2. c \in Reg /\ obj = "shim" /\ UNCHANGED <<sb, op>>
        BY <1>3 DEF Operate, Probe, Calling, AtRest
    <2> QED BY <1>2, <2>1, <2>2
<1>4. CASE PauseContainer(c) \/ ResumeContainer(c) \/ StartContainer(c)
    BY <1>1, <1>3, <1>4, OperationsTyped DEF PauseContainer, ResumeContainer, StartContainer
<1>5. CASE \E force \in BOOLEAN : StopContainer(c, force)
    BY <1>1, <1>3, <1>5, OperationsTyped DEF StopContainer
<1>6. CASE KillContainer(c) \/ StatusContainer(c)
    BY <1>1, <1>3, <1>6, OperationsTyped DEF KillContainer, StatusContainer
<1>7. CASE WinResize(c)
    <2> DEFINE S == {IF k.st \in {"ready", "running"} THEN k ELSE Fail(k) :
                        k \in checkState(c, Now(c))}
    <2>1. S \in SUBSET ContainerRecord
        BY <1>1, OperationsTyped DEF Fail, ContainerRecord, Errors
    <2> HIDE DEF S
    <2>2. Probe("WinResize", c, S) => DiskOK'
        BY <1>3, <2>1
    <2> QED BY <1>7, <2>2 DEF WinResize, S
<1>8. CASE UpdateContainer(c)
    <2>1. PICK k, refresh, done : /\ k \in {Now(c)} \cup checkState(c, Now(c))
                                  /\ Apply(c, k, cfg, refresh, done, cfg)
        BY <1>8 DEF UpdateContainer
    <2>2. c \in Reg /\ obj = "shim" /\ UNCHANGED <<sb, op>> /\ k \in ContainerRecord
        BY <1>1, <1>8, <2>1, OperationsTyped DEF UpdateContainer, Calling, AtRest
    <2> QED BY <1>2, <2>1, <2>2
<1> QED BY <1>4, <1>5, <1>6, <1>7, <1>8

\* Taking a container out.
LEMMA DeleteContainerDisk ==
    ASSUME IInv, IInv', DiskOK, NEW c \in Containers, DeleteContainer(c)
    PROVE  DiskOK'
<1>1. c \in Reg /\ obj = "shim" /\ UNCHANGED <<sb, op>>
    BY DEF DeleteContainer, Calling, AtRest
<1>2. PICK k \in delete(c, Now(c)) : \E refresh, done, outer :
         /\ Apply(c, k, cfg, refresh, done, outer)
         /\ outer \in {cfg, cfg'} /\ outer \subseteq Containers
    BY IInvTyped DEF DeleteContainer, RemoveFromSandbox, Touch
<1>3. k \in ContainerRecord
    BY IInvTyped, DeleteReleases
<1>4. Reg' \subseteq Reg /\ Reg \subseteq cfg /\ Reg' \subseteq cfg'
    BY <1>1, <1>2, <1>3, ApplyDisk, IInvTyped DEF IInv, RegisteredIsConfigured
<1>5. UNCHANGED <<dsb, dcfg>> \/ (dsb' = sb /\ dcfg' \in {cfg, cfg'})
    BY <1>2, ApplyWrites
<1> QED BY <1>1, <1>4, <1>5, KeptDiskOK

\* Adding one.
LEMMA CreateContainerDisk ==
    ASSUME IInv, IInv', DiskOK, NEW c \in Containers, CreateContainer(c)
    PROVE  DiskOK'
<1>1. cst[c] = "absent" /\ obj = "shim" /\ UNCHANGED <<sb, op>> /\ op.kind = "idle"
    BY DEF CreateContainer, Calling, AtRest, Reg
<1>2. PICK n \in newContainer(c) :
         \/ CreateFailed(c, n, FALSE, TRUE, "fail")
         \/ \E k \in create(c, n) :
              \/ CreateFailed(c, k, FALSE, FALSE, k.err)
              \/ \E refresh, h : h \in stop(c, k, TRUE)
                                 /\ CreateFailed(c, h, refresh, FALSE, "fail")
              \/ Apply(c, k, cfg \cup {c}, Pinning, TRUE, cfg \cup {c}) /\ cfg' = cfg \cup {c}
    BY DEF CreateContainer
<1>3. Begun(c, n) /\ \A k \in create(c, n) : Begun(c, k)
    BY IInvTyped, CreatingBegun
<1>4. ASSUME NEW k, Begun(c, k), NEW refresh, NEW kept, NEW err,
             CreateFailed(c, k, refresh, kept, err)
      PROVE  DiskOK'
    <2> DEFINE j == [k EXCEPT !.st = "absent"]
    <2>1. j \in ContainerRecord /\ j.st = "absent"
        BY <1>1, <1>4, GivenUp DEF Begun, ContainerRecord
    <2>2. Apply(c, j, cfg \cup {c}, refresh, FALSE, cfg \cup {c})
        BY <1>4 DEF CreateFailed
    <2> HIDE DEF j
    <2>3. Reg' \subseteq Reg /\ Reg \subseteq cfg
        BY <2>1, <2>2, ApplyDisk, IInvTyped
    <2>4. UNCHANGED <<dsb, dcfg>> \/ (dsb' = sb /\ dcfg' = cfg \cup {c})
        BY <2>2, ApplyWrites
    <2> QED BY <1>1, <2>3, <2>4, KeptDiskOK
<1>5. ASSUME NEW k, Apply(c, k, cfg \cup {c}, Pinning, TRUE, cfg \cup {c}), cfg' = cfg \cup {c}
      PROVE  DiskOK'
    <2>1. dsb' = sb /\ dcfg' = cfg'
        BY <1>5, ApplyWrites
    <2>2. sb # "creating" /\ Reg' \subseteq cfg'
        BY <1>1 DEF DiskOK, IInv, RegisteredIsConfigured
    <2> QED BY <1>1, <2>1, <2>2, StoredDiskOK
<1>6. ASSUME NEW k \in create(c, n), NEW h \in stop(c, k, TRUE)
      PROVE  Begun(c, h)
    BY <1>3, StoppingBegun
<1> QED BY <1>2, <1>3, <1>4, <1>5, <1>6

\* Adding the containers of a new sandbox: each is stored before the next.
LEMMA InitContainerDisk ==
    ASSUME IInv, IInv', ObjectOK, DiskOK, NEW c \in Containers, InitContainer(c)
    PROVE  DiskOK'
<1>1. cst[c] = "absent" /\ obj = "shim" /\ op.kind = "init" /\ sb' = sb /\ cfg' = cfg /\ op \in Operation
    BY DEF InitContainer, AbortCreate, IInv, TypeOK, TodoOK, Reg, ObjectOK
<1>2. PICK n \in newContainer(c) :
         \/ Touch(c, [n EXCEPT !.st = "absent"]) /\ op'.kind \in {"abort", "drop"}
         \/ \E k \in create(c, n) :
              \/ k.err = "nil" /\ Touch(c, k) /\ op'.kind = "init"
              \/ Touch(c, [k EXCEPT !.st = "absent"]) /\ op'.kind \in {"abort", "drop"}
    <2>1. \A err : AbortCreate(err) => op'.kind \in {"abort", "drop"}
        BY StepFields DEF AbortCreate
    <2>2. op' = [op EXCEPT !.todo = @ \ {c}] => op'.kind = "init"
        BY <1>1 DEF Operation
    <2> QED BY <2>1, <2>2 DEF InitContainer
<1>3. Begun(c, n) /\ \A k \in create(c, n) : Begun(c, k) /\ (k.err = "nil" => k.stored)
    BY IInvTyped, CreatingBegun
<1>4. ASSUME NEW k, Begun(c, k), Touch(c, [k EXCEPT !.st = "absent"]),
             op'.kind \in {"abort", "drop"}
      PROVE  DiskOK'
    <2> DEFINE j == [k EXCEPT !.st = "absent"]
    <2>1. j \in ContainerRecord /\ j.st = "absent"
        BY <1>1, <1>4, GivenUp DEF Begun, ContainerRecord
    <2>2. Apply(c, j, cfg, FALSE, FALSE, cfg)
        BY <1>4 DEF Touch
    <2> HIDE DEF j
    <2>3. Reg' \subseteq Reg /\ Reg \subseteq cfg
        BY <2>1, <2>2, ApplyDisk, IInvTyped
    <2>4. UNCHANGED <<dsb, dcfg>> \/ (dsb' = sb /\ dcfg' = cfg)
        BY <2>2, ApplyWrites
    <2> QED BY <1>1, <1>4, <2>3, <2>4, KeptDiskOK
<1>5. ASSUME NEW k, k.stored, Touch(c, k), op'.kind = "init"
      PROVE  DiskOK'
    <2>1. dsb' = sb /\ dcfg' = cfg'
        BY <1>1, <1>5, ApplyWrites DEF Touch
    <2>2. sb # "creating" /\ Reg' \subseteq cfg'
        BY <1>1 DEF DiskOK, IInv, RegisteredIsConfigured
    <2> QED BY <1>1, <1>5, <2>1, <2>2, StoredDiskOK
<1> QED BY <1>2, <1>3, <1>4, <1>5

\* The steps of the sandbox as a whole; every write succeeds.
LEMMA SandboxStepDisk ==
    ASSUME "store" \notin Faults, IInv, IInv', ObjectOK, DiskOK, SandboxStep
    PROVE  DiskOK'
<1>1. /\ op \in Operation /\ cfg \in SUBSET Containers /\ Reg \subseteq cfg
      /\ Reg' \subseteq cfg' /\ sb \in StateString
    BY DEF IInv, TypeOK, RegisteredIsConfigured
<1>2. May("store") = {TRUE}
    BY DEF May
<1>3. CASE CreateSandbox
    <2>1. Reg' = {} /\ sb' # "creating" /\ op'.kind = "init"
        BY <1>3, StepFields DEF CreateSandbox, LoadedState, NoContainers, Reg
    <2> QED BY <2>1 DEF DiskOK
<1>4. CASE InitDone
    <2>1. PICK refresh, done :
             /\ RefreshAll(refresh, done)
             /\ \/ AbortCreate("fail")
                \/ /\ done /\ UNCHANGED <<obj, sb, cfg>>
                   /\ op' = Idle \/ op' = Step("drop", {})
        BY <1>2, <1>4 DEF InitDone
    <2>2. Reg' = Reg
        BY <2>1, IInvTyped, RefreshAllEffect DEF Reg
    <2>3. (UNCHANGED <<dsb, dcfg>> \/ (dsb' = sb /\ dcfg' = cfg)) /\ (done => dsb' = sb /\ dcfg' = cfg)
        BY <2>1 DEF RefreshAll, WriteDisk
    <2>4. obj = "shim"
        BY <1>4 DEF InitDone, ObjectOK, IInv, TypeOK
    <2>5. CASE AbortCreate("fail")
        <3>1. op'.kind \in {"abort", "drop"} /\ sb' = sb
            BY <2>5, StepFields DEF AbortCreate
        <3> QED BY <1>1, <2>2, <2>3, <2>4, <3>1, KeptDiskOK
    <2>6. CASE done /\ UNCHANGED <<obj, sb, cfg>> /\ (op' = Idle \/ op' = Step("drop", {}))
        <3>1. sb' # "creating"
            BY <2>4, <2>6 DEF DiskOK
        <3>2. op'.kind \in {"idle", "drop"}
            BY <2>6, StepFields
        <3> QED BY <1>1, <2>2, <2>3, <2>6, <3>1, <3>2, StoredDiskOK
    <2> QED BY <2>1, <2>5, <2>6
<1>5. CASE Drop \/ AbortDone \/ ReleaseSandbox
    BY <1>5 DEF Drop, AbortDone, ReleaseSandbox, Forget, DiskOK
<1>6. CASE Delete
    <2>1. /\ obj = "shim" /\ UNCHANGED <<sb, dsb, dcfg>> /\ Reg' = Reg /\ op.kind = "idle"
          /\ op' = op \/ op'.kind = "delete"
        BY <1>6, StepFields DEF Delete, Stopped, AtRest, mem, disk, Reg
    <2> QED BY <2>1, KeptDiskOK
<1>7. CASE DeleteDone
    <2>1. dsb' = "none" /\ op' = Idle /\ UNCHANGED <<obj, sb>>
        BY <1>2, <1>7 DEF DeleteDone, CleanSandboxStorage, mem
    <2> QED BY <2>1, StepFields DEF DiskOK, Restorable
<1>8. CASE Start
    <2>1. obj = "shim" /\ UNCHANGED <<dsb, dcfg>> /\ Reg' = Reg /\ op.kind = "idle"
        BY <1>8 DEF Start, Calling, AtRest, disk, Reg
    <2>2. sb # "creating" /\ (Restorable => Reg \subseteq dcfg /\ dsb \in {sb, "running"})
        BY <2>1 DEF DiskOK
    <2>3. \/ sb' = sb /\ op'.kind \in {"idle", "ensure"}
          \/ sb' = "running" /\ op'.kind = "start" /\ op'.old = sb
        <3>1. CASE sb = "running"
            BY <1>8, <2>2, <3>1, StepFields DEF Start
        <3>2. CASE sb # "running" /\ SandboxTransition(sb, "running")
            BY <1>8, <2>2, <3>2 DEF Start, Step, Idle
        <3>3. CASE sb # "running" /\ ~SandboxTransition(sb, "running")
            BY <1>8, <2>1, <2>2, <3>3 DEF Start
        <3> QED BY <3>1, <3>2, <3>3
    <2> QED BY <2>1, <2>2, <2>3 DEF DiskOK, Restorable
<1>9. CASE StartDone
    <2>1. /\ dsb' = sb /\ dcfg' = cfg /\ op' = Idle /\ UNCHANGED mem /\ obj = "shim"
        BY <1>2, <1>9 DEF StartDone, WriteDisk, ObjectOK, IInv, TypeOK
    <2> QED BY <1>1, <2>1, StepFields, StoredDiskOK DEF mem, DiskOK
<1>10. CASE Stop
    <2>1. /\ obj = "shim" /\ UNCHANGED <<sb, dsb, dcfg>> /\ Reg' = Reg /\ op.kind = "idle"
          /\ op' = op \/ op'.kind = "stop"
        BY <1>10, StepFields DEF Stop, Calling, AtRest, mem, disk, Reg
    <2> QED BY <2>1, KeptDiskOK
<1>11. CASE StopClients
    <2>1. /\ obj = "shim" /\ UNCHANGED <<sb, dsb, dcfg>> /\ Reg' = Reg /\ op.kind = "stop"
          /\ op'.kind = "stopClients"
        BY <1>1, <1>11 DEF StopClients, mem, disk, Reg, ObjectOK, IInv, TypeOK, Operation
    <2> QED BY <2>1, KeptDiskOK
<1>12. CASE StopDone
    <2>1. dsb' = "stopped" /\ dcfg' = cfg /\ sb' = "stopped" /\ cfg' = cfg /\ op' = Idle
        BY <1>2, <1>12 DEF StopDone, WriteDisk
    <2> QED BY <1>1, <2>1, StepFields, StoredDiskOK
<1> QED BY <1>3, <1>4, <1>5, <1>6, <1>7, <1>8, <1>9, <1>10, <1>11, <1>12 DEF SandboxStep

\* Every step.
LEMMA NextDiskOK ==
    ASSUME "store" \notin Faults, IInv, IInv', ObjectOK, DiskOK, [Next]_vars
    PROVE  DiskOK'
<1>1. ASSUME NEW c \in Containers, ContainerStep(c)
      PROVE  DiskOK'
    BY <1>1, InitContainerDisk, RoundDisk, CallDisk DEF ContainerStep
<1>2. ASSUME NEW c \in PodContainers, PodContainerStep(c)
      PROVE  DiskOK'
    BY <1>2, CreateContainerDisk, DeleteContainerDisk, CallDisk DEF PodContainerStep, PodContainers
<1>3. CASE \E c \in Containers : CleanupContainer(c)
    BY <1>3 DEF CleanupContainer, mem, DiskOK
<1>4. CASE CleanupStop \/ CleanupDelete \/ CleanupSandbox
    BY <1>4 DEF CleanupStop, CleanupDelete, CleanupSandbox, DiskOK
<1>5. CASE Crash \/ RemoveBundle
    BY <1>5 DEF Crash, Forget, RemoveBundle, mem, DiskOK
<1>6. CASE \E c \in Containers :
              ClientVanishes(c) \/ \E status \in {"idle", "running"} : ClientAppears(c, status)
    BY <1>6 DEF ClientVanishes, ClientAppears, mem, disk, DiskOK, Restorable, Reg
<1>7. CASE UNCHANGED vars
    BY <1>7 DEF vars, DiskOK, Restorable, Reg
<1> QED BY <1>1, <1>2, <1>3, <1>4, <1>5, <1>6, <1>7, SandboxStepDisk DEF Next, CleanupStep, Environment

\* Throughout, when every write succeeds.
THEOREM SpecDiskOK ==
    ASSUME "store" \notin Faults
    PROVE  Spec => []DiskOK
<1>1. Init => DiskOK
    BY DEF Init, DiskOK
<1>2. (IInv /\ ObjectOK /\ AllSound) /\ (IInv /\ ObjectOK /\ AllSound)' /\ DiskOK /\ [Next]_vars
        => DiskOK'
    BY NextDiskOK
<1> QED BY <1>1, <1>2, SpecSound, PTL DEF Spec

\* Between two calls the sandbox's file never says less than the sandbox is,
\* for every set of containers and whatever else fails: a start that was
\* rolled back in memory leaves "running" there, nothing leaves a running
\* sandbox recorded as anything else.
THEOREM DiskSafety ==
    ASSUME "store" \notin Faults
    PROVE  Spec => []DiskNeverUnderstates
<1>1. DiskOK => DiskNeverUnderstates
    BY DEF DiskOK, DiskNeverUnderstates, Settled, AtRest
<1> QED BY <1>1, SpecDiskOK, PTL

\* Between two calls every container of the map could be recovered after a
\* crash: its config is in the sandbox's file and its own file has its state,
\* for every set of containers, through failed creations, deletions and
\* commands, as long as writes succeed.
THEOREM RecoverySafety ==
    ASSUME "store" \notin Faults
    PROVE  Spec => []Recoverable
<1>1. DiskOK /\ AllSound => Recoverable
    <2> SUFFICES ASSUME DiskOK, AllSound, Settled, NEW c \in Reg
                 PROVE  c \in dcfg /\ file[c] = cst[c]
        BY DEF Recoverable
    <2>1. obj = "shim" /\ op.kind = "idle" /\ Restorable
        BY DEF Settled, AtRest
    <2>2. c \in dcfg
        BY <2>1 DEF DiskOK
    <2>3. c \in Containers /\ cst[c] # "absent"
        BY DEF Reg
    <2> QED BY <2>1, <2>2, <2>3, SoundByFields DEF AllSound, SoundFields
<1> QED BY <1>1, SpecSound, SpecDiskOK, PTL
=============================================================================
