-------------------------------- MODULE Netns --------------------------------
(***************************************************************************)
(* The network namespace holder of one sandbox (pkg/netns): the table of   *)
(* holders, the goroutine that waits for each holder process, and the      *)
(* Create calls and the deletions of the shim that go through them.  The   *)
(* lock of the table is held for one lookup or one assignment at a time;   *)
(* the callers are goroutines that nothing else keeps apart.               *)
(***************************************************************************)
EXTENDS Naturals, FiniteSets

CONSTANTS
    Callers,        \* goroutines that create, and then delete, the sandbox
    Holders,        \* holder processes that may be started, each with its pid
    NoHolder,
    Faults          \* subset of {"exit", "crash", "start"}

ASSUME HoldersAssumption == NoHolder \notin Holders

VARIABLES
    table,      \* holders[id]
    proc,       \* a holder process: unborn, running, dead (to be waited for), gone
    signal,     \* the strongest signal it was sent
    done,       \* the value is in its done channel, or the channel is closed
    waiter,     \* the goroutine of Create that waits for it
    pc,         \* where a caller is
    pid,        \* NetworkConfig.HolderPid of the caller's sandbox
    mine,       \* the holder a caller has started, or is cleaning up
    sandbox,    \* the caller whose sandbox the service keeps
    crashed,    \* history: the shim has died
    raced       \* history: Create has overwritten an entry of the table

vars == <<table, proc, signal, done, waiter, pc, pid, mine, sandbox, crashed, raced>>
history == <<crashed, raced>>
process == <<proc, signal, done, waiter>>

MaybeHolder == Holders \cup {NoHolder}

\* The steps of Cleanup and of terminateByPID.
Cleaning == {"cleanup", "term", "select", "reap", "termpid", "poll"}

TypeOK ==
    /\ table \in MaybeHolder
    /\ proc \in [Holders -> {"unborn", "running", "dead", "gone"}]
    /\ signal \in [Holders -> {"none", "term", "kill"}]
    /\ done \in [Holders -> BOOLEAN]
    /\ waiter \in [Holders -> {"none", "wait", "clear", "over"}]
    /\ pc \in [Callers -> {"idle", "lookup", "start", "record", "created", "kept"} \cup Cleaning]
    /\ pid \in [Callers -> MaybeHolder] /\ mine \in [Callers -> MaybeHolder]
    /\ \A c \in Callers : mine[c] # NoHolder <=> pc[c] \in {"record", "term", "select", "reap"}
    /\ sandbox \in Callers \cup {NoHolder}
    /\ crashed \in BOOLEAN /\ raced \in BOOLEAN

Init ==
    /\ table = NoHolder
    /\ proc = [h \in Holders |-> "unborn"] /\ signal = [h \in Holders |-> "none"]
    /\ done = [h \in Holders |-> FALSE] /\ waiter = [h \in Holders |-> "none"]
    /\ pc = [c \in Callers |-> "idle"]
    /\ pid = [c \in Callers |-> NoHolder] /\ mine = [c \in Callers |-> NoHolder]
    /\ sandbox = NoHolder
    /\ crashed = FALSE /\ raced = FALSE

\* The caller goes from one place to the next.
Goes(c, from, to) == pc[c] = from /\ pc' = [pc EXCEPT ![c] = to]

-----------------------------------------------------------------------------
\* createSandboxContainer and setupNetNS: the sandbox is looked for first, its
\* configuration is new and names no holder.
Begin(c) ==
    /\ Goes(c, "idle", "lookup")
    /\ sandbox = NoHolder
    /\ UNCHANGED <<table, process, pid, mine, sandbox, history>>

\* Create, up to the first unlock.
Lookup(c) ==
    /\ IF table # NoHolder
       THEN Goes(c, "lookup", "created") /\ pid' = [pid EXCEPT ![c] = table]
       ELSE Goes(c, "lookup", "start") /\ UNCHANGED pid
    /\ UNCHANGED <<table, process, mine, sandbox, history>>

Start(c) ==
    /\ Goes(c, "start", "record")
    /\ \E h \in Holders :
         /\ proc[h] = "unborn"
         /\ proc' = [proc EXCEPT ![h] = "running"]
         /\ mine' = [mine EXCEPT ![c] = h]
    /\ UNCHANGED <<table, signal, done, waiter, pid, sandbox, history>>

\* No command is found, or it does not start: createSandbox returns the error.
StartFails(c) ==
    /\ "start" \in Faults
    /\ Goes(c, "start", "idle")
    /\ UNCHANGED <<table, process, pid, mine, sandbox, history>>

\* The second critical section of Create; the goroutine is started after it.
Record_waitsFirst(c) ==
    /\ Goes(c, "record", "created")
    /\ table' = mine[c]
    /\ raced' = (raced \/ table # NoHolder)
    /\ waiter' = [waiter EXCEPT ![mine[c]] = IF proc[mine[c]] = "running" THEN "wait" ELSE "over"]
    /\ pid' = [pid EXCEPT ![c] = mine[c]] /\ mine' = [mine EXCEPT ![c] = NoHolder]
    /\ UNCHANGED <<proc, signal, done, sandbox, crashed>>
Record(c) ==
    /\ Goes(c, "record", "created")
    /\ table' = mine[c]
    /\ raced' = (raced \/ table # NoHolder)
    /\ waiter' = [waiter EXCEPT ![mine[c]] = "wait"]
    /\ pid' = [pid EXCEPT ![c] = mine[c]] /\ mine' = [mine EXCEPT ![c] = NoHolder]
    /\ UNCHANGED <<proc, signal, done, sandbox, crashed>>

\* CreateSandbox succeeds and the service keeps the sandbox, or it fails and the
\* deferred function of createSandbox cleans up.
Keep(c) ==
    /\ Goes(c, "created", "kept")
    /\ sandbox' = c
    /\ UNCHANGED <<table, process, pid, mine, history>>

CreateFails(c) ==
    /\ Goes(c, "created", "cleanup")
    /\ UNCHANGED <<table, process, pid, mine, sandbox, history>>

\* Sandbox.Delete of the sandbox the service keeps.
Delete(c) ==
    /\ sandbox = c
    /\ Goes(c, "kept", "cleanup")
    /\ UNCHANGED <<table, process, pid, mine, sandbox, history>>

-----------------------------------------------------------------------------
\* Cleanup: the entry is taken out of the table, whoever made it; the pid of the
\* configuration is only a fallback.
Cleanup(c) ==
    /\ CASE table # NoHolder -> /\ Goes(c, "cleanup", "term")
                                /\ mine' = [mine EXCEPT ![c] = table]
         [] table = NoHolder /\ pid[c] # NoHolder -> Goes(c, "cleanup", "termpid") /\ UNCHANGED mine
         [] OTHER -> Goes(c, "cleanup", "idle") /\ UNCHANGED mine
    /\ table' = NoHolder
    /\ sandbox' = IF sandbox = c /\ pc'[c] = "idle" THEN NoHolder ELSE sandbox
    /\ UNCHANGED <<process, pid, history>>

Send(h, s) ==
    signal' = IF proc[h] = "running" /\ signal[h] # "kill"
              THEN [signal EXCEPT ![h] = s] ELSE signal

\* The end of NetworkCleanup, and of a deletion.
Cleaned_keepsHolder(c) ==
    /\ pid' = [pid EXCEPT ![c] = NoHolder] /\ UNCHANGED mine
    /\ sandbox' = IF sandbox = c THEN NoHolder ELSE sandbox
Cleaned(c) ==
    /\ pid' = [pid EXCEPT ![c] = NoHolder] /\ mine' = [mine EXCEPT ![c] = NoHolder]
    /\ sandbox' = IF sandbox = c THEN NoHolder ELSE sandbox

Term(c) ==
    /\ Goes(c, "term", "select")
    /\ Send(mine[c], "term")
    /\ UNCHANGED <<table, proc, done, waiter, pid, mine, sandbox, history>>

\* <-h.done, before or after the SIGKILL.
Done(c) ==
    /\ pc[c] \in {"select", "reap"} /\ pc' = [pc EXCEPT ![c] = "idle"]
    /\ done[mine[c]]
    /\ Cleaned(c)
    /\ UNCHANGED <<table, process, history>>

\* time.After(2 s); it may fire although the channel has its value.
Timeout_givesUp(c) ==
    /\ Goes(c, "select", "idle")
    /\ Cleaned(c)
    /\ UNCHANGED <<table, process, history>>
Timeout_waits(c) ==
    /\ Goes(c, "select", "reap")
    /\ UNCHANGED <<table, process, pid, mine, sandbox, history>>
Timeout(c) ==
    /\ Goes(c, "select", "reap")
    /\ Send(mine[c], "kill")
    /\ UNCHANGED <<table, proc, done, waiter, pid, mine, sandbox, history>>

\* terminateByPID: SIGTERM, polling for 2 s, SIGKILL without waiting for its end.
\* A process that is dead but not waited for still answers signal 0.
TermPid(c) ==
    /\ Goes(c, "termpid", "poll")
    /\ Send(pid[c], "term")
    /\ UNCHANGED <<table, proc, done, waiter, pid, mine, sandbox, history>>

PidGone(c) ==
    /\ Goes(c, "poll", "idle")
    /\ proc[pid[c]] = "gone"
    /\ Cleaned(c)
    /\ UNCHANGED <<table, process, history>>

PidTimeout(c) ==
    /\ Goes(c, "poll", "idle")
    /\ Send(pid[c], "kill")
    /\ Cleaned(c)
    /\ UNCHANGED <<table, proc, done, waiter, history>>

-----------------------------------------------------------------------------
\* A holder process ends because of a signal, or because somebody else kills it.
Exit(h) ==
    /\ proc[h] = "running" /\ (signal[h] # "none" \/ "exit" \in Faults)
    /\ proc' = [proc EXCEPT ![h] = "dead"]
    /\ UNCHANGED <<table, signal, done, waiter, pc, pid, mine, sandbox, history>>

\* cmd.Wait returns; the channel has room for its value and is closed.
Wait_closesNothing(h) ==
    /\ waiter[h] = "wait" /\ proc[h] = "dead"
    /\ proc' = [proc EXCEPT ![h] = "gone"]
    /\ waiter' = [waiter EXCEPT ![h] = "clear"]
    /\ UNCHANGED <<table, signal, done, pc, pid, mine, sandbox, history>>
Wait(h) ==
    /\ waiter[h] = "wait" /\ proc[h] = "dead"
    /\ proc' = [proc EXCEPT ![h] = "gone"]
    /\ done' = [done EXCEPT ![h] = TRUE]
    /\ waiter' = [waiter EXCEPT ![h] = "clear"]
    /\ UNCHANGED <<table, signal, pc, pid, mine, sandbox, history>>

\* The goroutine clears the table "if the current holder matches this instance".
Clear_any(h) ==
    /\ waiter[h] = "clear"
    /\ table' = NoHolder
    /\ waiter' = [waiter EXCEPT ![h] = "over"]
    /\ UNCHANGED <<proc, signal, done, pc, pid, mine, sandbox, history>>
Clear(h) ==
    /\ waiter[h] = "clear"
    /\ table' = IF table = h THEN NoHolder ELSE table
    /\ waiter' = [waiter EXCEPT ![h] = "over"]
    /\ UNCHANGED <<proc, signal, done, pc, pid, mine, sandbox, history>>

\* The shim dies: its table and its goroutines are gone, the holders live on.  A
\* sandbox that was stored is restored, with the pid of its holder, and deleted.
Crash ==
    /\ "crash" \in Faults /\ ~crashed
    /\ crashed' = TRUE
    /\ table' = NoHolder
    /\ waiter' = [h \in Holders |-> IF waiter[h] = "none" THEN "none" ELSE "over"]
    /\ pc' = [c \in Callers |-> IF sandbox = c THEN "kept" ELSE "idle"]
    /\ pid' = [c \in Callers |-> IF sandbox = c THEN pid[c] ELSE NoHolder]
    /\ mine' = [c \in Callers |-> NoHolder]
    /\ UNCHANGED <<proc, signal, done, sandbox, raced>>

\* A process whose parent has died is waited for by init.
Adopted(h) ==
    /\ crashed /\ proc[h] = "dead" /\ waiter[h] \in {"none", "over"}
    /\ \A c \in Callers : mine[c] # h
    /\ proc' = [proc EXCEPT ![h] = "gone"]
    /\ UNCHANGED <<table, signal, done, waiter, pc, pid, mine, sandbox, history>>

Create(c) == Lookup(c) \/ Start(c) \/ StartFails(c) \/ Record(c)
NetworkCleanup(c) ==
    Cleanup(c) \/ Term(c) \/ Done(c) \/ Timeout(c) \/ TermPid(c) \/ PidGone(c) \/ PidTimeout(c)

Next ==
    \/ \E c \in Callers : \/ Begin(c) \/ Create(c) \/ Keep(c) \/ CreateFails(c)
                          \/ Delete(c) \/ NetworkCleanup(c)
    \/ \E h \in Holders : Exit(h) \/ Wait(h) \/ Clear(h) \/ Adopted(h)
    \/ Crash

\* A call that cleans up goes on, a process that was sent SIGKILL ends, and the
\* goroutines run.  Nothing is assumed of SIGTERM.
Fairness ==
    /\ \A c \in Callers : WF_vars(NetworkCleanup(c))
    /\ \A h \in Holders : /\ WF_vars(signal[h] = "kill" /\ Exit(h))
                          /\ WF_vars(Wait(h)) /\ WF_vars(Clear(h))

Spec == Init /\ [][Next]_vars /\ Fairness

-----------------------------------------------------------------------------
\* Properties.

\* The table never keeps a holder whose goroutine has ended, since nothing would
\* clear it and every later Create would answer with a dead process (netns.go:62-77).
EntryIsWatched ==
    table # NoHolder => waiter[table] \in {"wait", "clear"}

\* "Ensure we only clear if the current holder matches this instance" (netns.go:73):
\* the entry of a holder that runs is only taken out by a Cleanup, or by another
\* Create that found none before.
RunningStaysKnown ==
    [][(table # NoHolder /\ proc[table] = "running" /\ table' # table /\ ~crashed')
         => \E c \in Callers : pc[c] \in {"cleanup", "record"} /\ pc'[c] # pc[c]]_vars

\* The holder a deletion waits for has its goroutine, or has left its value: the
\* unbounded wait after SIGKILL is for something that comes (netns.go:139-149).
WaitIsAnswered ==
    \A c \in Callers : pc[c] \in {"term", "select", "reap"} =>
        mine[c] # NoHolder /\ (done[mine[c]] \/ waiter[mine[c]] = "wait")

\* Every cleanup ends, whatever the holder makes of SIGTERM (netns.go:110-150, 201-225).
CleanupEnds ==
    \A c \in Callers : (pc[c] \in Cleaning) ~> (pc[c] \notin Cleaning)

Alive(h) == proc[h] = "running" /\ signal[h] # "kill"
NothingLeft ==
    (\A c \in Callers : pc[c] = "idle") => \A h \in Holders : ~Alive(h)

\* When every call has ended and no sandbox is kept, no holder is left running,
\* unless the shim died or two Creates overlapped (create.go:268-278, netns.go:46-64).
LeftOnlyByRace == raced \/ crashed \/ NothingLeft
=============================================================================
