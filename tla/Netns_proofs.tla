----------------------------- MODULE Netns_proofs -----------------------------
(***************************************************************************)
(* The table of the holders: proofs for any number of concurrent callers   *)
(* and of holder processes, and for every fault.                           *)
(***************************************************************************)
EXTENDS Netns, TLAPS

\* What is known of the goroutine of a holder: it is started once, by the caller
\* that has recorded the holder, and clears its entry when the process is gone.
Goroutines ==
    /\ \A h \in Holders : waiter[h] = "clear" => done[h] /\ proc[h] = "gone"
    /\ \A h \in Holders : proc[h] = "unborn" => waiter[h] = "none"
    /\ \A c \in Callers : pc[c] = "record" =>
         waiter[mine[c]] = "none" /\ proc[mine[c]] # "unborn"
    /\ \A c, d \in Callers :
         pc[c] = "record" /\ pc[d] = "record" /\ mine[c] = mine[d] => c = d

IInv == TypeOK /\ EntryIsWatched /\ WaitIsAnswered /\ Goroutines

\* What RunningStaysKnown says of one step.
KnownStep ==
    (table # NoHolder /\ proc[table] = "running" /\ table' # table /\ ~crashed')
        => \E c \in Callers : pc[c] \in {"cleanup", "record"} /\ pc'[c] # pc[c]

LEMMA Initially == Init => IInv
<1> SUFFICES ASSUME Init PROVE IInv
    OBVIOUS
<1>1. TypeOK
    BY DEF Init, TypeOK, MaybeHolder, Cleaning
<1>2. EntryIsWatched /\ WaitIsAnswered
    BY DEF Init, EntryIsWatched, WaitIsAnswered
<1>3. Goroutines
    BY DEF Init, Goroutines
<1> QED
    BY <1>1, <1>2, <1>3 DEF IInv

\* A caller that only moves on, or takes a pid, keeps everything: the places where
\* it holds a holder are entered by the steps below.
LEMMA MovesOn ==
    ASSUME IInv, NEW c \in Callers, NEW to,
           pc[c] \notin {"record", "term", "select", "reap"},
           to \in {"idle", "lookup", "start", "created", "kept", "cleanup", "termpid", "poll"},
           pc' = [pc EXCEPT ![c] = to], pid' \in [Callers -> MaybeHolder],
           sandbox' \in Callers \cup {NoHolder}, table' \in {table, NoHolder},
           signal' \in [Holders -> {"none", "term", "kill"}],
           UNCHANGED <<proc, done, waiter, mine, history>>
    PROVE  IInv'
<1>1. /\ \A d \in Callers : d # c => pc'[d] = pc[d]
      /\ pc'[c] = to
    BY DEF IInv, TypeOK
<1>2. mine[c] = NoHolder
    BY DEF IInv, TypeOK
<1>3. pc' \in [Callers -> {"idle", "lookup", "start", "record", "created", "kept"} \cup Cleaning]
    BY DEF IInv, TypeOK, Cleaning
<1>4. TypeOK'
    BY <1>1, <1>2, <1>3 DEF IInv, TypeOK, MaybeHolder, history
<1>5. EntryIsWatched' /\ WaitIsAnswered'
    BY <1>1 DEF IInv, EntryIsWatched, WaitIsAnswered
<1>6. Goroutines'
    BY <1>1 DEF IInv, Goroutines
<1> QED
    BY <1>4, <1>5, <1>6 DEF IInv

LEMMA Signals ==
    ASSUME TypeOK, NEW h \in MaybeHolder, h # NoHolder, NEW s \in {"term", "kill"}, Send(h, s)
    PROVE  signal' \in [Holders -> {"none", "term", "kill"}]
BY DEF TypeOK, Send

LEMMA CreateStep ==
    ASSUME IInv, NEW c \in Callers,
           Begin(c) \/ Create(c) \/ Keep(c) \/ CreateFails(c) \/ Delete(c)
    PROVE  IInv' /\ KnownStep
<1>1. CASE Begin(c) \/ Lookup(c) \/ StartFails(c) \/ Keep(c) \/ CreateFails(c) \/ Delete(c)
    <2>1. /\ pc[c] \in {"idle", "lookup", "start", "created", "kept"}
          /\ \E to \in {"idle", "lookup", "start", "created", "kept", "cleanup"} :
                pc' = [pc EXCEPT ![c] = to]
          /\ pid' \in [Callers -> MaybeHolder] /\ sandbox' \in Callers \cup {NoHolder}
          /\ UNCHANGED <<table, signal, proc, done, waiter, mine, history>>
        BY <1>1 DEF Begin, Lookup, StartFails, Keep, CreateFails, Delete, Goes, process,
           IInv, TypeOK
    <2>2. IInv'
        BY <2>1, MovesOn DEF IInv, TypeOK
    <2> QED
        BY <2>1, <2>2 DEF KnownStep
<1>2. CASE Start(c)
    <2>1. PICK h \in Holders : /\ proc[h] = "unborn"
                               /\ proc' = [proc EXCEPT ![h] = "running"]
                               /\ mine' = [mine EXCEPT ![c] = h]
        BY <1>2 DEF Start
    <2>2. /\ pc[c] = "start" /\ pc' = [pc EXCEPT ![c] = "record"]
          /\ UNCHANGED <<table, signal, done, waiter, pid, sandbox, history>>
        BY <1>2 DEF Start, Goes
    <2>3. TypeOK' /\ EntryIsWatched'
        BY <2>1, <2>2, HoldersAssumption
        DEF IInv, TypeOK, EntryIsWatched, MaybeHolder, Cleaning, history
    <2>4. WaitIsAnswered'
        BY <2>1, <2>2 DEF IInv, TypeOK, WaitIsAnswered
    <2>5. Goroutines'
        BY <2>1, <2>2 DEF IInv, TypeOK, Goroutines
    <2> QED
        BY <2>2, <2>3, <2>4, <2>5 DEF IInv, KnownStep
<1>3. CASE Record(c)
    <2> DEFINE h == mine[c]
    <2>1. /\ pc[c] = "record" /\ pc' = [pc EXCEPT ![c] = "created"]
          /\ table' = h /\ raced' \in BOOLEAN
          /\ waiter' = [waiter EXCEPT ![h] = "wait"]
          /\ pid' = [pid EXCEPT ![c] = h] /\ mine' = [mine EXCEPT ![c] = NoHolder]
          /\ UNCHANGED <<proc, signal, done, sandbox, crashed>>
        BY <1>3 DEF Record, Goes, IInv, TypeOK
    <2>2. h \in Holders /\ waiter[h] = "none" /\ proc[h] # "unborn"
        BY <2>1 DEF IInv, TypeOK, Goroutines, MaybeHolder
    <2> HIDE DEF h
    <2>3. TypeOK' /\ EntryIsWatched'
        BY <2>1, <2>2, HoldersAssumption DEF IInv, TypeOK, EntryIsWatched, MaybeHolder, Cleaning
    <2>4. WaitIsAnswered'
        BY <2>1, <2>2, HoldersAssumption DEF IInv, TypeOK, WaitIsAnswered, MaybeHolder
    <2>5. Goroutines'
        BY <2>1, <2>2 DEF IInv, TypeOK, Goroutines, h
    <2>6. KnownStep
        BY <2>1 DEF KnownStep, IInv, TypeOK
    <2> QED
        BY <2>3, <2>4, <2>5, <2>6 DEF IInv
<1> QED
    BY <1>1, <1>2, <1>3 DEF Create

LEMMA CleanupStep ==
    ASSUME IInv, NEW c \in Callers, NetworkCleanup(c)
    PROVE  IInv' /\ KnownStep
<1>1. CASE Cleanup(c) /\ table # NoHolder
    <2>1. /\ pc[c] = "cleanup" /\ pc' = [pc EXCEPT ![c] = "term"]
          /\ mine' = [mine EXCEPT ![c] = table] /\ table' = NoHolder
          /\ UNCHANGED <<process, pid, sandbox, history>>
        BY <1>1 DEF Cleanup, Goes, IInv, TypeOK
    <2>2. table \in Holders /\ (done[table] \/ waiter[table] = "wait")
        BY <1>1 DEF IInv, TypeOK, EntryIsWatched, Goroutines, MaybeHolder
    <2>3. TypeOK' /\ EntryIsWatched'
        BY <2>1, <2>2, HoldersAssumption
        DEF IInv, TypeOK, EntryIsWatched, MaybeHolder, Cleaning, process, history
    <2>4. WaitIsAnswered'
        BY <2>1, <2>2, HoldersAssumption DEF IInv, TypeOK, WaitIsAnswered, process
    <2>5. Goroutines'
        BY <2>1, <2>2 DEF IInv, TypeOK, Goroutines, process
    <2>6. KnownStep
        BY <2>1 DEF KnownStep, IInv, TypeOK
    <2> QED
        BY <2>3, <2>4, <2>5, <2>6 DEF IInv
<1>2. CASE (Cleanup(c) /\ table = NoHolder) \/ TermPid(c) \/ PidGone(c) \/ PidTimeout(c)
    <2>1. pc[c] \in {"cleanup", "termpid", "poll"}
        BY <1>2 DEF Cleanup, TermPid, PidGone, PidTimeout, Goes
    <2>2. /\ \E to \in {"idle", "termpid", "poll"} : pc' = [pc EXCEPT ![c] = to]
          /\ pid' \in [Callers -> MaybeHolder] /\ sandbox' \in Callers \cup {NoHolder}
          /\ UNCHANGED <<table, proc, done, waiter, history>>
        BY <1>2, HoldersAssumption
        DEF Cleanup, TermPid, PidGone, PidTimeout, Goes, Cleaned, process, IInv, TypeOK,
            MaybeHolder
    <2>3. mine' = mine
        <3>1. mine[c] = NoHolder
            BY <2>1 DEF IInv, TypeOK
        <3> QED
            BY <1>2, <3>1 DEF Cleanup, TermPid, PidGone, PidTimeout, Goes, Cleaned, IInv, TypeOK
    <2>4. signal' \in [Holders -> {"none", "term", "kill"}]
        BY <1>2 DEF Cleanup, TermPid, PidGone, PidTimeout, Send, process, IInv, TypeOK
    <2>5. IInv'
        BY <2>1, <2>2, <2>3, <2>4, MovesOn
    <2> QED
        BY <2>2, <2>5 DEF KnownStep
<1>3. CASE Term(c) \/ Timeout(c)
    <2>1. /\ pc[c] \in {"term", "select"}
          /\ \E to \in {"select", "reap"} : pc' = [pc EXCEPT ![c] = to]
          /\ UNCHANGED <<table, proc, done, waiter, pid, mine, sandbox, history>>
        BY <1>3 DEF Term, Timeout, Goes
    <2>2. signal' \in [Holders -> {"none", "term", "kill"}]
        BY <1>3 DEF Term, Timeout, Send, IInv, TypeOK
    <2>3. TypeOK' /\ EntryIsWatched'
        BY <2>1, <2>2 DEF IInv, TypeOK, EntryIsWatched, Cleaning, history
    <2>4. WaitIsAnswered' /\ Goroutines'
        BY <2>1 DEF IInv, TypeOK, WaitIsAnswered, Goroutines
    <2> QED
        BY <2>1, <2>3, <2>4 DEF IInv, KnownStep
<1>4. CASE Done(c)
    <2>1. /\ pc[c] \in {"select", "reap"} /\ pc' = [pc EXCEPT ![c] = "idle"]
          /\ pid' = [pid EXCEPT ![c] = NoHolder] /\ mine' = [mine EXCEPT ![c] = NoHolder]
          /\ sandbox' \in {sandbox, NoHolder}
          /\ UNCHANGED <<table, process, history>>
        BY <1>4 DEF Done, Cleaned
    <2>2. TypeOK' /\ EntryIsWatched'
        BY <2>1 DEF IInv, TypeOK, EntryIsWatched, MaybeHolder, Cleaning, process, history
    <2>3. WaitIsAnswered' /\ Goroutines'
        BY <2>1 DEF IInv, TypeOK, WaitIsAnswered, Goroutines, process
    <2> QED
        BY <2>1, <2>2, <2>3 DEF IInv, KnownStep
<1> QED
    BY <1>1, <1>2, <1>3, <1>4 DEF NetworkCleanup

LEMMA ProcessStep ==
    ASSUME IInv, NEW h \in Holders, Exit(h) \/ Wait(h) \/ Clear(h) \/ Adopted(h)
    PROVE  IInv' /\ KnownStep
<1>1. CASE Exit(h)
    BY <1>1
    DEF Exit, IInv, TypeOK, EntryIsWatched, WaitIsAnswered, Goroutines, KnownStep, history
<1>2. CASE Wait(h)
    BY <1>2
    DEF Wait, IInv, TypeOK, EntryIsWatched, WaitIsAnswered, Goroutines, KnownStep, history
<1>3. CASE Clear(h)
    BY <1>3, HoldersAssumption
    DEF Clear, IInv, TypeOK, EntryIsWatched, WaitIsAnswered, Goroutines, KnownStep, history,
        MaybeHolder
<1>4. CASE Adopted(h)
    BY <1>4
    DEF Adopted, IInv, TypeOK, EntryIsWatched, WaitIsAnswered, Goroutines, KnownStep, history
<1> QED
    BY <1>1, <1>2, <1>3, <1>4

LEMMA CrashStep ==
    ASSUME IInv, Crash
    PROVE  IInv' /\ KnownStep
BY HoldersAssumption
DEF Crash, IInv, TypeOK, EntryIsWatched, WaitIsAnswered, Goroutines, KnownStep, MaybeHolder,
    Cleaning

LEMMA EveryStep ==
    ASSUME IInv, [Next]_vars
    PROVE  IInv' /\ (KnownStep \/ UNCHANGED vars)
<1>1. CASE UNCHANGED vars
    BY <1>1
    DEF vars, IInv, TypeOK, EntryIsWatched, WaitIsAnswered, Goroutines
<1>2. ASSUME NEW c \in Callers,
             \/ Begin(c) \/ Create(c) \/ Keep(c) \/ CreateFails(c)
             \/ Delete(c) \/ NetworkCleanup(c)
      PROVE  IInv' /\ KnownStep
    BY <1>2, CreateStep, CleanupStep
<1>3. ASSUME NEW h \in Holders, Exit(h) \/ Wait(h) \/ Clear(h) \/ Adopted(h)
      PROVE  IInv' /\ KnownStep
    BY <1>3, ProcessStep
<1>4. CASE Crash
    BY <1>4, CrashStep
<1> QED
    BY <1>1, <1>2, <1>3, <1>4 DEF Next

LEMMA SpecIInv == Spec => []IInv
<1>1. Init => IInv
    BY Initially
<1>2. IInv /\ [Next]_vars => IInv'
    BY EveryStep
<1> QED
    BY <1>1, <1>2, PTL DEF Spec

\* The types, for any number of callers and holders and every fault.
THEOREM HolderTypes == Spec => []TypeOK
<1>1. IInv => TypeOK
    BY DEF IInv
<1> QED
    BY <1>1, SpecIInv, PTL

\* The table only ever names a holder whose goroutine will clear it (netns.go:62-77).
THEOREM Watched == Spec => []EntryIsWatched
<1>1. IInv => EntryIsWatched
    BY DEF IInv
<1> QED
    BY <1>1, SpecIInv, PTL

\* A cleanup only waits for a value that is there or will be sent (netns.go:139-149).
THEOREM Answered == Spec => []WaitIsAnswered
<1>1. IInv => WaitIsAnswered
    BY DEF IInv
<1> QED
    BY <1>1, SpecIInv, PTL

\* The goroutine of one holder never removes the entry of another that runs
\* (netns.go:72-77), however the two Creates and the exit interleave.
THEOREM StaysKnown == Spec => RunningStaysKnown
<1>1. IInv /\ [Next]_vars =>
        [(table # NoHolder /\ proc[table] = "running" /\ table' # table /\ ~crashed')
         => \E c \in Callers : pc[c] \in {"cleanup", "record"} /\ pc'[c] # pc[c]]_vars
    BY EveryStep DEF KnownStep
<1> QED
    BY <1>1, SpecIInv, PTL DEF Spec, RunningStaysKnown

-----------------------------------------------------------------------------
\* Who answers for a holder that runs.

\* While the table has an entry some caller has still to keep or to clean up what it
\* found there; until two Creates overlap, a holder that runs is in the table, or with
\* the caller that started it, or with the one that is terminating it.
Held(h) ==
    \/ table = h
    \/ \E c \in Callers : mine[c] = h /\ pc[c] \in {"record", "term", "select"}
Owned ==
    /\ table # NoHolder => \E c \in Callers : pc[c] \in {"created", "kept", "cleanup"}
    /\ \A h \in Holders : done[h] => proc[h] = "gone"
    /\ raced \/ crashed \/ \A h \in Holders : Alive(h) => Held(h)

\* A step of a caller outside the table that keeps what it holds.
LEMMA KeepsHold ==
    ASSUME IInv, Owned, NEW c \in Callers, NEW to,
           pc' = [pc EXCEPT ![c] = to], mine' = [mine EXCEPT ![c] = NoHolder] \/ mine' = mine,
           UNCHANGED <<table, done, proc, history>>,
           signal' = signal \/ \E h \in Holders, s \in {"term", "kill"} : Send(h, s),
           pc[c] \in {"created", "kept", "cleanup"} => to \in {"created", "kept", "cleanup"},
           pc[c] \in {"record", "term", "select"} =>
               \/ to \in {"record", "term", "select"} /\ mine' = mine
               \/ \E h \in Holders : h = mine[c] /\ ~Alive(h)'
    PROVE  Owned'
<1>1. /\ pc'[c] = to /\ \A d \in Callers : d # c => pc'[d] = pc[d] /\ mine'[d] = mine[d]
    BY DEF IInv, TypeOK
<1>2. \A h \in Holders : Alive(h)' => Alive(h)
    BY DEF Alive, Send, IInv, TypeOK
<1>3. ASSUME NEW h \in Holders, Alive(h)', Held(h) PROVE Held(h)'
    BY <1>1, <1>3, HoldersAssumption DEF Held, IInv, TypeOK
<1>4. ASSUME table' # NoHolder PROVE \E d \in Callers : pc'[d] \in {"created", "kept", "cleanup"}
    BY <1>1, <1>4 DEF Owned
<1> QED
    BY <1>2, <1>3, <1>4 DEF Owned, history

LEMMA CreateOwns ==
    ASSUME IInv, Owned, NEW c \in Callers,
           Begin(c) \/ Create(c) \/ Keep(c) \/ CreateFails(c) \/ Delete(c)
    PROVE  Owned'
<1>1. CASE Begin(c) \/ StartFails(c) \/ Keep(c) \/ CreateFails(c) \/ Delete(c) \/ Lookup(c)
    BY <1>1, KeepsHold DEF Begin, StartFails, Keep, CreateFails, Delete, Lookup, Goes, process
<1>2. CASE Start(c)
  <2>1. PICK h \in Holders : /\ proc[h] = "unborn"
                             /\ proc' = [proc EXCEPT ![h] = "running"]
                             /\ mine' = [mine EXCEPT ![c] = h]
      BY <1>2 DEF Start
  <2>2. /\ pc[c] = "start" /\ pc' = [pc EXCEPT ![c] = "record"]
        /\ UNCHANGED <<table, signal, done, history>>
      BY <1>2 DEF Start, Goes
  <2>3. \A g \in Holders : Alive(g)' => g = h \/ Alive(g)
      BY <2>1, <2>2 DEF Alive, IInv, TypeOK
  <2>4. Held(h)' /\ \A g \in Holders : Held(g) => Held(g)'
      BY <2>1, <2>2, HoldersAssumption DEF Held, IInv, TypeOK
  <2>5. ~done[h]
      BY <2>1 DEF Owned
  <2> QED
      BY <2>1, <2>2, <2>3, <2>4, <2>5 DEF Owned, history, IInv, TypeOK
<1>3. CASE Record(c)
  <2>1. /\ pc[c] = "record" /\ pc' = [pc EXCEPT ![c] = "created"] /\ table' = mine[c]
        /\ raced' = (raced \/ table # NoHolder) /\ crashed' = crashed
        /\ mine' = [mine EXCEPT ![c] = NoHolder] /\ UNCHANGED <<proc, signal, done>>
      BY <1>3 DEF Record, Goes
  <2>2. \A g \in Holders : Held(g) => table = g \/ Held(g)'
      BY <2>1 DEF Held, IInv, TypeOK
  <2>3. \A g \in Holders : Alive(g)' => Alive(g)
      BY <2>1 DEF Alive
  <2> QED
      BY <2>1, <2>2, <2>3, HoldersAssumption DEF Owned, IInv, TypeOK
<1> QED
    BY <1>1, <1>2, <1>3 DEF Create

LEMMA CleanupOwns ==
    ASSUME IInv, Owned, NEW c \in Callers, NetworkCleanup(c) PROVE Owned'
<1>1. CASE Cleanup(c)
  <2>1. /\ pc[c] = "cleanup" /\ table' = NoHolder /\ UNCHANGED <<process, history>>
        /\ pc' = [pc EXCEPT ![c] = pc'[c]]
        /\ table # NoHolder => pc'[c] = "term" /\ mine' = [mine EXCEPT ![c] = table]
        /\ table = NoHolder => mine' = mine
      BY <1>1 DEF Cleanup, Goes, IInv, TypeOK
  <2>2. \A g \in Holders : Held(g) => Held(g)'
      BY <2>1, HoldersAssumption DEF Held, IInv, TypeOK
  <2> QED
      BY <2>1, <2>2 DEF Owned, Alive, process, history
<1>2. CASE Term(c)
  <2>1. mine[c] \in Holders
      BY <1>2 DEF Term, Goes, IInv, TypeOK, MaybeHolder
  <2> QED
      BY <1>2, <2>1, KeepsHold DEF Term, Goes
<1>3. CASE Done(c)
  <2>1. mine[c] \in Holders
      BY <1>3 DEF Done, IInv, TypeOK, MaybeHolder
  <2>2. \E h \in Holders : h = mine[c] /\ ~Alive(h)'
      BY <1>3, <2>1 DEF Done, Alive, process, Owned
  <2> QED
      BY <1>3, <2>1, <2>2, KeepsHold DEF Done, Cleaned, process
<1>4. CASE Timeout(c)
  <2>1. mine[c] \in Holders
      BY <1>4 DEF Timeout, Goes, IInv, TypeOK, MaybeHolder
  <2>2. \E h \in Holders : h = mine[c] /\ ~Alive(h)'
      BY <1>4, <2>1 DEF Timeout, Send, Alive, IInv, TypeOK
  <2> QED
      BY <1>4, <2>1, <2>2, KeepsHold DEF Timeout, Goes
<1>5. CASE TermPid(c) \/ PidTimeout(c)
  <2>1. pc[c] \in {"termpid", "poll"} /\ \E to \in {"poll", "idle"} : pc' = [pc EXCEPT ![c] = to]
      BY <1>5 DEF TermPid, PidTimeout, Goes
  <2>2. signal' = signal \/ \E h \in Holders, s \in {"term", "kill"} : Send(h, s)
    <3>1. pid[c] \in Holders \/ pid[c] = NoHolder
        BY DEF IInv, TypeOK, MaybeHolder
    <3>2. pid[c] = NoHolder => signal' = signal
        BY <1>5, HoldersAssumption DEF TermPid, PidTimeout, Send, IInv, TypeOK
    <3> QED
        BY <1>5, <3>1, <3>2 DEF TermPid, PidTimeout
  <2> QED
      BY <1>5, <2>1, <2>2, KeepsHold DEF TermPid, PidTimeout, Cleaned
<1>6. CASE PidGone(c)
    BY <1>6, KeepsHold DEF PidGone, Goes, Cleaned, process
<1> QED
    BY <1>1, <1>2, <1>3, <1>4, <1>5, <1>6 DEF NetworkCleanup

LEMMA ProcessOwns ==
    ASSUME IInv, Owned,
           Crash \/ \E h \in Holders : Exit(h) \/ Wait(h) \/ Clear(h) \/ Adopted(h)
    PROVE  Owned'
<1>1. CASE Crash
    BY <1>1 DEF Crash, Owned
<1>2. ASSUME NEW h \in Holders, Exit(h) \/ Wait(h) \/ Adopted(h) PROVE Owned'
  <2>1. /\ UNCHANGED <<table, signal, pc, mine, history>>
        /\ \E to \in {"dead", "gone"} : proc' = [proc EXCEPT ![h] = to]
        /\ done' = done \/ (done' = [done EXCEPT ![h] = TRUE] /\ proc'[h] = "gone")
        /\ done[h] => proc'[h] = "gone"
      BY <1>2 DEF Exit, Wait, Adopted, IInv, TypeOK, Owned, history
  <2>2. \A g \in Holders : (Alive(g)' => Alive(g)) /\ (Held(g) => Held(g)')
      BY <2>1 DEF Alive, Held, IInv, TypeOK
  <2>3. \A g \in Holders : done'[g] => proc'[g] = "gone"
      BY <2>1 DEF Owned, IInv, TypeOK
  <2> QED
      BY <2>1, <2>2, <2>3 DEF Owned, history
<1>3. ASSUME NEW h \in Holders, Clear(h) PROVE Owned'
  <2>1. ~Alive(h)
      BY <1>3 DEF Clear, IInv, Goroutines, Alive
  <2>2. \A g \in Holders : (Alive(g)' <=> Alive(g)) /\ (Held(g) => Held(g)' \/ g = h)
      BY <1>3 DEF Clear, Alive, Held
  <2> QED
      BY <1>3, <2>1, <2>2 DEF Clear, Owned, history
<1> QED
    BY <1>1, <1>2, <1>3

\* When every caller is idle no holder is left running, unless the shim died or two
\* Creates overlapped: for any number of callers (create.go:268-278, netns.go:46-64).
THEOREM NoneLeft == Spec => []LeftOnlyByRace
<1>1. Init => Owned
    BY DEF Init, Owned, Alive
<1>2. IInv /\ Owned /\ [Next]_vars => Owned'
  <2>1. CASE UNCHANGED vars
      BY <2>1 DEF vars, Owned, Alive, Held
  <2> QED
      BY <2>1, CreateOwns, CleanupOwns, ProcessOwns DEF Next
<1>3. IInv /\ Owned => LeftOnlyByRace
    BY HoldersAssumption DEF Owned, Held, LeftOnlyByRace, NothingLeft
<1> QED
    BY <1>1, <1>2, <1>3, SpecIInv, PTL DEF Spec
=============================================================================
