------------------------------ MODULE Exchange ------------------------------
(***************************************************************************)
(* What a caller of libmica is promised for one command to the mica        *)
(* daemon, whatever goes on between the two: the call returns; a deed is   *)
(* answered with nil only when it was done, the wish for an absence also   *)
(* when there was nothing to remove; a nil for what is only tried may mean *)
(* that it was passed over.  An error says nothing: the command may have   *)
(* been, or may still be, carried out.  Control.tla implements this.       *)
(***************************************************************************)

VARIABLES
    call,   \* "none", "waiting", "nil" or "error"
    work,   \* "none", "done", "refused", "moot": nothing was there to be removed,
            \* or "skipped": taken, and passed over
    wish    \* what nil must mean: "none" while nobody asks, "deed", "absence", "try"

exchange == <<call, work, wish>>

Init == call = "none" /\ work = "none" /\ wish = "none"

\* The caller asks.
Ask ==
    /\ call = "none" /\ call' = "waiting"
    /\ wish' \in {"deed", "absence", "try"}
    /\ UNCHANGED work

\* What may become of a command that somebody takes up.
Takes == IF wish = "try" THEN {"done", "skipped"} ELSE {"done"}

\* micad settles the command, perhaps after the caller has given up.
Settle ==
    /\ call # "none"
    /\ work = "none"
    /\ work' \in Takes \cup {"refused"}
    /\ UNCHANGED <<call, wish>>

\* The call returns.
ReturnNil ==
    /\ call = "waiting" /\ work \in Takes
    /\ call' = "nil" /\ UNCHANGED <<work, wish>>
ReturnMoot ==
    /\ call = "waiting" /\ work = "none" /\ wish = "absence"
    /\ call' = "nil" /\ work' = "moot" /\ UNCHANGED wish
ReturnError == call = "waiting" /\ call' = "error" /\ UNCHANGED <<work, wish>>
Return == ReturnNil \/ ReturnMoot \/ ReturnError

\* A tool of the hypervisor takes the command up while the caller waits for it.
DoAndReturn ==
    /\ call = "waiting"
    /\ work = "none"
    /\ call' = "nil"
    /\ work' \in Takes
    /\ UNCHANGED wish

\* The caller has its answer and will ask for something else.
Forget ==
    /\ call \in {"nil", "error"}
    /\ call' = "none"
    /\ work' = "none"
    /\ wish' = "none"

Next == Ask \/ Settle \/ Return \/ DoAndReturn \/ Forget

SafeSpec == Init /\ [][Next]_exchange

Spec == SafeSpec /\ WF_exchange(Return)
=============================================================================
