------------------------------- MODULE States -------------------------------
(***************************************************************************)
(* The lifecycle states shared by sandboxes and containers and the table   *)
(* of legal transitions between them (pkg/micantainer/states.go).          *)
(***************************************************************************)

\* The values of StateString.
StateString ==
    {"ready", "running", "stopped", "creating", "paused", "down"}

\* The states the table allows to follow s.
Successors(s) ==
    CASE s = "creating" -> {"stopped"}
      [] s = "ready"    -> {"running", "stopped"}
      [] s = "running"  -> {"paused", "stopped"}
      [] s = "paused"   -> {"running", "stopped"}
      [] s = "stopped"  -> {"running"}
      [] s = "down"     -> {"ready", "running", "stopped", "creating"}

\* StateString.transition called with the current state as `old`: TRUE when it
\* returns no error.  ContainerState.Transition is this table.
transition(s, new) == new \in Successors(s)

\* SandboxState.Transition refuses a sandbox that is down.
SandboxTransition(s, new) == s # "down" /\ transition(s, new)
=============================================================================
