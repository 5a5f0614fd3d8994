----------------------------- MODULE MCSandbox ------------------------------
(***************************************************************************)
(* Instances of Sandbox for TLC: a pod {p, w} or {p, v, w} whose infra     *)
(* container p created the sandbox, and the single container {w} of ctr.   *)
(***************************************************************************)
EXTENDS Sandbox, TLC

\* The containers of a pod are interchangeable.
Symmetry == Permutations(PodContainers)
=============================================================================
