----------------------------- MODULE MCService -----------------------------
(* Service on small instances: which fifos the requests name, and symmetry. *)
EXTENDS Service, TLC

IoAll  == [id \in Ids |-> SUBSET {"in", "out"}]
IoBoth == [id \in Ids |-> {{}, {"in", "out"}}]

\* An infra container has no streams; the workload's output is read.
IoPod  == [id \in Ids |-> IF id = Owner THEN {{}} ELSE {{"out"}}]

Symmetry == Permutations(Clients)
=============================================================================
