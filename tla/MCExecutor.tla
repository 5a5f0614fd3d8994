----------------------------- MODULE MCExecutor -----------------------------
EXTENDS Executor, TLC

CONSTANTS v, w, p0, p1

\* One container, every fault and every request; two containers that share a pool, no
\* fault at all and requests that leave memory alone.
One == {v}
Two == {v, w}
OneCpu == {p0}
TwoCpus == {p0, p1}
TwoLimits == {1, 2}
NoLimits == {}
AllAsked == AskedValues
NoneAsked == {Unasked}
AllFaults == {"vanish", "appear", "restart"}
NoFaults == {}
Symmetric == Permutations(Two) \cup Permutations(TwoCpus)
=============================================================================
