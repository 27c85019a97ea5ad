------------------------------ MODULE MCMutex -------------------------------
EXTENDS Kernel, TLC

CONSTANTS t1, t2, t3, m1, m2

MCResetType == <<>>
MCMaxCount == <<>>
MCWaitLists == {<<m1>>, <<m2>>, <<m1, m2>>, <<m2, m1>>}
Symmetry == Permutations({t2, t3}) \cup Permutations({m1, m2})
=============================================================================
