------------------------------ MODULE MCEvents ------------------------------
(* Three threads wait, with timeouts, for one or for both of a one-shot    *)
(* and a pulse event, and arbitrate on a word.                             *)
EXTENDS Kernel, TLC

CONSTANTS t1, t2, t3, e, p, word

MCResetType == (e :> "OneShot") @@ (p :> "Pulse")
MCMaxCount == <<>>
MCMinMemory == -1
MCSignalCounts == {-1, 1}
MCSymmetry == Permutations({t2, t3})
MCWaitLists == {<<e, p>>}
=============================================================================
