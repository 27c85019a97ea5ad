------------------------------ MODULE MCTimers ------------------------------
(* Two threads that sleep, wait for a timer, a semaphore, a mutex or each  *)
(* other, and release the semaphore by negative counts too.                *)
EXTENDS Kernel, TLC

CONSTANTS t1, t2, tm, s, m

MCResetType == tm :> "OneShot"
MCMaxCount == s :> 1
MCReleaseCounts == {-1, 2}
MCMinCount == -1
MCWaitLists == {<<tm, m>>, <<s>>}
=============================================================================
