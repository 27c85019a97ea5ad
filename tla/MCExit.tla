------------------------------- MODULE MCExit -------------------------------
(* A process of three threads that share a mutex and an event, join each   *)
(* other, and exit.                                                        *)
EXTENDS ProcessExit, TLC

CONSTANTS t1, t2, t3, m, e

MCResetType == e :> "Sticky"
MCMaxCount == <<>>
MCWaitLists == {<<m>>, <<e, m>>, <<t2>>}
=============================================================================
