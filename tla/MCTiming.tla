------------------------------ MODULE MCTiming ------------------------------
(* One kind of event and one other host thread; slices of at most two      *)
(* cycles, and blocks of one and of three cycles, so that a block can end  *)
(* in the slice, at its end or after it.                                   *)
EXTENDS CoreTiming
=============================================================================
