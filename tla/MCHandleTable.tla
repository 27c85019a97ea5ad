--------------------------- MODULE MCHandleTable ---------------------------
(***************************************************************************)
(* Three slots and three generations: the free list is reordered by every  *)
(* pattern of closes and the generation counter comes round within a few   *)
(* creations.  MaxEpoch bounds how often.                                  *)
(***************************************************************************)
EXTENDS HandleTable

CONSTANT MaxEpoch

MCNext == Next /\ epoch' <= MaxEpoch

MCSpec == Init /\ [][MCNext]_vars
=============================================================================
