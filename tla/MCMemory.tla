------------------------------ MODULE MCMemory ------------------------------
(* A page or two of heap and one of stack, two pages for shared memory,    *)
(* two or three of linear heap, one shared block.                          *)
EXTENDS ProcessMemory

R == {"R"}
MCPermissions == {R, ReadWrite}
MCLinear == {ReadWrite}
=============================================================================
