----------------------------- MODULE ThreadLists -----------------------------
(***************************************************************************)
(* The kernel keeps its threads in lists: the levels of the ready queue,   *)
(* the waiting threads of an object, the threads an address arbitrates.    *)
(* The community modules FiniteSetsExt, Functions and SequencesExt have    *)
(* these four operators too; they are stated here because all proofs about *)
(* the kernel would carry the definitions of those modules as context.     *)
(***************************************************************************)
EXTENDS Integers, Sequences

Min(S) == CHOOSE x \in S : \A y \in S : x <= y

Range(list) == {list[i] : i \in DOMAIN list}

(* No element of the list occurs twice.                                    *)
IsInjective(list) == \A i, j \in DOMAIN list : list[i] = list[j] => i = j

(* list.erase(std::find(list.begin(), list.end(), e)): what follows the    *)
(* first e moves up.                                                       *)
RemoveFirst(list, e) ==
    IF e \notin Range(list) THEN list
    ELSE [i \in 1 .. Len(list) - 1 |->
             IF \E j \in 1 .. i : list[j] = e THEN list[i + 1] ELSE list[i]]
=============================================================================
