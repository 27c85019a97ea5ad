----------------------------- MODULE MCSessions -----------------------------
(* Threads of client and server processes, the port "srv:" and an HLE      *)
(* service with room for one session, and a service in a process of its    *)
(* own with room for two.                                                  *)
EXTENDS ServiceManager

CONSTANTS srv, lle, hle

MCMaxSessions == [p \in Port |-> IF p = lle THEN 2 ELSE 1]
Symmetry == Permutations(Thread) \cup Permutations(Session)
=============================================================================
