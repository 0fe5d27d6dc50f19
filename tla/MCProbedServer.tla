--------------------------- MODULE MCProbedServer ---------------------------
(* ProbedServer for two interchangeable client addresses and two client
   descriptors, so that descriptors are reused and run out. *)
EXTENDS ProbedServer, TLC

Symmetry == Permutations(Addrs)
=============================================================================
