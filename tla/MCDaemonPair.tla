---------------------------- MODULE MCDaemonPair ----------------------------
(* DaemonPair with buffers for one to three messages. *)
EXTENDS DaemonPair
=============================================================================
