----------------------------- MODULE MCPingLoop -----------------------------
(* ping -f -c 2 -s 4: a flood of two packets too short to be timed. *)
EXTENDS PingLoop

ShortFlood == {[interval |-> 0, preload |-> 1, npackets |-> 2, deadline |-> 0,
                adaptive |-> FALSE, timing |-> FALSE, quiet |-> FALSE]}
=============================================================================
