---------------------------- MODULE MCClientParts ----------------------------
(* ClientParts with a second of two nanoseconds and timestamps of up to two
   seconds: every borrow, every sign and the strange-RTT limit occur. *)
EXTENDS ClientParts

MCStamps == {Ts(0, 0), Ts(0, 1), Ts(1, 0), Ts(1, 1), Ts(2, 1)}

(* A FIFO for two results (146 of 28 bytes in a pipe of one page). *)
MCFifo == [Cap |-> 2, MaxQ |-> 3, Faults |-> {"close", "malloc"}]

(* Limits of 2, 3 and 2 where the code has 3, 12 and 30. *)
MCChild == [MaxSetup |-> 2, MaxExec |-> 3, ReadTimeout |-> 2,
            Faults |-> {"refuse", "close", "silent", "split"}, MaxMsg |-> 2, MaxPipe |-> 2]

(* The interval, the limit and the second of the code, and a correction at
   every fifth turn instead of every hundredth; the clock is set by a little,
   by almost a second, by two, and back. *)
MCTimer == [Interval |-> 1000, Every |-> 5, Limit |-> 300, Second |-> 1000000,
            Overheads |-> {0, 60, 420}, MaxJumps |-> 2, MaxNow |-> 9000000,
            Jumps |-> {0, 1500, 999000, 2000000, -700000}]

(* An ordinary DSCP, the largest one and one that has none; a wait of two
   units for the TX timestamp. *)
MCUdp == [Dscps |-> {10, 63, 70}, Patience |-> 2, Faults |-> {"lost", "bad", "send", "clock"},
          MaxSent |-> 3, MaxBack |-> 1]
=============================================================================
