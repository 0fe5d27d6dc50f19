----------------------------- MODULE MCBaseliner -----------------------------
(* Baseliner on a few hosts. *)
EXTENDS Baseliner

\* Two sockets and two disks: one with Empty partitions between partitions
\* with data, one with data and two free blocks.  Three runs.
TwoDisks == [nsockets |-> 2, nthreads |-> 2, governors |-> [t \in 0 .. 1 |-> "ondemand"],
             dvfs |-> TRUE, disks |-> <<"sda", "sdb">>, cron |-> 3,
             parts |-> [sda |-> <<"Empty", "data", "Empty", "data">>, sdb |-> <<"data">>],
             gaps |-> [sda |-> 0, sdb |-> 2]]

\* Ten sockets, the most the test on the name of a file keeps apart, no DVFS
\* part, and four devices, as with a raid controller.  One run.
Four == {"sda", "sdb", "sdc", "sdd"}
TenSockets == [nsockets |-> 10, nthreads |-> 1, governors |-> [t \in 0 .. 0 |-> "powersave"],
               dvfs |-> FALSE, disks |-> <<"sda", "sdb", "sdc", "sdd">>, cron |-> 1,
               parts |-> [d \in Four |-> IF d = "sda" THEN <<"data", "Empty">> ELSE <<"data">>],
               gaps |-> [d \in Four |-> 0]]

\* A disk without partitions.
RawDisk == [TwoDisks EXCEPT !.disks = <<"sda">>, !.cron = 1,
                            !.parts = [sda |-> <<>>], !.gaps = [sda |-> 1]]

BothHosts == {TwoDisks, TenSockets}
RawHost == {RawDisk}
=============================================================================
