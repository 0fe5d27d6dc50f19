----------------------------- MODULE FifoQueue -----------------------------
(***************************************************************************)
(* The daemon's output: client_write_fifo() of SLANG-probed/client.c       *)
(* writes results to a non-blocking FIFO and queues those it cannot write, *)
(* while another process reads the FIFO.                                   *)
(*                                                                         *)
(* The code does not look into a result, so it is enough to follow two of  *)
(* them, x and, later, y, among any number of others, o.                   *)
(***************************************************************************)
EXTENDS Integers, Sequences, FiniteSets

CONSTANTS Cap,     \* how many results the FIFO of the kernel holds
          MaxQ,    \* bound: length of the queue
          Faults   \* {"close"}: the reader may go away; {"malloc"}: no memory

(* What the constants are, asserted where the module is instantiated. *)
FifoAssumption ==
  Cap \in Nat \ {0} /\ MaxQ \in Nat \ {0} /\ Faults \subseteq {"close", "malloc"}

Results == {"x", "y", "o"}

VARIABLES
  fifoq, count_client_fifoq, count_client_fifoq_max, \* as in the code
  fifo,       \* what the kernel holds
  pc, r_fifo, \* "idle", "flush" or "direct"; the argument
  reader,     \* the FIFO is open for reading
  made, seen, \* tracked results produced, and read, in this order (ghost)
  held        \* tracked results that were queued, or lost for lack of memory (ghost)

vars == <<fifoq, count_client_fifoq, count_client_fifoq_max, fifo, pc, r_fifo,
          reader, made, seen, held>>

Init ==
  /\ fifoq = <<>> /\ count_client_fifoq = 0 /\ count_client_fifoq_max = 0
  /\ fifo = <<>> /\ pc = "idle" /\ r_fifo = "o" /\ reader = TRUE
  /\ made = <<>> /\ seen = <<>> /\ held = {}

(* A probe ends, client_write_fifo() is called with its result. *)
Call(r) ==
  /\ pc = "idle"
  /\ Len(fifoq) < MaxQ \/ Len(fifo) < Cap
  /\ Len(made) < 2
  /\ r = "x" => made = <<>>
  /\ r = "y" => made = <<"x">>
  /\ r_fifo' = r
  /\ pc' = "flush"
  /\ made' = Append(made, r)
  /\ UNCHANGED <<fifoq, count_client_fifoq, count_client_fifoq_max, fifo, reader, seen, held>>

(* The same for results nobody follows. *)
CallOther ==
  /\ pc = "idle"
  /\ Len(fifoq) < MaxQ \/ Len(fifo) < Cap
  /\ r_fifo' = "o"
  /\ pc' = "flush"
  /\ UNCHANGED <<fifoq, count_client_fifoq, count_client_fifoq_max, fifo, reader, made, seen, held>>

(* write() to the FIFO: all or nothing, EAGAIN when it is full, SIGPIPE (not
   ignored) when nobody reads. *)
CanWrite == reader /\ Len(fifo) < Cap
Full     == reader /\ Len(fifo) = Cap
Killed   == /\ ~reader /\ pc' = "dead"
            /\ UNCHANGED <<fifoq, count_client_fifoq, count_client_fifoq_max, fifo, r_fifo, held>>

(* Mutant: the newest entry is written. *)
Oldest_Newest(q) == q[Len(q)]

(* tqh_first: results are inserted at the tail. *)
Oldest(q) == Head(q)

(* One turn of the loop that writes the queue, oldest first. *)
Flush ==
  /\ pc = "flush"
  /\ \/ /\ fifoq # <<>> /\ CanWrite
        /\ fifo' = Append(fifo, Oldest(fifoq))
        /\ fifoq' = Tail(fifoq)
        /\ count_client_fifoq' = count_client_fifoq - 1
        /\ UNCHANGED <<pc, count_client_fifoq_max, r_fifo, held>>
     \/ /\ fifoq = <<>> \/ Full
        /\ pc' = "direct"
        /\ UNCHANGED <<fifoq, count_client_fifoq, count_client_fifoq_max, fifo, r_fifo, held>>
     \/ fifoq # <<>> /\ Killed
  /\ UNCHANGED <<reader, made, seen>>

(* Mutant: a result that cannot be written goes to the head of the queue. *)
Queued_Head(q, r) == <<r>> \o q

(* TAILQ_INSERT_TAIL *)
Queued(q, r) == Append(q, r)

(* Then the result itself, whether or not the queue has been emptied. *)
Direct ==
  /\ pc = "direct"
  /\ \/ /\ CanWrite
        /\ pc' = "idle"
        /\ fifo' = Append(fifo, r_fifo)
        /\ UNCHANGED <<fifoq, count_client_fifoq, count_client_fifoq_max, r_fifo, held>>
     \/ /\ Full
        /\ pc' = "idle"
        /\ fifoq' = Queued(fifoq, r_fifo)
        /\ held' = held \cup {r_fifo}
        /\ count_client_fifoq' = count_client_fifoq + 1
        /\ count_client_fifoq_max' = IF count_client_fifoq' > count_client_fifoq_max
                                     THEN count_client_fifoq' ELSE count_client_fifoq_max
        /\ UNCHANGED <<fifo, r_fifo>>
     \/ /\ Full /\ "malloc" \in Faults
        /\ pc' = "idle"
        /\ held' = held \cup {r_fifo, "lost"}
        /\ UNCHANGED <<fifoq, count_client_fifoq, count_client_fifoq_max, fifo, r_fifo>>
     \/ Killed
  /\ UNCHANGED <<reader, made, seen>>

(* The other process. *)
Read ==
  /\ reader /\ fifo # <<>> /\ pc # "dead"
  /\ fifo' = Tail(fifo)
  /\ seen' = IF Head(fifo) = "o" THEN seen ELSE Append(seen, Head(fifo))
  /\ UNCHANGED <<fifoq, count_client_fifoq, count_client_fifoq_max, pc, r_fifo, reader, made, held>>

Close ==
  /\ "close" \in Faults /\ reader
  /\ reader' = FALSE
  /\ UNCHANGED <<fifoq, count_client_fifoq, count_client_fifoq_max, fifo, pc, r_fifo, made, seen, held>>

Next == (\E r \in {"x", "y"} : Call(r)) \/ CallOther \/ Flush \/ Direct \/ Read \/ Close

Spec == Init /\ [][Next]_vars

(* The daemon keeps producing results, and the reader reads. *)
FairSpec == Spec /\ WF_vars(CallOther) /\ WF_vars(Flush) /\ WF_vars(Direct) /\ WF_vars(Read)
-----------------------------------------------------------------------------
Places(r) == {<<"q", i>> : i \in {i \in DOMAIN fifoq : fifoq[i] = r}}
      \cup {<<"f", i>> : i \in {i \in DOMAIN fifo : fifo[i] = r}}
      \cup {<<"s", i>> : i \in {i \in DOMAIN seen : seen[i] = r}}
      \cup (IF pc \in {"flush", "direct"} /\ r_fifo = r THEN {<<"r", 0>>} ELSE {})
MadeIt(r) == \E i \in DOMAIN made : made[i] = r

TypeOK ==
  /\ fifoq \in Seq(Results) /\ Len(fifoq) <= MaxQ
  /\ fifo \in Seq(Results) /\ Len(fifo) <= Cap
  /\ count_client_fifoq = Len(fifoq) /\ count_client_fifoq_max \in Len(fifoq) .. MaxQ
  /\ pc \in {"idle", "flush", "direct", "dead"} /\ r_fifo \in Results
  /\ reader \in BOOLEAN /\ held \subseteq Results \cup {"lost"}

(* However writing and reading interleave, a result is in one place: in the
   queue, in the FIFO, with the reader, or about to be written; it is lost
   only for lack of memory or of a reader. *)
NothingLost ==
  \A r \in {"x", "y"} :
    /\ Cardinality(Places(r)) <= 1
    /\ (MadeIt(r) /\ "lost" \notin held /\ pc # "dead") => Cardinality(Places(r)) = 1

(* Results come out in the order in which they went in, except that one that
   had to be queued can be overtaken by one that had not. *)
OvertakesOnlyQueued ==
  (seen = <<"y", "x">>) => ("x" \in held /\ "y" \notin held)

(* What was queued is delivered, provided that results keep coming and that
   again and again one of them finds room in the FIFO when it comes.  (A
   reader that makes room only between the two write()s starves the queue.) *)
RoomAtFlush == pc = "flush" /\ CanWrite
InQueue(r) == \E i \in DOMAIN fifoq : fifoq[i] = r
IsSeen(r) == \E i \in DOMAIN seen : seen[i] = r
QueueDrains == ([]<>RoomAtFlush) => \A r \in {"x", "y"} : InQueue(r) ~> IsSeen(r)
=============================================================================
