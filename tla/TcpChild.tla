------------------------------ MODULE TcpChild ------------------------------
(***************************************************************************)
(* The TCP child of a measurement session, client_fork() in                *)
(* SLANG-probed/client.c: connect to the server, forward every message to  *)
(* the main loop's pipe, connect again when the connection is lost, and    *)
(* give up after so many failures.                                         *)
(*                                                                         *)
(* A message of DATALEN bytes is two halves, since TCP may deliver any     *)
(* part of it to a recv(); the record written to the pipe is the buffer,   *)
(* whatever recv() has filled of it.                                       *)
(***************************************************************************)
EXTENDS Integers, Sequences

CONSTANTS MaxSetup,    \* 3: fail_setup may not exceed it
          MaxExec,     \* 12: fail_exec may not reach it
          ReadTimeout, \* 30 seconds
          Faults,      \* what may go wrong, see FaultKinds
          MaxMsg,      \* bound: messages the server sends over one connection
          MaxPipe      \* bound: capacity of the pipe in records

FaultKinds == {"refuse",  \* socket() or connect() fails
               "close",   \* the server closes, or an error ends the connection
               "silent",  \* the server has nothing to send
               "split"}   \* a message arrives in two parts

(* What the constants are, asserted where the module is instantiated. *)
ChildAssumption ==
  /\ MaxSetup \in Nat /\ MaxExec \in Nat \ {0} /\ ReadTimeout \in Nat \ {0}
  /\ Faults \subseteq FaultKinds
  /\ MaxMsg \in Nat \ {0} /\ MaxPipe \in Nat \ {0}

VARIABLES
  pc,                    \* "connect", "read", "write" or "exit"
  fail_setup, fail_exec, \* the counters of the same names
  data,                  \* pkt.data: the two halves of a message
  stream,                \* halves received by TCP and not yet read
  seg,                   \* how many of them have arrived
  pipe,                  \* records written to the main loop
  conn, next,            \* connections made; next message of this one (ghost)
  last,                  \* the last record written (ghost)
  up,                    \* seconds since the last recv()
  whole                  \* every message has arrived in one piece so far (ghost)

link == <<stream, seg>>
vars == <<pc, fail_setup, fail_exec, data, link, pipe, conn, next, last, up, whole>>

Half(c, n, h) == [conn |-> c, msg |-> n, half |-> h]
Blank == Half(0, 0, 1)
Whole(c, n) == <<Half(c, n, 1), Half(c, n, 2)>>

Init ==
  /\ pc = "connect" /\ fail_setup = 0 /\ fail_exec = 0
  /\ data = <<Blank, Blank>> /\ stream = <<>> /\ seg = 0 /\ pipe = <<>>
  /\ conn = 0 /\ next = 0 /\ last = <<Blank, Blank>> /\ up = 0 /\ whole = TRUE

Connect ==
  /\ pc = "connect"
  /\ pc' = "read"
  /\ conn' = conn + 1 /\ next' = 0
  /\ UNCHANGED <<fail_setup, fail_exec, data, link, pipe, last, up, whole>>

SetupExhausted(n) == n > MaxSetup

(* socket() or connect() fails: sleep(10), and perhaps the end. *)
ConnectFails ==
  /\ "refuse" \in Faults /\ pc = "connect"
  /\ fail_setup' = fail_setup + 1
  /\ pc' = IF SetupExhausted(fail_setup') THEN "exit" ELSE "connect"
  /\ UNCHANGED <<fail_exec, data, link, pipe, conn, next, last, up, whole>>

(* How many halves one recv() gives: at most DATALEN bytes. *)
Got == IF seg < 2 THEN seg ELSE 2

(* Mutant: one message is held back until the next one comes. *)
Readable_More == seg > 2

Readable == seg > 0

(* Mutant: bytes that recv() has returned stay in the stream. *)
Rest_All == stream

Rest == SubSeq(stream, Got + 1, Len(stream))

(* recv() into the buffer, from its beginning. *)
Read ==
  /\ pc = "read" /\ Readable
  /\ data' = [h \in 1 .. 2 |-> IF h <= Got THEN stream[h] ELSE data[h]]
  /\ stream' = Rest
  /\ seg' = seg - Got
  /\ pc' = "write"
  /\ up' = 0
  /\ UNCHANGED <<fail_setup, fail_exec, pipe, conn, next, last, whole>>

Room == Len(pipe) < MaxPipe

(* write() of the whole record, which waits while the pipe is full. *)
Write ==
  /\ pc = "write" /\ Room
  /\ pipe' = Append(pipe, data)
  /\ last' = data
  /\ pc' = "read"
  /\ UNCHANGED <<fail_setup, fail_exec, data, link, conn, next, up, whole>>

ExecExhausted(n) == n >= MaxExec

(* The connection is lost: closed or broken with nothing left to read, or
   nothing to read for so long.  What TCP has not delivered is gone. *)
Lost ==
  /\ pc = "read"
  /\ \/ "close" \in Faults /\ seg = 0
     \/ seg = 0 /\ up >= ReadTimeout
  /\ stream' = <<>> /\ seg' = 0
  /\ fail_exec' = fail_exec + 1
  /\ pc' = IF ExecExhausted(fail_exec') THEN "exit" ELSE "connect"
  /\ up' = 0
  /\ UNCHANGED <<fail_setup, data, pipe, conn, next, last, whole>>

(* The server sends, TCP delivers, the main loop reads, a second passes. *)
ServerSends ==
  /\ pc \in {"read", "write"} /\ next < MaxMsg
  /\ stream' = stream \o Whole(conn, next + 1)
  /\ next' = next + 1
  /\ UNCHANGED <<pc, fail_setup, fail_exec, data, seg, pipe, conn, last, up, whole>>

Deliver ==
  /\ pc \in {"read", "write"}
  /\ \E n \in (seg + 1) .. Len(stream) :
       /\ "split" \in Faults \/ n % 2 = 0
       /\ seg' = n
       /\ whole' = (whole /\ n % 2 = 0)
  /\ UNCHANGED <<pc, fail_setup, fail_exec, data, stream, pipe, conn, next, last, up>>

MainReads ==
  /\ pipe # <<>>
  /\ pipe' = Tail(pipe)
  /\ UNCHANGED <<pc, fail_setup, fail_exec, data, link, conn, next, last, up, whole>>

Second ==
  /\ "silent" \in Faults /\ pc = "read" /\ stream = <<>> /\ up < ReadTimeout
  /\ up' = up + 1
  /\ UNCHANGED <<pc, fail_setup, fail_exec, data, link, pipe, conn, next, last, whole>>

Next == Connect \/ ConnectFails \/ Read \/ Write \/ Lost
          \/ ServerSends \/ Deliver \/ MainReads \/ Second

Spec == Init /\ [][Next]_vars

(* The child runs, the network delivers and the main loop reads. *)
FairSpec == /\ Spec
            /\ WF_vars(Connect \/ ConnectFails) /\ WF_vars(Read) /\ WF_vars(Write)
            /\ WF_vars(Deliver) /\ WF_vars(MainReads)
-----------------------------------------------------------------------------
Records == {<<a, b>> : a, b \in {Blank} \cup {Half(c, n, h) : c \in 0 .. conn, n \in 1 .. MaxMsg, h \in 1 .. 2}}

TypeOK ==
  /\ pc \in {"connect", "read", "write", "exit"}
  /\ fail_setup \in 0 .. MaxSetup + 1 /\ fail_exec \in 0 .. MaxExec
  /\ data \in Records /\ last \in Records
  /\ seg \in 0 .. Len(stream) /\ Len(stream) <= 2 * MaxMsg
  /\ Len(pipe) <= MaxPipe
  /\ up \in 0 .. ReadTimeout /\ conn <= MaxExec

(* While messages arrive whole, every record written to the pipe is one message
   of the server, and they are forwarded in the order in which they were sent,
   none twice and, on one connection, none left out. *)
ForwardsInOrder ==
  [][whole /\ Len(pipe') > Len(pipe) =>
       /\ last' = Whole(last'[1].conn, last'[1].msg)
       /\ \/ last'[1].conn > last[1].conn /\ last'[1].msg = 1
          \/ last'[1].conn = last[1].conn /\ last'[1].msg = last[1].msg + 1]_vars

(* What the server has sent reaches the main loop unless the connection is
   lost. *)
Delivered == (stream # <<>>) ~> (stream = <<>> \/ pc = "exit")
=============================================================================
