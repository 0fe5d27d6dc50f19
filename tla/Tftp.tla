-------------------------------- MODULE Tftp --------------------------------
(***************************************************************************)
(* tftpd.c and tftpsubs.c: one request to tftpd, from the fork() after     *)
(* recvfrom() to the end of the process.  The transfer is in lock step     *)
(* over a network that loses, repeats, delays and reorders datagrams; the  *)
(* next block is read ahead, and the last one written behind, in the other *)
(* one of two buffers, with the netascii conversion done on the way.  The  *)
(* file exists and is not truncated when it is opened for writing; reading *)
(* and writing it may fail, and writing fails unnoticed.                   *)
(*                                                                         *)
(* SIGALRM interrupts recv() and longjmp() leaves the handler.  setjmp()   *)
(* of the C library the build uses does not save the signal mask, so the   *)
(* signal stays blocked.                                                   *)
(***************************************************************************)
EXTENDS Integers, Sequences, SequencesExt, FiniteSets

CONSTANTS Files,     \* contents: sequences over Chars
          Olds,      \* what a file holds before it is written, sequences over Chars
          SEGSIZE,   \* 512
          Half,      \* 2^15: th_block is a short
          maxtimeout, \* in units of rexmtval: 5
          NetCap,    \* bound: datagrams under way in each direction
          QueueCap   \* datagrams the socket holds

Chars == {"a", "lf", "cr", "nul", "x"}

TftpAssumption ==
  /\ \A f \in Files \cup Olds : f \in Seq(Chars \ {"nul"})
  /\ SEGSIZE \in Nat \ {0} /\ Half \in Nat \ {0} /\ maxtimeout \in Nat \ {0}
  /\ NetCap \in Nat \ {0} /\ QueueCap \in Nat \ {0}

VARIABLES
  req,      \* the request: [op, mode, ok, access, len]
  content,  \* what the file holds (RRQ) or the client sends (WRQ)
  pc,       \* "fork", "tftp", "send", "recv", "final" or "exit"
  i,        \* main(): loop counter of the fork, and length of a request
  bfs, nextone, current, newline, prevchar,  \* tftpsubs.c
  pos,      \* offset in the file
  disk,     \* what the file holds
  block, timeout, blocked,                   \* blocked: SIGALRM is
  queue,    \* datagrams waiting at the server's socket
  up, down, \* datagrams on their way to the server and to the client
  client,   \* [next, data, done, alive]: the client's side
  old,      \* ghost: what the file held before the request
  failed    \* ghost: offset of the first read or write that failed, or -1

bufVars == <<bfs, nextone, current, newline, prevchar, pos, disk, failed>>
vars == <<req, content, pc, i, bufVars, block, timeout, blocked, queue, up, down, client, old>>

BF_ALLOC == -3
BF_FREE  == -2

Data(b, d) == [op |-> "DATA", block |-> b % (2 * Half), data |-> d]
Ack(b)     == [op |-> "ACK", block |-> b % (2 * Half), data |-> <<>>]
Error      == [op |-> "ERROR", block |-> 0, data |-> <<>>]

(* ntohs() into th_block, which is signed. *)
th_block(m) == IF m.block >= Half THEN m.block - 2 * Half ELSE m.block

convert == req.mode = "netascii"
-----------------------------------------------------------------------------
(* What the file is on the wire: lf as cr,lf and cr as cr,nul. *)
Netascii(s) ==
  FoldLeft(LAMBDA o, c : o \o (CASE c = "lf" -> <<"cr", "lf">> [] c = "cr" -> <<"cr", "nul">>
                                 [] OTHER -> <<c>>), <<>>, s)
Wire == IF convert THEN Netascii(content) ELSE content

(* The b-th segment of the wire form. *)
Segment(b) == SubSeq(Wire, (b - 1) * SEGSIZE + 1,
                     IF b * SEGSIZE <= Len(Wire) THEN b * SEGSIZE ELSE Len(Wire))

(* The buffers as one value, so that the functions of tftpsubs.c compose. *)
Bufs == [bfs |-> bfs, nextone |-> nextone, current |-> current, newline |-> newline,
         prevchar |-> prevchar, pos |-> pos, disk |-> disk, failed |-> failed]
SetBufs(B) ==
  /\ bfs' = B.bfs /\ nextone' = B.nextone /\ current' = B.current /\ newline' = B.newline
  /\ prevchar' = B.prevchar /\ pos' = B.pos /\ disk' = B.disk
  /\ failed' = B.failed

Buffer(n) == [counter |-> n, data |-> <<>>, op |-> "none", block |-> 0]

(* rw_init(): x is 1 to read ahead and 0 to write behind. *)
rw_init(x) ==
  [bfs |-> 0 :> Buffer(BF_ALLOC) @@ 1 :> Buffer(BF_FREE), nextone |-> x,
   current |-> 0, newline |-> FALSE, prevchar |-> "none", pos |-> pos, disk |-> disk,
   failed |-> failed]

(* read_ahead(), the loop body: one character into the buffer, unless getc()
   is at the end of the file or fails, at the offset end. *)
GetChar(f, end) ==
  IF f.newline
  THEN [f EXCEPT !.out = Append(@, IF f.prevchar = "lf" THEN "lf" ELSE "nul"), !.newline = FALSE]
  ELSE IF f.pos = end THEN f
  ELSE LET c == disk[f.pos + 1]
           special == c \in {"lf", "cr"}
       IN  [f EXCEPT !.out = Append(@, IF special THEN "cr" ELSE c), !.pos = @ + 1,
                     !.newline = special, !.prevchar = IF special THEN c ELSE @]

(* What one call of read_ahead() puts into a buffer.  octet: the next segment,
   or nothing and the counter -1 when read() fails.  netascii: getc() fails at
   the offset end, which looks like the end of the file. *)
Reads(B) ==
  LET start == [out |-> <<>>, pos |-> B.pos, newline |-> B.newline, prevchar |-> B.prevchar]
      raw == SubSeq(disk, B.pos + 1, IF B.pos + SEGSIZE < Len(disk) THEN B.pos + SEGSIZE ELSE Len(disk))
      Text(end) ==
        LET get[n \in 0 .. SEGSIZE] == IF n = 0 THEN start ELSE GetChar(get[n - 1], end)
        IN  get[SEGSIZE]
      Result(f, n, fails) == [f |-> f, counter |-> n, fails |-> fails]
  IN  IF convert
      THEN {LET f == Text(end)
            IN  Result(f, Len(f.out), f.pos < Len(disk) /\ Len(f.out) < SEGSIZE) : end \in B.pos .. Len(disk)}
      ELSE {Result([start EXCEPT !.out = raw, !.pos = @ + Len(raw)], Len(raw), FALSE),
            Result(start, -1, TRUE)}

Failed(B, off) == IF B.failed = -1 THEN off ELSE B.failed

(* The buffers after a call that read x. *)
Filled(B, x) ==
  LET b == [B.bfs[B.nextone] EXCEPT !.counter = x.counter, !.data = x.f.out]
  IN  [B EXCEPT !.bfs = [@ EXCEPT ![B.nextone] = b], !.nextone = 1 - @, !.pos = x.f.pos,
                !.newline = x.f.newline, !.prevchar = x.f.prevchar,
                !.failed = IF x.fails THEN Failed(B, x.f.pos) ELSE @]

(* Mutant: the next buffer is filled although the block in it is still in use. *)
read_ahead_Always(B) == {Filled(B, x) : x \in Reads(B)}

(* read_ahead(): fills the next buffer if it is free.  It, and every function
   below that calls it, is the set of what may come of it. *)
read_ahead(B) ==
  IF B.bfs[B.nextone].counter # BF_FREE THEN {B} ELSE {Filled(B, x) : x \in Reads(B)}

(* readit(): frees the buffer in use and takes the other one. *)
readit(B) ==
  LET B1 == [B EXCEPT !.bfs[B.current].counter = BF_FREE, !.current = 1 - @]
  IN  IF B1.bfs[B1.current].counter = BF_FREE THEN read_ahead(B1) ELSE {B1}

(* The file with the data d at the offset p. *)
Over(s, p, d) == SubSeq(s, 1, p) \o d \o SubSeq(s, p + Len(d) + 1, Len(s))

(* write_behind(), the loop body: cr,lf to lf over the cr just written, cr,nul
   to cr.  ok: the character reaches the file.  fseek() writes what is pending
   and does not move when that fails. *)
PutChar(w, c, ok) ==
  IF w.prevchar = "cr" /\ c = "nul" THEN [w EXCEPT !.prevchar = c]
  ELSE LET p == IF w.prevchar = "cr" /\ c = "lf" /\ w.kept /\ w.pos > 0 THEN w.pos - 1 ELSE w.pos
       IN  IF ok THEN [w EXCEPT !.disk = Over(@, p, <<c>>), !.pos = p + 1, !.prevchar = c, !.kept = TRUE]
           ELSE [w EXCEPT !.pos = p, !.prevchar = c, !.kept = FALSE, !.failed = Failed(w, p)]

(* Mutant: cr,lf is only recognised within a block. *)
PutChars_Fresh(s, start, lost) ==
  LET put[n \in 0 .. Len(s)] == IF n = 0 THEN [start EXCEPT !.prevchar = "none"]
                                ELSE PutChar(put[n - 1], s[n], n \notin lost)
  IN  put[Len(s)]

PutChars(s, start, lost) ==
  LET put[n \in 0 .. Len(s)] == IF n = 0 THEN start ELSE PutChar(put[n - 1], s[n], n \notin lost)
  IN  put[Len(s)]

(* The characters of a block that the file system may not take: the last ones
   of a write().  A stream writes what it holds at every fseek() and, here, at
   the end of the block. *)
Losses(s) ==
  {lost \in SUBSET DOMAIN s :
     \A n \in lost : n < Len(s) => \/ n + 1 \in lost
                                   \/ convert /\ s[n] = "cr" /\ s[n + 1] = "lf"}

(* write_behind(): writes the next buffer if it holds data; the caller does
   not learn whether that worked. *)
write_behind(B) ==
  LET b == B.bfs[B.nextone]
      B1 == [B EXCEPT !.bfs[B.nextone].counter = BF_FREE, !.nextone = 1 - @]
      Written(lost) ==
        LET n == Len(b.data) - Cardinality(lost)
            start == [disk |-> B.disk, pos |-> B.pos, prevchar |-> B.prevchar, kept |-> TRUE,
                      failed |-> B.failed]
        IN  IF convert THEN PutChars(b.data, start, lost)
            ELSE [start EXCEPT !.disk = Over(@, B.pos, SubSeq(b.data, 1, n)), !.pos = @ + n,
                               !.failed = IF lost = {} THEN @ ELSE Failed(B, B.pos + n)]
  IN  IF b.counter < -1 THEN {B}
      ELSE IF b.counter <= 0 THEN {B1}
      ELSE {LET w == Written(lost)
            IN  [B1 EXCEPT !.disk = w.disk, !.pos = w.pos, !.prevchar = w.prevchar,
                           !.failed = w.failed] : lost \in Losses(b.data)}

(* writeit(): the buffer in use is full, take the other one. *)
writeit(B, ct) ==
  LET B1 == [B EXCEPT !.bfs[B.current].counter = ct, !.current = 1 - @]
  IN  {[B2 EXCEPT !.bfs[B2.current].counter = BF_ALLOC] :
         B2 \in IF B1.bfs[B1.current].counter # BF_FREE THEN write_behind(B1) ELSE {B1}}

(* A datagram on the network; it is lost at once if there is no room. *)
Into(net, m) == IF Cardinality(net) < NetCap THEN net \cup {m} ELSE net
-----------------------------------------------------------------------------
(* validate_access(): what the request's attributes lead to. *)
validate_access(r) ==
  IF "dots" \in r.access \/ "nodirs" \in r.access THEN "EACCESS"
  ELSE IF "missing" \in r.access THEN "ENOTFOUND"
  ELSE IF "mode" \in r.access THEN "EACCESS"
  ELSE IF "open" \in r.access THEN "EUNDEF" ELSE "ok"

Requests ==
  {[op |-> o, mode |-> m, ok |-> TRUE, access |-> {}, len |-> 10] :
     o \in {"RRQ", "WRQ"}, m \in {"netascii", "octet"}}
  \cup {[op |-> "RRQ", mode |-> "mail", ok |-> TRUE, access |-> {}, len |-> 10],
        [op |-> "WRQ", mode |-> "octet", ok |-> FALSE, access |-> {}, len |-> 25],
        [op |-> "ACK", mode |-> "octet", ok |-> TRUE, access |-> {}, len |-> 10]}
  \cup {[op |-> "WRQ", mode |-> "octet", ok |-> TRUE, access |-> {a}, len |-> 25] :
          a \in {"dots", "missing", "mode", "open"}}

(* What is sent, and what the file that is asked for holds: it has to exist. *)
Transfers(r) ==
  {t \in [content : Files, old : Files \cup Olds] :
     IF r.op = "WRQ" THEN t.old \in Olds ELSE t.old = t.content}

Init ==
  /\ req \in Requests /\ \E t \in Transfers(req) : content = t.content /\ old = t.old
  /\ disk = old
  /\ pc = "fork" /\ i = 1
  /\ pos = 0 /\ failed = -1 /\ bfs = rw_init(0).bfs
  /\ nextone = 0 /\ current = 0 /\ newline = FALSE /\ prevchar = "none"
  /\ block = 0 /\ timeout = 0 /\ blocked = FALSE
  /\ queue = <<>> /\ up = {} /\ down = {}
  /\ client = [next |-> 1, data |-> <<>>, done |-> FALSE, alive |-> TRUE]

(* main(): fork(); the parent ends and the child goes on. *)
Fork ==
  /\ pc = "fork" /\ pc' = "tftp"
  /\ UNCHANGED <<req, content, i, bufVars, block, timeout, blocked, queue, up, down, client>>

(* main(): fork() fails; the newest request replaces this one.  The loop
   counter receives the length of that request, or -1 if there is none. *)
ForkFails ==
  /\ pc = "fork"
  /\ \/ i' = -1 /\ UNCHANGED <<req, content, old, disk>>
     \/ \E r \in Requests : \E t \in Transfers(r) :
          req' = r /\ i' = r.len /\ content' = t.content /\ old' = t.old /\ disk' = t.old
  /\ pc' = IF i' + 1 < 20 THEN "fork" ELSE "exit"
  /\ UNCHANGED <<bfs, nextone, current, newline, prevchar, pos, failed, block, timeout, blocked,
                 queue, up, down, client>>

(* tftp(): a request that is refused with nak(), or is none at all. *)
Refuse ==
  /\ pc = "tftp" /\ pc' = "exit"
  /\ \/ req.op \notin {"RRQ", "WRQ"} /\ UNCHANGED down
     \/ /\ req.op \in {"RRQ", "WRQ"}
        /\ ~req.ok \/ req.mode \notin {"netascii", "octet"} \/ validate_access(req) # "ok"
        /\ down' = Into(down, Error)
  /\ UNCHANGED <<req, content, i, bufVars, block, timeout, blocked, queue, up, client>>

Accepted ==
  /\ pc = "tftp" /\ req.ok /\ req.mode \in {"netascii", "octet"} /\ validate_access(req) = "ok"

(* sendfile(), send_data: the block in use goes out and the next is read. *)
SendData(B, b) ==
  /\ down' = Into(down, Data(b, B.bfs[B.current].data))
  /\ \E B1 \in read_ahead(B) : SetBufs(B1)

(* sendfile(), the loop body: the next block goes out, or nak() if it could
   not be read. *)
SendNext(B, b) ==
  \E B1 \in readit(B) :
    IF B1.bfs[B1.current].counter < 0
    THEN down' = Into(down, Error) /\ SetBufs(B1) /\ pc' = "exit"
    ELSE SendData(B1, b) /\ pc' = "send"

(* recvfile(), send_ack: an acknowledgement goes out and the last block is
   written. *)
SendAck(B, b) == down' = Into(down, Ack(b)) /\ \E B1 \in write_behind(B) : SetBufs(B1)

StartSend ==
  /\ Accepted /\ req.op = "RRQ"
  /\ block' = 1 /\ SendNext(rw_init(1), 1)
  /\ UNCHANGED <<req, content, i, timeout, blocked, queue, up, client>>

StartRecv ==
  /\ Accepted /\ req.op = "WRQ"
  /\ pc' = "recv" /\ block' = 1 /\ SendAck(rw_init(0), 0)
  /\ UNCHANGED <<req, content, i, timeout, blocked, queue, up, client>>

(* sendfile(): recv() returns what came for this block. *)
RecvAck ==
  /\ pc = "send" /\ queue # <<>>
  /\ LET m == Head(queue)
         size == bfs[current].counter
     IN  \/ /\ m.op = "ERROR"
            /\ pc' = "exit" /\ queue' = Tail(queue)
            /\ UNCHANGED <<bufVars, block, timeout, down>>
         \/ /\ m.op = "ACK" /\ th_block(m) = block
            /\ queue' = Tail(queue) /\ block' = block + 1
            /\ IF size = SEGSIZE
                 THEN SendNext(Bufs, block + 1) /\ timeout' = 0
                 ELSE pc' = "exit" /\ UNCHANGED <<bufVars, timeout, down>>
         \/ /\ m.op = "ACK" /\ th_block(m) # block
            /\ queue' = <<>>
            /\ IF th_block(m) = block - 1 THEN SendData(Bufs, block) ELSE UNCHANGED <<bufVars, down>>
            /\ UNCHANGED <<pc, block, timeout>>
  /\ UNCHANGED <<req, content, i, blocked, up, client>>

(* recvfile(): recv() puts a packet into the buffer in use. *)
RecvData ==
  /\ pc = "recv" /\ queue # <<>>
  /\ LET m == Head(queue)
         B == [Bufs EXCEPT !.bfs[current].data = m.data, !.bfs[current].op = m.op,
                           !.bfs[current].block = th_block(m)]
     IN  \/ /\ m.op = "ERROR"
            /\ pc' = "exit" /\ queue' = Tail(queue) /\ SetBufs(B)
            /\ UNCHANGED <<block, timeout, down>>
         \/ /\ m.op = "DATA" /\ th_block(m) = block
            /\ queue' = Tail(queue)
            /\ IF Len(m.data) = SEGSIZE
                 THEN /\ \E B1 \in writeit(B, Len(m.data)) : SendAck(B1, block)
                      /\ block' = block + 1 /\ timeout' = 0 /\ UNCHANGED pc
                 ELSE /\ \E B1 \in writeit(B, Len(m.data)) : \E B2 \in write_behind(B1) : SetBufs(B2)
                      /\ down' = Into(down, Ack(block))
                      /\ pc' = "final" /\ UNCHANGED <<block, timeout>>
         \/ /\ m.op = "DATA" /\ th_block(m) # block
            /\ queue' = <<>>
            /\ IF th_block(m) = block - 1 THEN SendAck(B, block - 1)
                                          ELSE SetBufs(B) /\ UNCHANGED down
            /\ UNCHANGED <<pc, block, timeout>>
  /\ UNCHANGED <<req, content, i, blocked, up, client>>

(* recvfile(), the last recv(), into buf: the test for a repeated last block
   looks into the other buffer, dp. *)
RecvFinal ==
  /\ pc = "final" /\ queue # <<>>
  /\ queue' = Tail(queue) /\ pc' = "exit"
  /\ down' = IF bfs[current].op = "DATA" /\ bfs[current].block = block
             THEN Into(down, Ack(block)) ELSE down
  /\ UNCHANGED <<req, content, i, bufVars, block, timeout, blocked, up, client>>

(* SIGALRM: timer() repeats the last packet until maxtimeout, justquit()
   ends. *)
Alarm ==
  /\ pc \in {"send", "recv", "final"} /\ ~blocked
  /\ timeout' = IF pc = "final" THEN timeout ELSE timeout + 1
  /\ IF pc = "final" \/ timeout' >= maxtimeout
       THEN pc' = "exit" /\ UNCHANGED <<bufVars, blocked, down>>
       ELSE /\ blocked' = TRUE
            /\ IF pc = "send" THEN SendData(Bufs, block) ELSE SendAck(Bufs, block - 1)
            /\ UNCHANGED pc
  /\ UNCHANGED <<req, content, i, block, queue, up, client>>

(* send() or recv() fails, as when the client's port is closed: the transfer
   is given up before the block at hand is written. *)
SocketFails ==
  /\ pc \in {"send", "recv", "final"} /\ pc' = "exit"
  /\ UNCHANGED <<req, content, i, bufVars, block, timeout, blocked, queue, up, down, client>>
-----------------------------------------------------------------------------
(* External: the network.  A datagram may be lost, and may arrive again. *)
Arrive(m) ==
  /\ m \in up /\ Len(queue) < QueueCap /\ pc \in {"send", "recv", "final"}
  /\ queue' = Append(queue, m) /\ up' \in {up, up \ {m}}
  /\ UNCHANGED <<req, content, pc, i, bufVars, block, timeout, blocked, down, client>>

Lose ==
  /\ \/ \E m \in up : up' = up \ {m} /\ UNCHANGED down
     \/ \E m \in down : down' = down \ {m} /\ UNCHANGED up
  /\ UNCHANGED <<req, content, pc, i, bufVars, block, timeout, blocked, queue, client>>

(* External: a client as RFC 1350 has it.  It takes the block it waits for and
   acknowledges every block again; it sends the block after the one
   acknowledged. *)
Blocks == Len(Wire) \div SEGSIZE + 1

ClientRecv(m) ==
  /\ m \in down /\ client.alive
  /\ down' \in {down, down \ {m}}
  /\ LET new == m.op = "DATA" /\ m.block = client.next % (2 * Half) /\ ~client.done
         ack == m.op = "ACK" /\ m.block = (client.next - 1) % (2 * Half) /\ ~client.done
     IN  \/ /\ m.op = "DATA"
            /\ client' = IF new THEN [client EXCEPT !.next = @ + 1, !.data = @ \o m.data,
                                                    !.done = Len(m.data) < SEGSIZE] ELSE client
            /\ up' = Into(up, Ack(m.block))
         \/ /\ ack /\ client.next <= Blocks
            /\ client' = [client EXCEPT !.next = @ + 1]
            /\ up' = Into(up, Data(client.next, Segment(client.next)))
         \/ ack /\ client.next > Blocks /\ client' = [client EXCEPT !.done = TRUE] /\ UNCHANGED up
         \/ m.op = "ERROR" /\ client' = [client EXCEPT !.alive = FALSE] /\ UNCHANGED up
  /\ UNCHANGED <<req, content, pc, i, bufVars, block, timeout, blocked, queue>>

ClientRepeat ==
  /\ pc \in {"send", "recv", "final"} /\ client.alive /\ client.next > 1
  /\ up' = Into(up, IF req.op = "RRQ" THEN Ack(client.next - 1)
                    ELSE Data(client.next - 1, Segment(client.next - 1)))
  /\ UNCHANGED <<req, content, pc, i, bufVars, block, timeout, blocked, queue, down, client>>

ClientQuit ==
  /\ pc \in {"send", "recv", "final"} /\ client.alive
  /\ client' = [client EXCEPT !.alive = FALSE]
  /\ up' \in {up, Into(up, Error)}
  /\ UNCHANGED <<req, content, pc, i, bufVars, block, timeout, blocked, queue, down>>

Server == Fork \/ Refuse \/ StartSend \/ StartRecv \/ RecvAck \/ RecvData \/ RecvFinal
Step ==
  \/ Server \/ Alarm \/ SocketFails \/ Lose \/ ClientRepeat \/ ClientQuit
  \/ \E m \in up : Arrive(m)
  \/ \E m \in down : ClientRecv(m)
Next == ForkFails \/ (Step /\ UNCHANGED old)

Spec == Init /\ [][Next]_vars
-----------------------------------------------------------------------------
TypeOK ==
  /\ pc \in {"fork", "tftp", "send", "recv", "final", "exit"}
  /\ current \in 0 .. 1 /\ nextone \in 0 .. 1 /\ timeout \in 0 .. maxtimeout
  /\ \A k \in 0 .. 1 : bfs[k].counter \in -3 .. SEGSIZE
  /\ Len(queue) <= QueueCap /\ Cardinality(up) <= NetCap /\ Cardinality(down) <= NetCap

(* sendfile(), read_ahead(): a packet labelled with a block carries that
   segment of the file in its wire form, also when it is sent again after the
   next block was read ahead into the other buffer; in netascii the first part
   of it, once the file could not be read further. *)
DataMatchesBlock ==
  \A m \in down : m.op = "DATA" => \/ m.data = Segment(m.block)
                                   \/ convert /\ failed # -1 /\ IsPrefix(m.data, Segment(m.block))

(* sendfile(): the client has a prefix of the file at all times, and the whole
   file when it was told that the transfer is complete, unless netascii text
   could not be read, which looks like its end. *)
DownloadIntact ==
  req.op = "RRQ" =>
    /\ IsPrefix(client.data, Wire)
    /\ client.done => client.data = Wire \/ (convert /\ failed # -1)

(* recvfile(), write_behind(): the file is opened without O_TRUNC and a failed
   write is acknowledged like any other.  What is true: a completed upload is
   in the file if every write worked, over what the file held, of which a
   longer rest stays.  In octet mode, at all times, what was written before the
   first failure is what the client sent, and the rest is as it was. *)
UploadIntact ==
  req.op = "WRQ" =>
    /\ client.done /\ failed = -1 => disk = Over(old, 0, content)
    /\ ~convert => LET n == IF failed = -1 THEN pos ELSE failed
                   IN  /\ SubSeq(disk, 1, n) = SubSeq(content, 1, n)
                       /\ SubSeq(disk, pos + 1, Len(disk)) = SubSeq(old, pos + 1, Len(old))

(* Both directions, with losses, repetitions, reads and writes that fail, and
   a cr at the end of a block. *)
TransferIntact == DataMatchesBlock /\ DownloadIntact /\ UploadIntact
=============================================================================
