------------------------------ MODULE Transfer ------------------------------
(* Bytes on their way between two guests: pipes, sockets, the captured      *)
(* output and the files of /proc.  A worker serves each call outside the    *)
(* state lock, copies through a buffer of IO_CHUNK bytes, and replies to a   *)
(* guest that a signal may have taken out of the call meanwhile.            *)
(*                                                                         *)
(* The queue of the kernel is a sequence of messages; a stream is one of    *)
(* messages of one byte.  Bytes are numbered as the sender's program has    *)
(* them.                                                                    *)
EXTENDS FiniteSets, Integers, Sequences, SequencesExt

CONSTANTS
  Readers, Workers,        \* receiving guest threads; workers that may serve them
  Kinds,                   \* what is behind the descriptor
  IO_CHUNK, MAX_IOV,
  Room,                    \* bytes the kernel's queue holds
  Content,                 \* bytes of the file of /proc
  MaxBytes, MaxSeeks,      \* bounds: bytes sent, calls of lseek
  Reckless                 \* restrictions on the guest that are lifted:
                           \*   short_iov, short_recvmsg, big_message, interrupt,
                           \*   two_readers, nonblock, past_end

ASSUME TransferAssumption ==
  /\ IO_CHUNK \in Nat \ {0} /\ MAX_IOV \in Nat \ {0} /\ Content \in Nat /\ Room \in Nat
  /\ Kinds \subseteq {"pipe", "stream", "dgram", "proc", "log"} /\ Readers # {}

VARIABLES
  kind, queue, closed,
  off, pos,                \* ProcData.offset; what POSIX says of it
  rcall,                   \* the receiving call each worker serves
  wcall, sent,             \* the sending call; bytes the sender was told are gone
  got,                     \* bytes each reader was told it has
  seeks
ioVars == <<kind, queue, closed, off, pos, rcall, wcall, sent, got, seeks>>

\* Lengths of buffers: one, or several, more than MAX_IOV too.
Iovs == {<<n>> : n \in 1 .. IO_CHUNK + 1} \cup {<<1, 1>>, <<1, 1, 1>>}
NoCall == [pc |-> "idle", op |-> "none", thread |-> CHOOSE t \in Readers : TRUE, iov |-> <<>>,
           hand |-> <<>>, size |-> 0, at |-> 0, nb |-> FALSE, live |-> FALSE]
NoSend == [pc |-> "idle", gathered |-> 0, size |-> 0, n |-> 0]

IoInit ==
  /\ kind \in Kinds /\ queue = <<>> /\ closed = FALSE
  /\ off = 0 /\ pos = 0 /\ seeks = 0 /\ sent = 0
  /\ rcall = [w \in Workers |-> NoCall] /\ wcall = NoSend
  /\ got = [t \in Readers |-> <<>>]

Total(s) ==
  LET sum[n \in 0 .. Len(s)] == IF n = 0 THEN 0 ELSE sum[n - 1] + s[n] IN sum[Len(s)]
Least(a, b) == IF a < b THEN a ELSE b
Socket == kind \in {"stream", "dgram"}
\* The bytes of a stream in the kernel.
Bytes(q) == [i \in DOMAIN q |-> q[i].data[1]]

-----------------------------------------------------------------------------
(* Sending: write, writev, sendto, sendmsg.                                 *)

\* gather_iovecs: at most MAX_IOV buffers and IO_CHUNK bytes.
Gathered(iov) == Least(Total(SubSeq(iov, 1, Least(Len(iov), MAX_IOV))), IO_CHUNK)
SendOps == {"write", "writev"} \cup (IF Socket THEN {"sendto", "sendmsg"} ELSE {})

send == \E op \in SendOps, iov \in Iovs :
  /\ kind # "proc" /\ wcall.pc = "idle" /\ ~closed
  /\ op \in {"write", "sendto"} => Len(iov) = 1
  /\ sent + Total(iov) <= MaxBytes
  /\ kind = "dgram" => Gathered(iov) = Total(iov) \/ "big_message" \in Reckless
  /\ wcall' = [NoSend EXCEPT !.pc = "write", !.gathered = Gathered(iov), !.size = Total(iov)]
  /\ UNCHANGED <<kind, queue, closed, off, pos, rcall, sent, got, seeks>>

\* The blocking write of the kernel: a stream takes what there is room for, a
\* message goes as a whole, the log buffer takes everything.
FreeRoom ==
  Room - (IF kind = "dgram" THEN Total([i \in DOMAIN queue |-> Len(queue[i].data)]) ELSE Len(queue))
Message(from, n) ==
  IF kind = "dgram" THEN <<[data |-> [i \in 1 .. n |-> from + i], size |-> wcall.size]>>
  ELSE [i \in 1 .. n |-> [data |-> <<from + i>>, size |-> 1]]
write_to_sink ==
  LET n == wcall.gathered
      k == IF kind \in {"dgram", "log"} THEN n ELSE Least(n, FreeRoom) IN
  /\ wcall.pc = "write" /\ k > 0
  /\ kind = "dgram" => n <= FreeRoom
  /\ queue' = queue \o Message(sent, k)
  /\ wcall' = [wcall EXCEPT !.pc = "reply", !.n = k]
  /\ UNCHANGED <<kind, closed, off, pos, rcall, sent, got, seeks>>

\* A sender that a signal took out of its call was told nothing.
send_reply == \E told \in IF "interrupt" \in Reckless THEN BOOLEAN ELSE {TRUE} :
  /\ wcall.pc = "reply"
  /\ sent' = (IF told THEN sent + wcall.n ELSE sent) /\ wcall' = NoSend
  /\ UNCHANGED <<kind, queue, closed, off, pos, rcall, got, seeks>>

\* shutdown of a socket, or the last descriptor of a pipe is closed.
shutdown ==
  /\ kind \in {"pipe", "stream"} /\ ~closed /\ wcall.pc = "idle"
  /\ closed' = TRUE
  /\ UNCHANGED <<kind, queue, off, pos, rcall, wcall, sent, got, seeks>>

\* LogBuffer::drain: the host takes all there is.
drain == \E t \in Readers :
  /\ kind = "log" /\ queue # <<>>
  /\ got' = [got EXCEPT ![t] = @ \o Bytes(queue)] /\ queue' = <<>>
  /\ UNCHANGED <<kind, closed, off, pos, rcall, wcall, sent, seeks>>

-----------------------------------------------------------------------------
(* Receiving: read, readv, recvfrom, recvmsg.                               *)
Recv(op) == op \in {"recvfrom", "recvmsg"}
ReadOps == {"read", "readv"} \cup (IF Socket THEN {"recvfrom", "recvmsg"} ELSE {})
Cap(iov) == Total(SubSeq(iov, 1, Least(Len(iov), MAX_IOV)))
\* Mutant: the guest's buffers are not asked for their length.
Want_less(op, iov) == IO_CHUNK - 1
\* The length of the buffer the backend reads into.
Want(op, iov) == IF op \in {"read", "recvfrom"} THEN Least(iov[1], IO_CHUNK) ELSE IO_CHUNK

\* readv and recvmsg read before they look at the buffers of the guest.
Fits(op, iov) ==
  /\ op = "readv" => Cap(iov) >= IO_CHUNK \/ "short_iov" \in Reckless
  /\ op = "recvmsg" => Cap(iov) >= IO_CHUNK \/ "short_recvmsg" \in Reckless
Alone(t, op) ==
  \/ "two_readers" \in Reckless
  \/ \A w \in Workers : rcall[w].pc # "idle" => Recv(op) /\ Recv(rcall[w].op)

FirstPc(op) == IF Recv(op) THEN "recv" ELSE IF kind = "proc" THEN "load" ELSE "poll"
receive(t, w) == \E op \in ReadOps, iov \in Iovs, nb \in BOOLEAN :
  /\ kind # "log" /\ rcall[w].pc = "idle"
  /\ \A v \in Workers : rcall[v].pc = "idle" \/ ~rcall[v].live \/ rcall[v].thread # t
  /\ op \in {"read", "recvfrom"} => Len(iov) = 1
  /\ Fits(op, iov) /\ Alone(t, op)
  /\ nb => Recv(op) \/ "nonblock" \in Reckless
  /\ rcall' = [rcall EXCEPT ![w] = [NoCall EXCEPT !.pc = FirstPc(op), !.op = op, !.thread = t,
                                                  !.iov = iov, !.nb = nb, !.live = TRUE]]
  /\ UNCHANGED <<kind, queue, closed, off, pos, wcall, sent, got, seeks>>

Readable == queue # <<>> \/ closed
End(w) == rcall' = [rcall EXCEPT ![w] = NoCall]

\* Mutant: the worker reads without having polled.
poll_never_waits(w) == TRUE
\* read_blocking: a slice of poll ends with something to read, or without; the
\* notification is looked at in the second case only.
poll_is_ready(w) == Readable
poll(w) ==
  /\ rcall[w].pc = "poll" /\ ~Recv(rcall[w].op) /\ poll_is_ready(w)
  /\ rcall' = [rcall EXCEPT ![w].pc = "read"]
  /\ UNCHANGED <<kind, queue, closed, off, pos, wcall, sent, got, seeks>>
poll_slice(w) ==
  /\ rcall[w].pc = "poll"
  /\ IF Recv(rcall[w].op) /\ rcall[w].live THEN rcall' = [rcall EXCEPT ![w].pc = "recv"]
     ELSE ~rcall[w].live /\ End(w)
  /\ UNCHANGED <<kind, queue, closed, off, pos, wcall, sent, got, seeks>>

\* Mutant: AGAIN is waited out in the kernel.
recv_again_waits(w) ==
  /\ rcall[w].pc = "recv" /\ ~Readable
  /\ rcall' = [rcall EXCEPT ![w].pc = "poll"]
  /\ UNCHANGED <<kind, queue, closed, off, pos, wcall, sent, got, seeks>>
\* recv_blocking: recv without waiting; AGAIN goes to the guest, or to poll.
recv_again(w) ==
  /\ rcall[w].pc = "recv" /\ ~Readable
  /\ IF rcall[w].nb THEN End(w) ELSE rcall' = [rcall EXCEPT ![w].pc = "poll"]
  /\ UNCHANGED <<kind, queue, closed, off, pos, wcall, sent, got, seeks>>

\* What the kernel hands out: of a stream as much as fits, or one message, cut.
Taken(n) == IF queue = <<>> THEN <<>>
            ELSE IF kind = "dgram" THEN SubSeq(queue[1].data, 1, Least(n, Len(queue[1].data)))
            ELSE Bytes(SubSeq(queue, 1, Least(n, Len(queue))))
Left(n) == IF queue = <<>> THEN <<>>
           ELSE IF kind = "dgram" THEN Tail(queue) ELSE SubSeq(queue, Least(n, Len(queue)) + 1, Len(queue))
take(w) ==
  LET n == Want(rcall[w].op, rcall[w].iov) IN
  /\ rcall[w].pc \in {"read", "recv"} /\ Readable
  /\ rcall' = [rcall EXCEPT ![w].pc = "reply", ![w].hand = Taken(n),
                            ![w].size = IF queue = <<>> THEN 0 ELSE queue[1].size]
  /\ queue' = Left(n)
  /\ UNCHANGED <<kind, closed, off, pos, wcall, sent, got, seeks>>

\* Backend::read of /proc: the offset is loaded, and stored after the copy.
proc_load(w) ==
  LET at == Least(off, Content) IN
  /\ rcall[w].pc = "load"
  /\ rcall' = [rcall EXCEPT ![w].pc = "store", ![w].at = at,
       ![w].hand = [i \in 1 .. Least(Content - at, Want(rcall[w].op, rcall[w].iov)) |-> at + i]]
  /\ UNCHANGED <<kind, queue, closed, off, pos, wcall, sent, got, seeks>>
\* Mutant: the offset moves by what was asked for.
proc_store_want(w) ==
  /\ rcall[w].pc = "store"
  /\ off' = rcall[w].at + Want(rcall[w].op, rcall[w].iov)
  /\ rcall' = [rcall EXCEPT ![w].pc = "reply"]
  /\ UNCHANGED <<kind, queue, closed, pos, wcall, sent, got, seeks>>
\* Mutant: the offset is not stored.
proc_store_never(w) ==
  /\ rcall[w].pc = "store"
  /\ rcall' = [rcall EXCEPT ![w].pc = "reply"]
  /\ UNCHANGED <<kind, queue, closed, off, pos, wcall, sent, got, seeks>>
proc_store(w) ==
  /\ rcall[w].pc = "store"
  /\ off' = rcall[w].at + Len(rcall[w].hand)
  /\ rcall' = [rcall EXCEPT ![w].pc = "reply"]
  /\ UNCHANGED <<kind, queue, closed, pos, wcall, sent, got, seeks>>

\* Backend::lseek; dup, fork and other descriptors of the file are in GuestFds.
lseek == \E base \in {0, off, Content}, by \in {-1, 0, 1} :
  /\ kind = "proc" /\ seeks < MaxSeeks /\ \A w \in Workers : rcall[w].pc = "idle"
  /\ off' = IF base + by < 0 THEN 0 ELSE base + by
  /\ off' <= Content \/ "past_end" \in Reckless
  /\ pos' = off' /\ seeks' = seeks + 1
  /\ got' = [t \in Readers |-> <<>>]
  /\ UNCHANGED <<kind, queue, closed, rcall, wcall, sent>>

\* Mutant: only the first buffer is filled.
scatter_first(hand, iov) == SubSeq(hand, 1, Least(Len(hand), iov[1]))
\* scatter_iovecs: the bytes that reach the memory of the guest, and the count
\* it is told.
scatter(hand, iov) == SubSeq(hand, 1, Least(Len(hand), Cap(iov)))
\* Mutant: the answer is the number of bytes asked for.
Reply_asked(c) == Want(c.op, c.iov)
Reply(c) == IF c.op = "readv" THEN Len(scatter(c.hand, c.iov)) ELSE Len(c.hand)

\* The reply of a worker; it reaches the guest if the guest still waits.
receive_reply(w) ==
  LET c == rcall[w] IN
  /\ c.pc = "reply"
  /\ End(w)
  /\ got' = IF c.live THEN [got EXCEPT ![c.thread] = @ \o scatter(c.hand, c.iov)] ELSE got
  /\ pos' = IF c.live /\ kind = "proc" THEN pos + Reply(c) ELSE pos
  /\ UNCHANGED <<kind, queue, closed, off, wcall, sent, seeks>>

\* A signal takes the receiver out of its call.  The restriction:
\* it arrives while nothing is there to read, and nothing comes until the
\* worker has looked.
Unaware == \E w \in Workers : rcall[w].pc # "idle" /\ ~rcall[w].live
signal(w) ==
  /\ rcall[w].pc # "idle" /\ rcall[w].live
  /\ \/ "interrupt" \in Reckless
     \/ rcall[w].hand = <<>> /\ ~Readable /\ rcall[w].pc \in {"poll", "recv", "read"}
        /\ wcall.pc = "idle"
  /\ rcall' = [rcall EXCEPT ![w].live = FALSE]
  /\ UNCHANGED <<kind, queue, closed, off, pos, wcall, sent, got, seeks>>
Undisturbed == Unaware => "interrupt" \in Reckless

IoNext ==
  \/ Undisturbed /\ (send \/ shutdown)
  \/ write_to_sink \/ send_reply \/ drain \/ lseek
  \/ \E w \in Workers :
       \/ \E t \in Readers : Undisturbed /\ receive(t, w)
       \/ poll(w) \/ poll_slice(w) \/ recv_again(w) \/ take(w) \/ proc_load(w) \/ proc_store(w)
       \/ receive_reply(w) \/ signal(w)

-----------------------------------------------------------------------------
(* Every byte the sender was told is gone is in the kernel, in the hands of *)
(* a worker whose guest waits for it, or with a receiver, and exactly once: *)
(* no copy through the bounded buffer loses or repeats one (read_blocking,  *)
(* recv_blocking, sys_readv, sys_writev, write_to_sink).                    *)
InHand(w) == IF rcall[w].live THEN scatter(rcall[w].hand, rcall[w].iov) ELSE <<>>
Accepted == sent + wcall.n
Where(b) ==
  {<<"kernel", "queue", i>> : i \in {j \in DOMAIN queue : Bytes(queue)[j] = b}}
    \cup (UNION {{<<"guest", t, i>> : i \in {j \in DOMAIN got[t] : got[t][j] = b}} : t \in Readers})
    \cup (UNION {{<<"worker", w, i>> : i \in {j \in DOMAIN InHand(w) : InHand(w)[j] = b}} : w \in Workers})
NothingLost ==
  kind \in {"pipe", "stream", "log"} =>
    /\ ToSet(Bytes(queue)) \cup (UNION {ToSet(got[t]) : t \in Readers})
         \cup (UNION {ToSet(InHand(w)) : w \in Workers}) = 1 .. Accepted
    /\ \A b \in 1 .. Accepted : \E place \in Where(b) : Where(b) = {place}

(* Each receiver gets its bytes in the order in which they were sent, or    *)
(* stand in the file (take, proc_load, sys_lseek).                          *)
InOrder == \A t \in Readers : \A i, j \in DOMAIN got[t] : i < j => got[t][i] < got[t][j]

(* A receiver is told the number of bytes that were put into its buffers,   *)
(* and zero only at the end (sys_recvmsg, sys_readv).                       *)
CountTrue ==
  \A w \in Workers : rcall[w].pc = "reply" /\ rcall[w].live =>
    /\ Reply(rcall[w]) = Len(scatter(rcall[w].hand, rcall[w].iov))
    /\ Reply(rcall[w]) = 0 => IF kind = "proc" THEN off >= Content ELSE closed /\ queue = <<>>

(* A message arrives as it was sent, as far as it fits the buffers of the   *)
(* receiver (sys_sendto, sys_sendmsg, recv_blocking).                       *)
MessagesWhole ==
  \A w \in Workers : kind = "dgram" /\ rcall[w].pc = "reply" /\ rcall[w].live =>
    Reply(rcall[w]) = Least(rcall[w].size, Total(rcall[w].iov))

(* The offset of a file of /proc is the one its readers know: where they    *)
(* seeked, and what they were told they read (ProcData).                    *)
OffsetTrue == (\A w \in Workers : rcall[w].pc = "idle") => off = pos

(* No worker sits in a read that nothing ends for a guest that has left:    *)
(* teardown joins it (read_blocking's comment).                             *)
NoStrayWorker ==
  \A w \in Workers : rcall[w].pc = "read" /\ ~Readable => rcall[w].live

(* A call that must not wait does not: it never gets to the poll            *)
(* (recv_blocking).                                                         *)
NeverWaits == \A w \in Workers : rcall[w].nb => rcall[w].pc # "poll"

(* What a receiver is given is in order, is counted truly, keeps the bounds *)
(* of messages and moves the offset by as much (sys_readv, sys_recvmsg).    *)
DeliveredRight == InOrder /\ CountTrue /\ MessagesWhole /\ OffsetTrue

(* A worker waits only for a guest that still waits and was willing to      *)
(* (read_blocking, recv_blocking).                                          *)
WorkersFree == NoStrayWorker /\ NeverWaits
=============================================================================
