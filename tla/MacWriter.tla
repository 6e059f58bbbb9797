------------------------------ MODULE MacWriter ------------------------------
(***************************************************************************)
(* Threaded writes on macOS (writer_thread_macos): the client, the ring    *)
(* and the flags are WriterThread's, but the writer never touches the      *)
(* transport.  It puts its packets into an unbounded channel, and a second *)
(* thread takes them out and sends them.  A flush gathers all it drains    *)
(* into one buffer of many packets, mega_buf, and is answered once that    *)
(* buffer is in the channel.                                               *)
(*                                                                         *)
(* thread_buf also stands for pkt, the packet a flush fills: the two never *)
(* hold bytes at the same time, because a flush starts by moving           *)
(* thread_buf to mega_buf.                                                 *)
(***************************************************************************)
EXTENDS WriterThread

VARIABLES
  mega_buf,  \* writer: the packets of the flush under way, joined
  channel,   \* usb_tx to usb_rx: the buffers queued for the I/O thread
  iopc,      \* I/O thread: where it is; "none" if it could not be started
  item       \* I/O thread: the buffer it took from the channel

io == <<iopc, item>>
macvars == <<vars, mega_buf, channel, io>>

(* The spawn's error is dropped (.ok()): the writer starts all the same.   *)
MacInit ==
  /\ Init
  /\ mega_buf = << >> /\ channel = << >> /\ item = << >>
  /\ iopc \in {"recv", "none"}

(* The receiver was moved into the I/O thread and is gone without it; what *)
(* send returns then is ignored.                                           *)
Enqueue(b) ==
  channel' = IF iopc \in {"none", "exited"} THEN channel ELSE Append(channel, b)

----------------------------------------------------------------------------
(* The writer thread. *)

(* Mutant: the loop does not test the run flag. *)
MacCheckRunNever ==
  /\ wpc = "top"
  /\ wpc' = "lock"
  /\ UNCHANGED <<ring, shared, run, client, flushing, thread_buf, got, transport>>
  /\ UNCHANGED <<mega_buf, channel, io>>

(* The loop ends by dropping the sender and waiting for the I/O thread.    *)
MacCheckRun ==
  /\ wpc = "top"
  /\ wpc' = IF run THEN "lock" ELSE "join_io"
  /\ UNCHANGED <<ring, shared, run, client, flushing, thread_buf, got, transport>>
  /\ UNCHANGED <<mega_buf, channel, io>>

(* Mutant: the writer does not wait for the I/O thread. *)
DetachIo ==
  /\ wpc = "join_io"
  /\ wpc' = "exited"
  /\ UNCHANGED <<ring, shared, run, client, flushing, thread_buf, got, transport>>
  /\ UNCHANGED <<mega_buf, channel, io>>

JoinIo ==
  /\ wpc = "join_io"
  /\ iopc \in {"none", "exited"}
  /\ wpc' = "exited"
  /\ UNCHANGED <<ring, shared, run, client, flushing, thread_buf, got, transport>>
  /\ UNCHANGED <<mega_buf, channel, io>>

(* Mutant: the flush forgets the records of the rounds before it. *)
GatherNone ==
  /\ wpc = "pre_flush"
  /\ wpc' = "test"
  /\ thread_buf' = << >>
  /\ UNCHANGED <<ring, shared, run, client, flushing, got, transport>>
  /\ UNCHANGED <<mega_buf, channel, io>>

(* What earlier rounds collected goes first. *)
GatherPartial ==
  /\ wpc = "pre_flush"
  /\ wpc' = "test"
  /\ mega_buf' = IF HasPartialPacket THEN thread_buf ELSE << >>
  /\ thread_buf' = << >>
  /\ UNCHANGED <<ring, shared, run, client, flushing, got, transport, channel, io>>

(* One get.  After the last of a record, the packet is complete if it is   *)
(* full or, in a flush, if the ring is empty.                              *)
MacGetByte ==
  /\ wpc = "get"
  /\ thread_buf' = Append(thread_buf, buf[read_pos])
  /\ read_pos' = Advance(read_pos, RingSize)
  /\ got' = (got + 1) % RecLen
  /\ wpc' = IF got' # 0 THEN "get" ELSE "packet"
  /\ UNCHANGED <<buf, write_pos, shared, run, client, flushing, transport>>
  /\ UNCHANGED <<mega_buf, channel, io>>

(* Mutant: the limit is tested one byte late. *)
PacketCompleteLate ==
  BufferPos > PacketLimit \/ (flushing /\ IsEmpty(read_pos, write_pos))

PacketComplete ==
  BufferPos >= PacketLimit \/ (flushing /\ IsEmpty(read_pos, write_pos))

EndPacket ==
  /\ wpc = "packet"
  /\ wpc' = "test"
  /\ IF ~PacketComplete THEN UNCHANGED <<thread_buf, mega_buf, channel>>
     ELSE /\ thread_buf' = << >>
          /\ IF flushing THEN mega_buf' = mega_buf \o thread_buf /\ UNCHANGED channel
                         ELSE Enqueue(thread_buf) /\ UNCHANGED mega_buf
  /\ UNCHANGED <<ring, shared, run, client, flushing, got, transport, io>>

(* Mutant: what was gathered is left for the next flush. *)
KeepMega ==
  /\ wpc = "post_flush"
  /\ wpc' = "answer"
  /\ thread_buf' = << >>
  /\ UNCHANGED <<ring, shared, run, client, flushing, got, transport>>
  /\ UNCHANGED <<mega_buf, channel, io>>

(* buffer_pos goes back to the start and pkt is dropped, with what the     *)
(* drain may have left in it.                                              *)
QueueMega ==
  /\ wpc = "post_flush"
  /\ wpc' = "answer"
  /\ IF mega_buf # << >> THEN Enqueue(mega_buf) ELSE UNCHANGED channel
  /\ mega_buf' = << >> /\ thread_buf' = << >>
  /\ UNCHANGED <<ring, shared, run, client, flushing, got, transport, io>>

(* Waiting for work, the drain's condition and the answer are as in        *)
(* writer_thread_default.                                                  *)
SameAsDefault ==
  /\ LockShared \/ StartWait \/ Wake \/ TestRing \/ AnswerFlush
  /\ UNCHANGED <<mega_buf, channel, io>>

MacWriterStep ==
  \/ MacCheckRun \/ JoinIo \/ GatherPartial \/ MacGetByte \/ EndPacket
  \/ QueueMega \/ SameAsDefault

----------------------------------------------------------------------------
(* The I/O thread. *)

(* Mutant: after the run flag was cleared, the newest buffer still goes out. *)
IoReceiveNewest ==
  /\ iopc = "recv" /\ channel # << >>
  /\ iopc' = "send"
  /\ IF run THEN item' = Head(channel) /\ channel' = Tail(channel)
            ELSE item' = channel[Len(channel)] /\ channel' = << >>
  /\ UNCHANGED <<vars, mega_buf>>

(* Mutant: the thread waits for a second buffer to send with the first. *)
IoReceivePairs ==
  /\ iopc = "recv" /\ channel # << >>
  /\ run => Len(channel) >= 2
  /\ IF run THEN iopc' = "send" /\ item' = Head(channel) /\ channel' = Tail(channel)
            ELSE iopc' = "exited" /\ channel' = << >> /\ UNCHANGED item
  /\ UNCHANGED <<vars, mega_buf>>

(* A buffer received after the run flag was cleared is dropped, and with   *)
(* it all that is still queued; so is the receiver.                        *)
IoReceive ==
  /\ iopc = "recv" /\ channel # << >>
  /\ IF run THEN iopc' = "send" /\ item' = Head(channel) /\ channel' = Tail(channel)
            ELSE iopc' = "exited" /\ channel' = << >> /\ UNCHANGED item
  /\ UNCHANGED <<vars, mega_buf>>

(* recv fails once the sender is dropped and nothing is left.              *)
IoDisconnected ==
  /\ iopc = "recv" /\ channel = << >>
  /\ wpc = "join_io"
  /\ iopc' = "exited"
  /\ UNCHANGED <<vars, mega_buf, channel, item>>

(* Mutant: a buffer whose send fails is dropped without being counted. *)
IoSendUncounted ==
  /\ iopc = "send"
  /\ packet' = item
  /\ \E first, retry \in Attempt :
       /\ writer_errors + Errors(first, retry) <= MaxErrors
       /\ wire' = wire \cup Mishaps(first, retry)
  /\ UNCHANGED writer_errors
  /\ iopc' = "recv" /\ item' = << >>
  /\ UNCHANGED <<ring, shared, run, client, writer, mega_buf, channel>>

(* One bulk transfer for the buffer, and one retry. *)
IoSend ==
  /\ iopc = "send"
  /\ packet' = item
  /\ \E first, retry \in Attempt :
       /\ writer_errors + Errors(first, retry) <= MaxErrors
       /\ writer_errors' = writer_errors + Errors(first, retry)
       /\ wire' = wire \cup Mishaps(first, retry)
  /\ iopc' = "recv" /\ item' = << >>
  /\ UNCHANGED <<ring, shared, run, client, writer, mega_buf, channel>>

IoThread == IoReceive \/ IoDisconnected \/ IoSend

----------------------------------------------------------------------------
ClientStep == Client /\ UNCHANGED <<mega_buf, channel, io>>

MacFinished == cpc = "closed" /\ wpc = "exited" /\ UNCHANGED macvars

MacNext == ClientStep \/ MacWriterStep \/ IoThread \/ MacFinished

MacSpec == MacInit /\ [][MacNext]_macvars

(* The scheduler runs both threads, and a call that was made goes on.      *)
MacFairSpec ==
  /\ MacSpec
  /\ WF_macvars(MacWriterStep) /\ WF_macvars(IoThread)
  /\ WF_macvars(InCall /\ UNCHANGED <<mega_buf, channel, io>>)

----------------------------------------------------------------------------
MacTypeOK ==
  /\ CommonType
  /\ wpc \in {"top", "lock", "wait", "pre_flush", "test", "get", "packet",
              "post_flush", "answer", "join_io", "exited"}
  /\ mega_buf \in Seq(Cell) /\ item \in Seq(Cell)
  /\ channel \in Seq(Seq(Cell))
  /\ iopc \in {"none", "recv", "send", "exited"}

(* thread_buf[buffer_pos] and pkt[pkt_pos] stay inside their 64 bytes, and *)
(* all that goes into the channel is whole records.                        *)
MacPacketsFit ==
  /\ wpc = "get" => BufferPos < LenOut
  /\ Len(thread_buf) % RecLen = got
  /\ \A i \in DOMAIN channel : channel[i] # << >> /\ Len(channel[i]) % RecLen = 0

Continues(bytes, m) == \A i \in DOMAIN bytes : bytes[i] = ByteOf(m, i)

(* The last record the I/O thread has received, the last one handed to it  *)
(* and the last one that left thread_buf.                                  *)
Received == IF item = << >> THEN LastRecord(packet) ELSE LastRecord(item)
HandedOver == IF channel = << >> THEN Received ELSE LastRecord(channel[Len(channel)])
Gathered == IF mega_buf = << >> THEN HandedOver ELSE LastRecord(mega_buf)

(* While the writer runs, every byte written and not yet given to the      *)
(* transport is in exactly one of the buffers between the two, in order:   *)
(* the I/O thread's, the channel, mega_buf, thread_buf and the ring each   *)
(* continue where the one before ends.                                     *)
NothingMislaid ==
  run /\ iopc # "none" =>
    /\ Continues(item, LastRecord(packet))
    /\ \A i \in DOMAIN channel :
         Continues(channel[i], IF i = 1 THEN Received ELSE LastRecord(channel[i - 1]))
    /\ Continues(mega_buf, HandedOver)
    /\ Continues(thread_buf, Gathered)
    /\ \A k \in 0 .. Fill - 1 :
         buf[Slot(read_pos, k, RingSize)] = ByteOf(Gathered, Len(thread_buf) + k + 1)
    /\ Gathered * RecLen + Len(thread_buf) + Fill = Stored

(* flush() returns when all that was written before it is in the hands of  *)
(* the I/O thread, though not yet sent (device.rs:851, "block until the    *)
(* writer thread has drained the ring").                                   *)
FlushHandsOver ==
  cpc = "flush_wait" /\ flush_done /\ run /\ iopc # "none" => HandedOver = records

(* Once close() has joined the writer, nothing touches the transport, that *)
(* is closed right after: the I/O thread is gone too.                      *)
QuietWhenClosed == cpc = "closed" => iopc \in {"none", "exited"}

Device == INSTANCE RecordPipe WITH
  LenOut <- 1 + RecLen * MaxRecords,
  accepted <- Accepted,
  sent <- LastRecord(packet),
  waiting <- FALSE,
  answer <- "none",
  open <- iopc # "exited"

(* Both threads, the ring and the channel implement a pipe of records to   *)
(* the device: each goes out once, whole and in order, and what closing    *)
(* drops is the end of what was written.                                   *)
MacImplementsPipe == Device!PipeSpec

(* What a flush was answered for reaches the transport, unless the driver  *)
(* is closed first.                                                        *)
FlushedGoesOut ==
  \A n \in 1 .. MaxRecords :
    cpc = "flush_wait" /\ flush_done /\ records = n
      ~> LastRecord(packet) >= n \/ ~run \/ iopc = "none"
=============================================================================
