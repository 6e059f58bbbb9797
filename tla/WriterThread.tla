---------------------------- MODULE WriterThread ----------------------------
(***************************************************************************)
(* Threaded writes on Linux and Windows (src/device.rs): a client thread   *)
(* pushes records into the ring with write_ring, write_ring_cycled or      *)
(* write_ring_cycled_batch, and the writer thread (writer_thread_default)  *)
(* drains them into packets.  They share the ring's two cursors, without a *)
(* lock; flush and flush_done, under the `shared` mutex; and run_thread.   *)
(*                                                                         *)
(* Grain: one step per call of put and get (what happens inside those is   *)
(* RingBuffer's subject), per critical section, and per packet, whose send *)
(* and retry happen under one transport lock.  A byte is represented by    *)
(* the record and the place in it that it belongs to, so that what reaches *)
(* the wire can be compared with what was written.                         *)
(*                                                                         *)
(* notify_one and notify_all have no step: both waits are timed, so a      *)
(* sleeper may always wake.                                                *)
(***************************************************************************)
EXTENDS RingIndex, Sequences

CONSTANTS
  RecLen,       \* bytes of a record: 4 with cycles, 2 without
  RingSize,     \* ring_size
  DiffSize,     \* diff_size
  PacketLimit,  \* buffer_pos that fills a packet: 61 with cycles, 63 without
  LenOut,       \* len_out, the size of thread_buf
  ClientOps,    \* the calls this client makes besides writes and close
  MaxBatch,     \* most records in one write call
  MaxUnread,    \* the client writes only what keeps the ring at this fill
  OverlapsFlush,   \* does the client call while a flush is being served?
  FlushMayTimeOut, \* can the 100 ms of flush() pass before the answer?
  MaxRecords,   \* bound: records the client writes
  MaxErrors     \* bound: failing sends

ASSUME WriterAssumption ==
  /\ RecLen \in Nat \ {0}
  /\ RingSize \in Nat /\ RingSize >= 2
  /\ DiffSize \in Nat
  /\ PacketLimit \in Nat /\ PacketLimit > 1
  /\ LenOut \in Nat /\ PacketLimit + RecLen <= LenOut + 1
  /\ ClientOps \subseteq {"set_flush", "flush", "reset"}
  /\ MaxBatch \in Nat /\ MaxUnread \in Nat
  /\ OverlapsFlush \in BOOLEAN /\ FlushMayTimeOut \in BOOLEAN
  /\ MaxRecords \in Nat /\ MaxErrors \in Nat

(* The i-th byte of a record, and what fresh storage holds. *)
Byte == (1 .. MaxRecords) \X (1 .. RecLen)
Blank == <<0, 0>>
Cell == Byte \cup {Blank}

VARIABLES
  buf, read_pos, write_pos,  \* the ring
  flush, flush_done,         \* SharedState
  run,                       \* run_thread
  cpc,         \* client: where it is
  left,        \* client: records of the current write call not yet begun
  index,       \* client: bytes of the current record already offered to put
  whole,       \* no put of the client has been refused so far
  records,     \* records offered to the ring so far
  flush_ret,   \* how the last flush() ended
  wpc,         \* writer: where it is
  flushing,    \* writer: serving a flush in this round
  thread_buf,  \* writer: bytes collected, thread_buf[1..buffer_pos-1]
  got,         \* writer: bytes of the current record taken
  writer_errors,
  packet,      \* the packet last given to the transport
  wire         \* what can have gone wrong on the wire so far

ring == <<buf, read_pos, write_pos>>
shared == <<flush, flush_done>>
client == <<cpc, left, index, whole, records, flush_ret>>
writer == <<wpc, flushing, thread_buf, got>>
transport == <<writer_errors, packet, wire>>
vars == <<ring, shared, run, client, writer, transport>>

Init ==
  /\ buf = [i \in 0 .. RingSize - 1 |-> Blank]
  /\ read_pos = 0 /\ write_pos = 0
  /\ flush = FALSE /\ flush_done \in BOOLEAN
  /\ run = TRUE
  /\ cpc = "idle" /\ left = 0 /\ index = 0 /\ whole = TRUE /\ records = 0
  /\ flush_ret = "none"
  /\ wpc = "top" /\ flushing = FALSE /\ thread_buf = << >> /\ got = 0
  /\ writer_errors = 0 /\ packet = << >> /\ wire = {}

----------------------------------------------------------------------------
(* The client. *)

Fill == Unread(read_pos, write_pos, RingSize)

(* Between the client's signal and the writer's answer. *)
FlushInProgress == flush \/ flushing

MayCall == cpc = "idle" /\ (OverlapsFlush \/ ~FlushInProgress)

(* write_ring and write_ring_cycled write one record, the batch several;   *)
(* each record is dropped, and ends the call, if the ring is full.         *)
BeginRecord(n) ==
  IF n = 0 \/ IsFull(read_pos, write_pos, RingSize)
    THEN /\ cpc' = "idle" /\ left' = 0 /\ index' = 0
         /\ UNCHANGED records
    ELSE /\ cpc' = "put" /\ left' = n - 1 /\ index' = 0
         /\ records' = records + 1

Write(n) ==
  /\ MayCall
  /\ records + n <= MaxRecords
  /\ Fill + n * RecLen <= MaxUnread
  /\ BeginRecord(n)
  /\ UNCHANGED <<ring, shared, run, whole, flush_ret, writer, transport>>

(* One put of the current record; what it returns is ignored. *)
PutByte ==
  /\ cpc = "put" /\ index < RecLen
  /\ index' = index + 1
  /\ IF IsFull(read_pos, write_pos, RingSize)
       THEN whole' = FALSE /\ UNCHANGED ring
       ELSE /\ buf' = [buf EXCEPT ![write_pos] = <<records, index + 1>>]
            /\ write_pos' = Advance(write_pos, RingSize)
            /\ UNCHANGED <<read_pos, whole>>
  /\ UNCHANGED <<shared, run, cpc, left, records, flush_ret, writer, transport>>

(* The record's bytes are offered: the next record, or the call returns. *)
NextRecord ==
  /\ cpc = "put" /\ index = RecLen
  /\ BeginRecord(left)
  /\ UNCHANGED <<ring, shared, run, whole, flush_ret, writer, transport>>

SetFlush ==
  /\ "set_flush" \in ClientOps
  /\ MayCall
  /\ flush' = TRUE /\ flush_done' = FALSE
  /\ UNCHANGED <<ring, run, client, writer, transport>>

(* reset() sends its command itself and asks for a flush without clearing  *)
(* flush_done.                                                             *)
ResetSids ==
  /\ "reset" \in ClientOps
  /\ MayCall
  /\ flush' = TRUE
  /\ UNCHANGED <<ring, flush_done, run, client, writer, transport>>

(* Mutant: the answer to an earlier flush is not cleared. *)
FlushBeginUncleared ==
  /\ "flush" \in ClientOps
  /\ MayCall
  /\ flush' = TRUE
  /\ cpc' = "flush_wait"
  /\ UNCHANGED <<ring, flush_done, run, left, index, whole, records, flush_ret, writer, transport>>

FlushBegin ==
  /\ "flush" \in ClientOps
  /\ MayCall
  /\ flush' = TRUE /\ flush_done' = FALSE
  /\ cpc' = "flush_wait"
  /\ UNCHANGED <<ring, run, left, index, whole, records, flush_ret, writer, transport>>

FlushReturn ==
  /\ cpc = "flush_wait"
  /\ flush_done
  /\ cpc' = "idle" /\ flush_ret' = "done"
  /\ UNCHANGED <<ring, shared, run, left, index, whole, records, writer, transport>>

FlushTimeout ==
  /\ FlushMayTimeOut
  /\ cpc = "flush_wait"
  /\ ~flush_done
  /\ cpc' = "idle" /\ flush_ret' = "timeout"
  /\ UNCHANGED <<ring, shared, run, left, index, whole, records, writer, transport>>

(* close(), disable_thread() and drop: stop_thread clears the run flag,    *)
(* joins the thread and reinitialises the ring.                            *)
Close ==
  /\ cpc = "idle"
  /\ run' = FALSE
  /\ cpc' = "joining"
  /\ UNCHANGED <<ring, shared, left, index, whole, records, flush_ret, writer, transport>>

Join ==
  /\ cpc = "joining"
  /\ wpc = "exited"
  /\ read_pos' = 0 /\ write_pos' = 0
  /\ cpc' = "closed"
  /\ UNCHANGED <<buf, shared, run, left, index, whole, records, flush_ret, writer, transport>>

(* The steps a call takes once it was made. *)
InCall == PutByte \/ NextRecord \/ FlushReturn \/ FlushTimeout \/ Join

Client ==
  \/ \E n \in 1 .. MaxBatch : Write(n)
  \/ SetFlush \/ ResetSids \/ FlushBegin \/ Close
  \/ InCall

----------------------------------------------------------------------------
(* The writer thread. *)

(* Mutant: the loop does not test the run flag. *)
CheckRunNever ==
  /\ wpc = "top"
  /\ wpc' = "lock"
  /\ UNCHANGED <<ring, shared, run, client, flushing, thread_buf, got, transport>>

(* The loop tests the run flag once a round, not while it drains. *)
CheckRun ==
  /\ wpc = "top"
  /\ wpc' = IF run THEN "lock" ELSE "exited"
  /\ UNCHANGED <<ring, shared, run, client, flushing, thread_buf, got, transport>>

(* With the mutex held: take the request, if any, and start the round. *)
TakeFlush ==
  /\ flushing' = flush
  /\ flush' = FALSE
  /\ wpc' = IF flush THEN "pre_flush" ELSE "test"
  /\ UNCHANGED <<ring, flush_done, run, client, thread_buf, got, transport>>

LockShared ==
  /\ wpc = "lock"
  /\ flush \/ HasData(read_pos, write_pos, DiffSize)
  /\ TakeFlush

StartWait ==
  /\ wpc = "lock"
  /\ ~flush /\ ~HasData(read_pos, write_pos, DiffSize)
  /\ wpc' = "wait"
  /\ UNCHANGED <<ring, shared, run, client, flushing, thread_buf, got, transport>>

(* Notified, timed out or spuriously awake: 1 ms or 100 us at most. *)
Wake == wpc = "wait" /\ TakeFlush

(* One send and, if it fails, one retry.  An Ok may stand for fewer bytes  *)
(* than asked (nobody reads the count), and a failed attempt may have      *)
(* reached the device all the same.                                        *)
Attempt == [ok : {TRUE}, reached : {"all", "part"}] \cup
           [ok : {FALSE}, reached : {"all", "none"}]

(* Mutant: a failing retry is not counted. *)
ErrorsOfFirst(first, retry) == IF first.ok THEN 0 ELSE 1

Errors(first, retry) == IF first.ok THEN 0 ELSE IF retry.ok THEN 1 ELSE 2

Mishaps(first, retry) ==
  LET made == IF first.ok THEN <<first>> ELSE <<first, retry>>
      All == {i \in DOMAIN made : made[i].reached = "all"}
  IN  {m \in {"lost", "twice", "short"} :
         CASE m = "lost"  -> All = {}
           [] m = "twice" -> All = {1, 2}
           [] m = "short" -> \E i \in DOMAIN made : made[i].reached = "part"}

(* Mutant: buffer_pos is not set back. *)
TransmitKeeping ==
  /\ packet' = thread_buf
  /\ \E first, retry \in Attempt :
       /\ writer_errors + Errors(first, retry) <= MaxErrors
       /\ writer_errors' = writer_errors + Errors(first, retry)
       /\ wire' = wire \cup Mishaps(first, retry)
  /\ UNCHANGED thread_buf

Transmit ==
  /\ packet' = thread_buf
  /\ thread_buf' = << >>
  /\ \E first, retry \in Attempt :
       /\ writer_errors + Errors(first, retry) <= MaxErrors
       /\ writer_errors' = writer_errors + Errors(first, retry)
       /\ wire' = wire \cup Mishaps(first, retry)

(* min_pos: is there a whole record in thread_buf? *)
HasPartialPacket == Len(thread_buf) >= RecLen

PreFlush ==
  /\ wpc = "pre_flush"
  /\ wpc' = "test"
  /\ IF HasPartialPacket THEN Transmit ELSE UNCHANGED <<thread_buf, transport>>
  /\ UNCHANGED <<ring, shared, run, client, flushing, got>>

(* The drain loop's condition. *)
TestRing ==
  /\ wpc = "test"
  /\ LET more == IF flushing THEN ~IsEmpty(read_pos, write_pos)
                             ELSE HasData(read_pos, write_pos, DiffSize)
     IN  wpc' = IF more THEN "get" ELSE IF flushing THEN "post_flush" ELSE "top"
  /\ UNCHANGED <<ring, shared, run, client, flushing, thread_buf, got, transport>>

BufferPos == 1 + Len(thread_buf)

(* Mutant: the packet's limit is not tested. *)
GetByteUnlimited ==
  /\ wpc = "get"
  /\ thread_buf' = Append(thread_buf, buf[read_pos])
  /\ read_pos' = Advance(read_pos, RingSize)
  /\ got' = (got + 1) % RecLen
  /\ wpc' = IF got' # 0 THEN "get" ELSE "test"
  /\ UNCHANGED <<buf, write_pos, shared, run, client, flushing, transport>>

(* One get of a record, none of which looks at write_pos. *)
GetByte ==
  /\ wpc = "get"
  /\ thread_buf' = Append(thread_buf, buf[read_pos])
  /\ read_pos' = Advance(read_pos, RingSize)
  /\ got' = (got + 1) % RecLen
  /\ wpc' = IF got' # 0 THEN "get"
            ELSE IF BufferPos' >= PacketLimit \/ BufferPos' >= LenOut THEN "send"
            ELSE "test"
  /\ UNCHANGED <<buf, write_pos, shared, run, client, flushing, transport>>

SendFull ==
  /\ wpc = "send"
  /\ Transmit
  /\ wpc' = "test"
  /\ UNCHANGED <<ring, shared, run, client, flushing, got>>

PostFlush ==
  /\ wpc = "post_flush"
  /\ wpc' = "answer"
  /\ IF HasPartialPacket THEN Transmit ELSE UNCHANGED <<thread_buf, transport>>
  /\ UNCHANGED <<ring, shared, run, client, flushing, got>>

(* Mutant: the round of a flush ends without an answer. *)
AnswerFlushSilently ==
  /\ wpc = "answer"
  /\ flushing' = FALSE
  /\ wpc' = "top"
  /\ UNCHANGED <<ring, shared, run, client, thread_buf, got, transport>>

AnswerFlush ==
  /\ wpc = "answer"
  /\ flush_done' = TRUE
  /\ flushing' = FALSE
  /\ wpc' = "top"
  /\ UNCHANGED <<ring, flush, run, client, thread_buf, got, transport>>

Writer ==
  \/ CheckRun \/ LockShared \/ StartWait \/ Wake \/ PreFlush \/ TestRing
  \/ GetByte \/ SendFull \/ PostFlush \/ AnswerFlush

(* Both have returned. *)
Finished == cpc = "closed" /\ wpc = "exited" /\ UNCHANGED vars

Next == Client \/ Writer \/ Finished

Spec == Init /\ [][Next]_vars

(* The operating system schedules both threads and a call that was made    *)
(* goes on; whether another call is made is the client's choice.           *)
FairSpec == Spec /\ WF_vars(Writer) /\ WF_vars(InCall)

----------------------------------------------------------------------------
(* The types that do not depend on which writer drains the ring. *)
CommonType ==
  /\ buf \in [0 .. RingSize - 1 -> Cell]
  /\ read_pos \in 0 .. RingSize - 1
  /\ write_pos \in 0 .. RingSize - 1
  /\ flush \in BOOLEAN /\ flush_done \in BOOLEAN /\ run \in BOOLEAN
  /\ cpc \in {"idle", "put", "flush_wait", "joining", "closed"}
  /\ left \in Nat /\ index \in 0 .. RecLen /\ whole \in BOOLEAN
  /\ records \in 0 .. MaxRecords
  /\ flush_ret \in {"none", "done", "timeout"}
  /\ flushing \in BOOLEAN
  /\ thread_buf \in Seq(Cell)
  /\ got \in 0 .. RecLen - 1
  /\ writer_errors \in 0 .. MaxErrors
  /\ packet \in Seq(Cell)
  /\ wire \subseteq {"lost", "twice", "short"}

TypeOK ==
  /\ CommonType
  /\ wpc \in {"top", "lock", "wait", "pre_flush", "test", "get", "send",
              "post_flush", "answer", "exited"}

(* thread_buf[buffer_pos] = ring.get() never indexes past thread_buf,      *)
(* which would end the writer thread with a panic; and every packet is a   *)
(* whole number of records that fits out_buf behind the header byte.       *)
PacketsFit ==
  /\ wpc = "get" => BufferPos < LenOut
  /\ Len(thread_buf) % RecLen = got
  /\ Len(packet) % RecLen = 0
  /\ Len(packet) < LenOut

(* get is only called for a byte that was put.                             *)
(* ringbuffer.rs:126-127, "the producer never writes to positions at or    *)
(* behind read_pos", rests on it, and so does every packet's content.      *)
NoUnderrun == wpc = "get" => ~IsEmpty(read_pos, write_pos)

(* A record that is offered to the ring is stored whole or not at all.     *)
WritesAreWhole == whole

(* The client the design works for: it keeps within the ring, calls nothing *)
(* while a flush is served, and sizes the ring in whole records.           *)
Disciplined ==
  /\ RingSize % RecLen = 0 /\ DiffSize + 1 >= RecLen
  /\ MaxUnread < RingSize /\ ~OverlapsFlush

LastRecord(bytes) == IF bytes = << >> THEN 0 ELSE bytes[Len(bytes)][1]

(* flush() is answered only when everything written before it was sent     *)
(* (device.rs:851, "block until the writer thread has drained the ring").  *)
FlushDrained ==
  cpc = "flush_wait" /\ flush_done => LastRecord(packet) = records

(* Whatever did not reach the device, or reached it twice, was counted as  *)
(* a send error or reported as a short transfer: with the retry, it takes  *)
(* two errors to lose a packet.                                            *)
LossIsCounted ==
  /\ "lost" \in wire => "short" \in wire \/ writer_errors >= 2
  /\ "twice" \in wire => writer_errors >= 1

(* The i-th byte after the m-th record. *)
ByteOf(m, i) == <<m + 1 + ((i - 1) \div RecLen), 1 + ((i - 1) % RecLen)>>

(* Bytes the client's puts have stored, if none was refused. *)
Stored == IF cpc = "put" THEN (records - 1) * RecLen + index ELSE records * RecLen

(* The record of which the client's put calls are under way is not yet     *)
(* accepted.                                                               *)
Accepted == IF cpc = "put" /\ index < RecLen THEN records - 1 ELSE records

Pipe == INSTANCE RecordPipe WITH
  accepted <- Accepted,
  sent <- LastRecord(packet),
  waiting <- cpc = "flush_wait",
  answer <- flush_ret,
  open <- wpc # "exited"

(* The two threads and the ring implement a pipe of records: what is       *)
(* written goes out once, whole and in order, and a flush is answered when *)
(* all of it has gone out.                                                 *)
ImplementsPipe == Pipe!PipeSpec

(* A flush is answered by the writer, not only by the client's timeout.    *)
FlushAnswered == cpc = "flush_wait" ~> cpc = "idle"

(* close(), disable_thread() and drop return.                              *)
CloseTerminates == cpc = "joining" ~> cpc = "closed"

(* What exceeds the threshold is drained without a flush (device.rs:14,    *)
(* "a background thread drains it").                                       *)
DrainsAboveThreshold ==
  Fill > DiffSize ~> Fill <= DiffSize
=============================================================================
