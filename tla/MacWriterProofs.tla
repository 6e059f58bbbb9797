--------------------------- MODULE MacWriterProofs ---------------------------
(***************************************************************************)
(* The macOS writer, its I/O thread and the channel between them.          *)
(*                                                                         *)
(* For every client: the types hold, nothing indexes past its buffer, all  *)
(* that is queued is whole records (BufferLevels says how full thread_buf  *)
(* may be where, as BufferInv does for writer_thread_default), no loss     *)
(* goes uncounted, and the I/O thread is gone before the transport is      *)
(* (Stops follows the order in which the two threads end).                 *)
(*                                                                         *)
(* For a disciplined client: PipeInv of WriterPipeProofs holds with the    *)
(* last record that left thread_buf as its base, and from there to the     *)
(* transport each buffer continues where the one before it ends (Linked).  *)
(***************************************************************************)
EXTENDS MacWriter, WriterPipeProofs

BufferLevels ==
  /\ wpc # "get" => got = 0
  /\ BufferPos - got < PacketLimit \/ wpc = "packet"
  /\ BufferPos <= LenOut
  /\ wpc = "packet" => thread_buf # << >>
  /\ Len(mega_buf) % RecLen = 0 /\ Len(item) % RecLen = 0
  /\ item # << >> <=> iopc = "send"
  /\ iopc \in {"none", "exited"} => channel = << >>

Stops ==
  /\ run => wpc \notin {"join_io", "exited"} /\ iopc # "exited"
  /\ wpc = "exited" => iopc \in {"none", "exited"}
  /\ cpc = "closed" => wpc = "exited"

MacInv == MacTypeOK /\ MacPacketsFit /\ LossIsCounted /\ CallInv /\ BufferLevels /\ Stops

----------------------------------------------------------------------------
(* Two buffers of whole records joined. *)
LEMMA JoinWhole ==
  ASSUME NEW s \in Seq(Cell), NEW t \in Seq(Cell),
         Len(s) % RecLen = 0, Len(t) % RecLen = 0
  PROVE  /\ s \o t \in Seq(Cell) /\ Len(s \o t) = Len(s) + Len(t)
         /\ Len(s \o t) % RecLen = 0
<1>1. RecLen \in Nat \ {0} /\ Len(s) \in Nat /\ Len(t) \in Nat
  BY WriterAssumption, LenProperties
<1>2. s \o t \in Seq(Cell) /\ Len(s \o t) = Len(s) + Len(t)
  BY ConcatProperties
<1>3. PICK p \in Nat : Len(s) = p * RecLen
  BY <1>1, Multiple
<1>4. PICK q \in Nat : Len(t) = q * RecLen
  BY <1>1, Multiple
<1>5. Len(s) + Len(t) = (p + q) * RecLen + 0
  <2>1. (p + q) * RecLen = p * RecLen + q * RecLen /\ (p + q) * RecLen \in Int
    BY <1>1, Linear
  <2>2. (p + q) * RecLen + 0 = (p + q) * RecLen
    BY <2>1
  <2> QED BY <1>3, <1>4, <2>1, <2>2, Zenon
<1>6. ((p + q) * RecLen + 0) % RecLen = 0
  <2>1. 0 \in 0 .. RecLen - 1 /\ p + q \in Int
    BY <1>1
  <2> QED BY <1>1, <2>1, DivMod, Zenon
<1>7. Len(s \o t) % RecLen = 0
  BY <1>2, <1>5, <1>6, Zenon
<1> QED BY <1>2, <1>7

(* What the channel holds after a buffer was queued. *)
LEMMA Enqueued ==
  ASSUME MacInv, NEW b \in Seq(Cell), b # << >>, Len(b) % RecLen = 0, Enqueue(b)
  PROVE  /\ channel' \in Seq(Seq(Cell))
         /\ \A i \in DOMAIN channel' : channel'[i] # << >> /\ Len(channel'[i]) % RecLen = 0
         /\ iopc \in {"none", "exited"} => channel' = << >>
<1>1. channel \in Seq(Seq(Cell))
      /\ \A i \in DOMAIN channel : channel[i] # << >> /\ Len(channel[i]) % RecLen = 0
  BY DEF MacInv, MacTypeOK, MacPacketsFit
<1>2. CASE iopc \in {"none", "exited"}
  BY <1>1, <1>2 DEF Enqueue, MacInv, BufferLevels
<1>3. CASE iopc \notin {"none", "exited"}
  <2>1. channel' = Append(channel, b)
    BY <1>3 DEF Enqueue
  <2>2. channel' \in Seq(Seq(Cell)) /\ Len(channel') = Len(channel) + 1
    BY <1>1, <2>1, AppendProperties
  <2>3. \A i \in 1 .. Len(channel) : channel'[i] = channel[i]
    BY <1>1, <2>1, AppendProperties
  <2>4. channel'[Len(channel) + 1] = b
    BY <1>1, <2>1, AppendProperties
  <2>5. DOMAIN channel' = 1 .. Len(channel) + 1 /\ DOMAIN channel = 1 .. Len(channel)
        /\ Len(channel) \in Nat
    BY <1>1, <2>2, LenProperties
  <2>6. \A i \in DOMAIN channel' : channel'[i] # << >> /\ Len(channel'[i]) % RecLen = 0
    <3>1. SUFFICES ASSUME NEW i \in 1 .. Len(channel) + 1
                   PROVE  channel'[i] # << >> /\ Len(channel'[i]) % RecLen = 0
      BY <2>5
    <3>2. CASE i = Len(channel) + 1
      BY <2>4, <3>2
    <3>3. CASE i # Len(channel) + 1
      <4>1. i \in DOMAIN channel
        BY <2>5, <3>3
      <4> QED BY <1>1, <2>3, <2>5, <4>1
    <3> QED BY <3>2, <3>3
  <2> QED BY <1>3, <2>2, <2>6
<1> QED BY <1>2, <1>3

----------------------------------------------------------------------------
LEMMA InitMac == MacInit => MacInv
<1> SUFFICES ASSUME MacInit PROVE MacInv
  OBVIOUS
<1>1. IInv /\ Init
  BY InitIInv DEF MacInit
<1>2. << >> \in Seq(Cell) /\ << >> \in Seq(Seq(Cell)) /\ Len(<< >>) = 0 /\ DOMAIN << >> = {}
  OBVIOUS
<1>3. 0 % RecLen = 0
  BY ModSucc, WriterAssumption
<1>4. MacTypeOK
  BY <1>1, <1>2 DEF IInv, TypeOK, Init, MacInit, MacTypeOK
<1>5. MacPacketsFit /\ LossIsCounted /\ CallInv
  BY <1>1, <1>2 DEF IInv, PacketsFit, Init, MacInit, MacPacketsFit
<1>6. BufferLevels /\ Stops
  BY <1>1, <1>2, <1>3 DEF IInv, BufferInv, Init, MacInit, BufferLevels, Stops
<1> QED BY <1>4, <1>5, <1>6 DEF MacInv

(* What no call of the client touches. *)
LEMMA ClientLeaves ==
  ASSUME Client
  PROVE  /\ UNCHANGED <<writer, transport>>
         /\ run' => run
         /\ cpc' = "closed" => cpc = "closed" \/ wpc = "exited"
BY DEF Client, InCall, Write, BeginRecord, PutByte, NextRecord, SetFlush, ResetSids, FlushBegin,
       FlushReturn, FlushTimeout, Close, Join, client

LEMMA MacClient ==
  ASSUME MacInv, ClientStep
  PROVE  MacInv'
<1>1. /\ UNCHANGED <<writer, transport, mega_buf, channel, io>> /\ (run' => run)
      /\ (cpc' = "closed" => cpc = "closed" \/ wpc = "exited")
  BY ClientLeaves DEF ClientStep
<1>2. CommonType' /\ CallInv'
  BY ClientType DEF ClientStep, MacInv, MacTypeOK
<1>3. MacTypeOK'
  BY <1>1, <1>2 DEF MacInv, MacTypeOK, writer, io
<1>4. MacPacketsFit' /\ LossIsCounted'
  BY <1>1 DEF MacInv, MacPacketsFit, LossIsCounted, BufferPos, writer, transport
<1>5. BufferLevels' /\ Stops'
  BY <1>1 DEF MacInv, BufferLevels, Stops, BufferPos, writer, io
<1> QED BY <1>2, <1>3, <1>4, <1>5 DEF MacInv

(* A step of the writer that moves no byte. *)
LEMMA MacQuiet ==
  ASSUME MacInv, wpc \notin {"get", "packet", "exited"},
         wpc' \in {"top", "lock", "wait", "pre_flush", "test", "get", "post_flush", "answer",
                   "join_io", "exited"},
         run => wpc' \notin {"join_io", "exited"},
         wpc' = "exited" => iopc \in {"none", "exited"},
         flush' \in BOOLEAN, flush_done' \in BOOLEAN, flushing' \in BOOLEAN,
         UNCHANGED <<ring, run, client, thread_buf, got, transport, mega_buf, channel, io>>
  PROVE  MacInv'
<1> USE DEF MacInv, ring, client, transport, io
<1>1. MacTypeOK'
  BY DEF MacTypeOK, CommonType
<1>2. BufferLevels'
  BY DEF BufferLevels, BufferPos
<1>3. MacPacketsFit'
  <2>1. got = 0 /\ BufferPos < PacketLimit /\ BufferPos' = BufferPos
    BY DEF BufferLevels, MacTypeOK, CommonType, BufferPos
  <2>2. BufferPos' < LenOut
    BY <2>1, WriterAssumption DEF BufferPos, MacTypeOK, CommonType
  <2> QED BY <2>2 DEF MacPacketsFit
<1>4. LossIsCounted' /\ CallInv' /\ Stops'
  BY DEF LossIsCounted, CallInv, Stops
<1> QED BY <1>1, <1>2, <1>3, <1>4

(* The writer's steps that take, pass on and queue bytes. *)
LEMMA MacBytes ==
  ASSUME MacInv, MacGetByte \/ GatherPartial \/ EndPacket \/ QueueMega
  PROVE  MacInv'
<1> USE DEF MacInv
<1>1. /\ thread_buf \in Seq(Cell) /\ mega_buf \in Seq(Cell) /\ channel \in Seq(Seq(Cell))
      /\ << >> \in Seq(Cell) /\ Len(<< >>) = 0 /\ 0 % RecLen = 0 /\ Len(thread_buf) \in Nat
  BY ModSucc, LenProperties, WriterAssumption DEF MacTypeOK, CommonType
<1>2. CASE MacGetByte
  <2>1. /\ wpc = "get" /\ wpc' = IF got' # 0 THEN "get" ELSE "packet"
        /\ thread_buf' = Append(thread_buf, buf[read_pos])
        /\ UNCHANGED <<buf, write_pos, shared, run, client, flushing, transport>>
        /\ UNCHANGED <<mega_buf, channel, io>>
    BY <1>2 DEF MacGetByte
  <2>2. /\ CommonType /\ Len(thread_buf) % RecLen = got
        /\ BufferPos - got < PacketLimit /\ BufferPos < LenOut
    BY <2>1 DEF MacTypeOK, MacPacketsFit, BufferLevels
  <2>3. /\ CommonType'
        /\ Len(thread_buf') % RecLen = got'
        /\ BufferPos' = BufferPos + 1 /\ BufferPos \in Nat
        /\ got' # 0 => BufferPos' < LenOut /\ BufferPos' - got' < PacketLimit
        /\ BufferPos' <= LenOut
    BY <1>2, <2>2, GetFacts DEF MacGetByte
  <2>4. thread_buf' # << >>
    <3>1. Len(thread_buf') = Len(thread_buf) + 1 /\ Len(thread_buf) \in Nat
      BY <2>3 DEF BufferPos
    <3> QED BY <1>1, <3>1
  <2>5. MacTypeOK' /\ LossIsCounted' /\ CallInv' /\ Stops'
    BY <2>1, <2>3 DEF MacTypeOK, LossIsCounted, CallInv, Stops, client, transport, io
  <2>6. BufferLevels'
    BY <2>1, <2>3, <2>4 DEF BufferLevels, io
  <2>7. MacPacketsFit'
    BY <2>1, <2>3 DEF MacPacketsFit
  <2> QED BY <2>5, <2>6, <2>7
<1>3. CASE GatherPartial \/ EndPacket \/ QueueMega
  <2>1. /\ wpc \in {"pre_flush", "packet", "post_flush"} /\ wpc' \in {"test", "answer"}
        /\ UNCHANGED <<ring, shared, run, client, flushing, got, transport, io>>
        /\ got = 0 /\ Len(thread_buf) % RecLen = 0
    BY <1>3 DEF GatherPartial, EndPacket, QueueMega, BufferLevels, MacPacketsFit
  <2>2. /\ thread_buf' \in Seq(Cell) /\ Len(thread_buf') % RecLen = 0
        /\ BufferPos' < PacketLimit /\ BufferPos' \in Nat
    <3>1. CASE thread_buf' = << >>
      BY <1>1, <3>1, WriterAssumption DEF BufferPos
    <3>2. CASE thread_buf' = thread_buf /\ (wpc = "packet" => ~PacketComplete)
      <4>1. BufferPos < PacketLimit
        BY <1>1, <2>1, <3>2, WriterAssumption DEF PacketComplete, BufferLevels, BufferPos
      <4> QED BY <1>1, <2>1, <3>2, <4>1 DEF BufferPos
    <3> QED BY <1>3, <2>1, <3>1, <3>2 DEF GatherPartial, EndPacket, QueueMega
  <2>3. mega_buf' \in Seq(Cell) /\ Len(mega_buf') % RecLen = 0
    <3>1. Len(mega_buf) % RecLen = 0
      BY DEF BufferLevels
    <3>2. mega_buf \o thread_buf \in Seq(Cell) /\ Len(mega_buf \o thread_buf) % RecLen = 0
      BY <1>1, <2>1, <3>1, JoinWhole
    <3> QED BY <1>1, <1>3, <2>1, <3>1, <3>2 DEF GatherPartial, EndPacket, QueueMega
  <2>4. /\ channel' \in Seq(Seq(Cell))
        /\ \A i \in DOMAIN channel' : channel'[i] # << >> /\ Len(channel'[i]) % RecLen = 0
        /\ iopc \in {"none", "exited"} => channel' = << >>
    <3>1. CASE UNCHANGED channel
      BY <3>1 DEF MacTypeOK, MacPacketsFit, BufferLevels
    <3>2. CASE EndPacket /\ Enqueue(thread_buf)
      BY <1>1, <2>1, <3>2, Enqueued DEF EndPacket, BufferLevels
    <3>3. CASE mega_buf # << >> /\ Enqueue(mega_buf)
      BY <1>1, <3>3, Enqueued DEF BufferLevels
    <3> QED BY <1>3, <3>1, <3>2, <3>3 DEF GatherPartial, EndPacket, QueueMega
  <2>5. MacTypeOK'
    <3>1. UNCHANGED <<got, writer_errors, packet, wire, item, iopc>> /\ CommonType
      BY <2>1 DEF MacTypeOK, transport, io
    <3>2. CommonType'
      BY <2>1, <2>2, <3>1, CommonKept DEF CommonType
    <3> QED BY <2>1, <2>3, <2>4, <3>1, <3>2 DEF MacTypeOK
  <2>6. LossIsCounted' /\ CallInv' /\ Stops'
    BY <2>1 DEF LossIsCounted, CallInv, Stops, client, transport, io
  <2>7. BufferLevels'
    <3>1. BufferPos' - got' < PacketLimit /\ BufferPos' <= LenOut /\ got' = 0
      <4>1. got' = 0
        BY <2>1
      <4>2. PacketLimit \in Nat /\ LenOut \in Nat /\ RecLen \in Nat \ {0} /\ PacketLimit + RecLen <= LenOut + 1
        BY WriterAssumption
      <4>3. BufferPos' \in Nat /\ BufferPos' < PacketLimit
        BY <2>2
      <4>4. BufferPos' <= LenOut
        BY <4>2, <4>3
      <4>5. BufferPos' - got' = BufferPos'
        <5>1. \A x \in Nat : x - 0 = x
          OBVIOUS
        <5> QED BY <4>1, <4>3, <5>1, Zenon
      <4> QED BY <4>1, <4>3, <4>4, <4>5, Zenon
    <3>2. wpc' # "packet" /\ UNCHANGED <<item, iopc>>
      BY <2>1 DEF io
    <3> QED BY <2>3, <2>4, <3>1, <3>2 DEF BufferLevels
  <2>8. MacPacketsFit'
    BY <2>1, <2>2, <2>4 DEF MacPacketsFit
  <2> QED BY <2>5, <2>6, <2>7, <2>8
<1> QED BY <1>2, <1>3

LEMMA MacWriterKeeps ==
  ASSUME MacInv, MacWriterStep
  PROVE  MacInv'
<1> USE DEF shared
<1>1. flush \in BOOLEAN /\ flush_done \in BOOLEAN /\ flushing \in BOOLEAN
  BY DEF MacInv, MacTypeOK, CommonType
<1>2. CASE MacCheckRun
  BY <1>1, <1>2, MacQuiet DEF MacCheckRun
<1>3. CASE JoinIo
  BY <1>1, <1>3, MacQuiet DEF JoinIo, MacInv, Stops
<1>4. CASE SameAsDefault
  <2>1. UNCHANGED <<mega_buf, channel, io>>
    BY <1>4 DEF SameAsDefault
  <2>2. CASE LockShared \/ Wake
    BY <1>1, <2>1, <2>2, MacQuiet DEF LockShared, Wake, TakeFlush
  <2>3. CASE StartWait \/ TestRing \/ AnswerFlush
    BY <1>1, <2>1, <2>3, MacQuiet DEF StartWait, TestRing, AnswerFlush
  <2> QED BY <1>4, <2>2, <2>3 DEF SameAsDefault
<1> QED BY <1>2, <1>3, <1>4, MacBytes DEF MacWriterStep

(* The I/O thread's steps. *)
LEMMA MacIo ==
  ASSUME MacInv, IoThread
  PROVE  MacInv'
<1> USE DEF MacInv
<1>1. << >> \in Seq(Cell) /\ Len(<< >>) = 0 /\ 0 % RecLen = 0 /\ << >> \in Seq(Seq(Cell)) /\ DOMAIN << >> = {}
  BY ModSucc, WriterAssumption
<1>2. CASE IoSend
  <2>1. PICK first \in Attempt, retry \in Attempt :
          /\ writer_errors + Errors(first, retry) <= MaxErrors
          /\ writer_errors' = writer_errors + Errors(first, retry)
          /\ wire' = wire \cup Mishaps(first, retry)
    BY <1>2 DEF IoSend
  <2>2. /\ writer_errors' \in 0 .. MaxErrors
        /\ wire' \subseteq {"lost", "twice", "short"}
        /\ LossIsCounted'
    BY <2>1, AttemptCounted DEF MacTypeOK
  <2>3. MacTypeOK'
    <3>1. /\ UNCHANGED <<ring, shared, run, client, writer, mega_buf, channel>>
          /\ packet' \in {packet, item} /\ item' = << >> /\ iopc' = "recv"
      BY <1>2 DEF IoSend
    <3>2. CommonType'
      BY <2>2, <3>1, CommonKept DEF MacTypeOK, CommonType, writer
    <3> QED BY <1>1, <3>1, <3>2 DEF MacTypeOK, writer
  <2>4. MacPacketsFit' /\ CallInv' /\ Stops' /\ BufferLevels'
    BY <1>1, <1>2 DEF IoSend, MacPacketsFit, CallInv, Stops, BufferLevels, BufferPos, client, writer
  <2> QED BY <2>2, <2>3, <2>4
<1>3. CASE IoReceive \/ IoDisconnected
  <2>1. UNCHANGED <<vars, mega_buf>> /\ iopc = "recv"
    BY <1>3 DEF IoReceive, IoDisconnected
  <2>2. /\ channel' \in Seq(Seq(Cell)) /\ item' \in Seq(Cell) /\ iopc' \in {"send", "exited"}
        /\ \A i \in DOMAIN channel' : channel'[i] # << >> /\ Len(channel'[i]) % RecLen = 0
        /\ Len(item') % RecLen = 0 /\ (item' # << >> <=> iopc' = "send")
        /\ iopc' = "exited" => channel' = << >> /\ ~run
    <3>1. /\ channel \in Seq(Seq(Cell)) /\ item = << >>
          /\ \A i \in DOMAIN channel : channel[i] # << >> /\ Len(channel[i]) % RecLen = 0
      BY <2>1 DEF MacTypeOK, MacPacketsFit, BufferLevels
    <3>2. CASE IoReceive /\ run
      <4>1. item' = Head(channel) /\ channel' = Tail(channel) /\ channel # << >> /\ iopc' = "send"
        BY <3>2 DEF IoReceive
      <4>2. /\ Len(channel) \in Nat \ {0} /\ DOMAIN channel = 1 .. Len(channel)
        BY <3>1, <4>1, EmptySeq, LenProperties
      <4>3. item' = channel[1] /\ channel[1] \in Seq(Cell)
        BY <3>1, <4>1, <4>2, ElementOfSeq, HeadTailProperties
      <4>4. /\ channel' \in Seq(Seq(Cell)) /\ Len(channel') = Len(channel) - 1
            /\ \A i \in 1 .. Len(channel) - 1 : channel'[i] = channel[i + 1]
        BY <3>1, <4>1, HeadTailProperties
      <4>5. DOMAIN channel' = 1 .. Len(channel) - 1
        BY <4>4, LenProperties
      <4>6. \A i \in 1 .. Len(channel) - 1 : i + 1 \in DOMAIN channel
        BY <4>2
      <4>7. \A i \in DOMAIN channel' : channel'[i] # << >> /\ Len(channel'[i]) % RecLen = 0
        BY <3>1, <4>4, <4>5, <4>6
      <4>8. 1 \in DOMAIN channel
        BY <4>2
      <4> QED BY <3>1, <4>1, <4>3, <4>4, <4>7, <4>8
    <3>3. CASE IoReceive /\ ~run
      BY <1>1, <3>1, <3>3 DEF IoReceive
    <3>4. CASE IoDisconnected
      BY <1>1, <3>1, <3>4 DEF IoDisconnected, Stops
    <3> QED BY <1>3, <3>2, <3>3, <3>4
  <2>3. MacTypeOK' /\ LossIsCounted' /\ CallInv'
    <3>1. UNCHANGED <<ring, shared, run, client, writer, transport, mega_buf>>
      BY <2>1 DEF vars
    <3>2. CommonType'
      BY <3>1, CommonKept DEF MacTypeOK, CommonType, writer, transport
    <3>3. MacTypeOK'
      BY <2>2, <3>1, <3>2 DEF MacTypeOK, writer
    <3> QED BY <3>1, <3>3 DEF LossIsCounted, CallInv, client, writer, transport
  <2>4. MacPacketsFit' /\ Stops' /\ BufferLevels'
    BY <2>1, <2>2 DEF MacPacketsFit, Stops, BufferLevels, BufferPos, vars, client, writer
  <2> QED BY <2>3, <2>4
<1> QED BY <1>2, <1>3 DEF IoThread

LEMMA MacNextKeeps == MacInv /\ [MacNext]_macvars => MacInv'
<1> SUFFICES ASSUME MacInv, [MacNext]_macvars PROVE MacInv'
  OBVIOUS
<1>1. CASE UNCHANGED macvars
  <2>1. UNCHANGED <<ring, shared, run, client, writer, transport, mega_buf, channel, item, iopc>>
    BY <1>1 DEF macvars, vars, io
  <2>2. CommonType'
    BY <2>1, CommonKept DEF MacInv, MacTypeOK, CommonType, writer, transport
  <2>3. MacTypeOK'
    BY <2>1, <2>2 DEF MacInv, MacTypeOK, writer
  <2> QED BY <2>1, <2>3 DEF MacInv, MacPacketsFit, LossIsCounted, CallInv, BufferLevels, Stops,
                           BufferPos, client, writer, transport
<1> QED BY <1>1, MacClient, MacWriterKeeps, MacIo DEF MacNext, MacFinished

LEMMA MacInductive == MacSpec => []MacInv
BY InitMac, MacNextKeeps, PTL DEF MacSpec

(* Every state that threads can be in has its types, for every client of   *)
(* the macOS writer.                                                       *)
THEOREM MacTypeCorrect == MacSpec => []MacTypeOK
<1>1. MacInv => MacTypeOK
  BY DEF MacInv
<1> QED BY <1>1, MacInductive, PTL

(* The macOS writer never indexes past its packet, and queues only whole   *)
(* records, for every client and every interleaving of the three threads.  *)
THEOREM MacFramingCorrect == MacSpec => []MacPacketsFit
<1>1. MacInv => MacPacketsFit
  BY DEF MacInv
<1> QED BY <1>1, MacInductive, PTL

(* No buffer is lost or sent twice by the I/O thread without the error     *)
(* counter or a short transfer telling.                                    *)
THEOREM MacLossCounted == MacSpec => []LossIsCounted
<1>1. MacInv => LossIsCounted
  BY DEF MacInv
<1> QED BY <1>1, MacInductive, PTL

(* When close() has joined the writer thread the I/O thread is gone too:   *)
(* nothing touches the transport that is closed next.                      *)
THEOREM QuietAfterClose == MacSpec => []QuietWhenClosed
<1>1. MacInv => QuietWhenClosed
  BY DEF MacInv, Stops, QuietWhenClosed
<1> QED BY <1>1, MacInductive, PTL

----------------------------------------------------------------------------
(* A disciplined client: what lies between thread_buf and the transport. *)
Alive == iopc \in {"recv", "send"}

MegaInv ==
  /\ mega_buf # << >> => flushing /\ wpc \in {"test", "get", "packet", "post_flush"}
  /\ flushing /\ Fill = 0 /\ wpc = "test" => thread_buf = << >>
  /\ wpc = "post_flush" => thread_buf = << >>
  /\ cpc = "flush_wait" /\ flush_done => mega_buf = << >>
  /\ wpc = "join_io" => ~flushing

ChannelLinked ==
  \A i \in DOMAIN channel :
    /\ Continues(channel[i], IF i = 1 THEN Received ELSE LastRecord(channel[i - 1]))
    /\ LastRecord(channel[i]) <= Accepted

Linked ==
  Alive => /\ Continues(item, LastRecord(packet))
           /\ item # << >> => LastRecord(item) <= Accepted
           /\ ChannelLinked
           /\ Continues(mega_buf, HandedOver)
           /\ mega_buf # << >> => LastRecord(mega_buf) <= Accepted

(* Without an I/O thread base is still there, though nothing shows it. *)
MacPipeInv(base) ==
  /\ PipeInv(base) /\ MegaInv /\ Linked
  /\ Alive => base = Gathered

LEMMA MacShape == MacInv => Shape
BY DEF MacInv, MacTypeOK, MacPacketsFit, BufferLevels, Shape

(* A buffer of n whole records that continues record m ends with m + n. *)
LEMMA LastOf ==
  ASSUME NEW s \in Seq(Cell), NEW m \in Nat, NEW n \in Nat \ {0}, Len(s) = n * RecLen,
         Continues(s, m)
  PROVE  LastRecord(s) = m + n
<1>1. RecLen \in Nat \ {0} /\ Len(s) \in Nat /\ DOMAIN s = 1 .. Len(s)
  BY WriterAssumption, LenProperties
<1>2. n * RecLen = (n - 1) * RecLen + (RecLen - 1) + 1 /\ (n - 1) * RecLen \in Nat
  BY <1>1
<1>3. Len(s) = (n - 1) * RecLen + (RecLen - 1) + 1 /\ Len(s) >= 1
  BY <1>1, <1>2
<1>4. s[Len(s)] = ByteOf(m, Len(s)) /\ s # << >>
  BY <1>1, <1>3, EmptySeq DEF Continues
<1>5. n - 1 \in Int /\ m \in Int /\ RecLen - 1 \in 0 .. RecLen - 1
  BY <1>1
<1>6. ByteOf(m, (n - 1) * RecLen + (RecLen - 1) + 1) = <<m + 1 + (n - 1), RecLen - 1 + 1>>
  BY <1>5, ByteNumber, Zenon
<1>7. s[Len(s)] = <<m + 1 + (n - 1), RecLen - 1 + 1>>
  BY <1>3, <1>4, <1>6, Zenon
<1> QED BY <1>4, <1>7 DEF LastRecord

(* Whole records come in a number. *)
LEMMA Records ==
  ASSUME NEW s \in Seq(Cell), s # << >>, Len(s) % RecLen = 0
  PROVE  \E n \in Nat \ {0} : Len(s) = n * RecLen
<1>1. Len(s) \in Nat \ {0} /\ RecLen \in Nat \ {0}
  BY EmptySeq, WriterAssumption
<1>2. Len(s) \div RecLen \in Nat /\ Len(s) \div RecLen >= 1 /\ Len(s) = (Len(s) \div RecLen) * RecLen
  BY <1>1, Multiple
<1> QED BY <1>2

(* Joining two buffers, the second of which continues the first. *)
LEMMA JoinLinked ==
  ASSUME NEW s \in Seq(Cell), NEW t \in Seq(Cell), NEW m \in Nat, NEW b \in Nat,
         Len(s) % RecLen = 0, t # << >>,
         Continues(s, m), Continues(t, b), b = IF s = << >> THEN m ELSE LastRecord(s)
  PROVE  /\ Continues(s \o t, m) /\ s \o t # << >>
         /\ LastRecord(s \o t) = LastRecord(t)
<1>1. /\ s \o t \in Seq(Cell) /\ Len(s \o t) = Len(s) + Len(t)
      /\ \A i \in 1 .. Len(s) + Len(t) :
           (s \o t)[i] = IF i <= Len(s) THEN s[i] ELSE t[i - Len(s)]
  BY ConcatProperties
<1>2. /\ Len(s) \in Nat /\ Len(t) \in Nat \ {0} /\ RecLen \in Nat \ {0}
      /\ DOMAIN s = 1 .. Len(s) /\ DOMAIN t = 1 .. Len(t)
      /\ DOMAIN (s \o t) = 1 .. Len(s) + Len(t)
  BY <1>1, LenProperties, EmptySeq, WriterAssumption
<1>3. PICK n \in Nat : Len(s) = n * RecLen /\ b = m + n
  <2>1. CASE s = << >>
    <3>1. Len(s) = 0 * RecLen /\ b = m + 0
      BY <1>2, <2>1
    <3> QED BY <3>1
  <2>2. CASE s # << >>
    <3>1. PICK n \in Nat \ {0} : Len(s) = n * RecLen
      BY <2>2, Records
    <3>2. b = m + n
      BY <2>2, <3>1, LastOf
    <3> QED BY <3>1, <3>2
  <2> QED BY <2>1, <2>2
<1>4. ASSUME NEW i \in 1 .. Len(s) + Len(t) PROVE (s \o t)[i] = ByteOf(m, i)
  <2>1. CASE i <= Len(s)
    BY <1>1, <1>2, <2>1 DEF Continues
  <2>2. CASE ~(i <= Len(s))
    <3>1. i - Len(s) \in 1 .. Len(t) /\ (s \o t)[i] = t[i - Len(s)]
      BY <1>1, <1>2, <2>2
    <3>2. t[i - Len(s)] = ByteOf(b, i - Len(s))
      BY <1>2, <3>1 DEF Continues
    <3>3. m \in Int /\ n \in Int /\ i - Len(s) \in Int /\ n * RecLen \in Int
          /\ Len(s) + (i - Len(s)) = i
      BY <1>2
    <3>4. ByteOf(m + n, i - Len(s)) = ByteOf(m, n * RecLen + (i - Len(s)))
      BY <3>3, ByteShift, Zenon
    <3>5. n * RecLen + (i - Len(s)) = i
      BY <1>3, <3>3, Zenon
    <3> QED BY <1>3, <3>1, <3>2, <3>4, <3>5, Zenon
  <2> QED BY <2>1, <2>2
<1>5. Len(s) + Len(t) \in 1 .. Len(s) + Len(t) /\ Len(s) + Len(t) - Len(s) = Len(t)
      /\ ~(Len(s) + Len(t) <= Len(s))
  BY <1>2
<1>6. s \o t # << >>
  BY <1>1, <1>2, EmptySeq
<1>7. (s \o t)[Len(s \o t)] = t[Len(t)]
  BY <1>1, <1>5
<1> QED BY <1>2, <1>4, <1>6, <1>7 DEF Continues, LastRecord

(* Queueing a buffer that continues what was handed over. *)
LEMMA QueueLinks ==
  ASSUME MacInv, Alive, ChannelLinked, NEW b \in Seq(Cell), b # << >>, Enqueue(b),
         Continues(b, HandedOver), LastRecord(b) <= Accepted,
         UNCHANGED <<client, item, packet>>
  PROVE  ChannelLinked' /\ HandedOver' = LastRecord(b)
<1>1. /\ channel' = Append(channel, b) /\ channel \in Seq(Seq(Cell))
      /\ Received' = Received /\ Accepted' = Accepted
  BY DEF Enqueue, Alive, MacInv, MacTypeOK, Received, Accepted, client, LastRecord
<1>2. /\ Len(channel') = Len(channel) + 1 /\ Len(channel) \in Nat
      /\ DOMAIN channel' = 1 .. Len(channel) + 1 /\ DOMAIN channel = 1 .. Len(channel)
      /\ channel'[Len(channel) + 1] = b
      /\ \A i \in 1 .. Len(channel) : channel'[i] = channel[i]
      /\ channel' # << >> /\ (channel = << >> <=> Len(channel) = 0)
  <2>1. channel' \in Seq(Seq(Cell)) /\ Len(channel') = Len(channel) + 1
        /\ channel'[Len(channel) + 1] = b
        /\ \A i \in 1 .. Len(channel) : channel'[i] = channel[i]
    BY <1>1, AppendProperties
  <2>2. Len(channel) \in Nat /\ DOMAIN channel' = 1 .. Len(channel') /\ DOMAIN channel = 1 .. Len(channel)
    BY <1>1, <2>1, LenProperties
  <2>3. channel = << >> <=> Len(channel) = 0
    BY <1>1, EmptySeq
  <2>4. channel' # << >>
    BY <2>1, <2>2, EmptySeq
  <2> QED BY <2>1, <2>2, <2>3, <2>4
<1>3. HandedOver = IF Len(channel) + 1 = 1 THEN Received ELSE LastRecord(channel[Len(channel)])
  BY <1>2 DEF HandedOver
<1>4. HandedOver' = LastRecord(b)
  BY <1>2 DEF HandedOver, LastRecord
<1>5. ASSUME NEW i \in 1 .. Len(channel) + 1
      PROVE  /\ Continues(channel'[i], IF i = 1 THEN Received ELSE LastRecord(channel'[i - 1]))
             /\ LastRecord(channel'[i]) <= Accepted
  <2>1. CASE i = Len(channel) + 1
    <3>1. i # 1 => channel'[i - 1] = channel[Len(channel)]
      BY <1>2, <2>1
    <3> QED BY <1>2, <1>3, <2>1, <3>1
  <2>2. CASE i # Len(channel) + 1
    <3>1. i \in DOMAIN channel /\ channel'[i] = channel[i] /\ (i # 1 => channel'[i - 1] = channel[i - 1])
      BY <1>2, <2>2
    <3> QED BY <3>1 DEF ChannelLinked
  <2> QED BY <2>1, <2>2
<1>6. \A i \in DOMAIN channel' :
        /\ Continues(channel'[i], IF i = 1 THEN Received' ELSE LastRecord(channel'[i - 1]))
        /\ LastRecord(channel'[i]) <= Accepted'
  BY <1>1, <1>2, <1>5, Zenon
<1>7. ChannelLinked'
  BY <1>6, Zenon DEF ChannelLinked, Continues, LastRecord, ByteOf
<1> QED BY <1>4, <1>7

(* Nothing between thread_buf and the transport moves. *)
LEMMA LinksStay ==
  ASSUME Linked, UNCHANGED <<packet, mega_buf, channel, io>>,
         Accepted \in Int, Accepted' \in Int, Accepted' >= Accepted,
         item \in Seq(Cell), mega_buf \in Seq(Cell), channel \in Seq(Seq(Cell)),
         \A i \in DOMAIN channel : channel[i] # << >>
  PROVE  Linked' /\ Gathered' = Gathered /\ (Alive' <=> Alive)
<1>1. UNCHANGED <<packet, mega_buf, channel, item, iopc>>
  BY DEF io
<1>2. Received' = Received /\ HandedOver' = HandedOver /\ Gathered' = Gathered
  BY <1>1 DEF Received, HandedOver, Gathered, LastRecord
<1>3. Alive' <=> Alive
  BY <1>1 DEF Alive
<1>4. item # << >> => LastRecord(item) \in Nat
  BY LastRecordIs
<1>5. mega_buf # << >> => LastRecord(mega_buf) \in Nat
  BY LastRecordIs
<1>6. \A i \in DOMAIN channel : LastRecord(channel[i]) \in Nat
  <2>1. \A i \in DOMAIN channel : channel[i] \in Seq(Cell)
    OBVIOUS
  <2> QED BY <2>1, LastRecordIs
<1>7. ChannelLinked => \A i \in DOMAIN channel' :
        /\ Continues(channel'[i], IF i = 1 THEN Received' ELSE LastRecord(channel'[i - 1]))
        /\ LastRecord(channel'[i]) <= Accepted'
  BY <1>1, <1>2, <1>6 DEF ChannelLinked
<1>8. ChannelLinked => ChannelLinked'
  BY <1>7, Zenon DEF ChannelLinked, Continues, LastRecord, ByteOf
<1>9. Continues(item, LastRecord(packet)) => Continues(item, LastRecord(packet))'
  BY <1>1 DEF Continues, LastRecord, ByteOf
<1>10. Continues(mega_buf, HandedOver) => Continues(mega_buf, HandedOver)'
  BY <1>1, <1>2 DEF Continues, ByteOf
<1>11. (item # << >> => LastRecord(item) <= Accepted) => (item # << >> => LastRecord(item) <= Accepted)'
  BY <1>1, <1>4 DEF LastRecord
<1>12. (mega_buf # << >> => LastRecord(mega_buf) <= Accepted) => (mega_buf # << >> => LastRecord(mega_buf) <= Accepted)'
  BY <1>1, <1>5 DEF LastRecord
<1> QED BY <1>2, <1>3, <1>8, <1>9, <1>10, <1>11, <1>12 DEF Linked

(* The same, of a state of the system. *)
LEMMA StillLinked ==
  ASSUME MacInv, Linked, UNCHANGED <<packet, mega_buf, channel, io>>,
         UNCHANGED client \/ Client
  PROVE  Linked' /\ Gathered' = Gathered /\ (Alive' <=> Alive)
<1>1. /\ item \in Seq(Cell) /\ mega_buf \in Seq(Cell) /\ channel \in Seq(Seq(Cell))
      /\ \A i \in DOMAIN channel : channel[i] # << >>
  BY DEF MacInv, MacTypeOK, MacPacketsFit
<1>2. records \in Nat /\ RecLen \in Nat \ {0} /\ index \in Nat
  BY WriterAssumption DEF MacInv, MacTypeOK, CommonType
<1>3. Accepted \in Int /\ Accepted' \in Int /\ Accepted' >= Accepted
  <2>1. CASE UNCHANGED client
    BY <1>2, <2>1 DEF client, Accepted
  <2>2. CASE (\E n \in 1 .. MaxBatch : Write(n)) \/ NextRecord
    BY <1>2, <2>2 DEF Write, MayCall, NextRecord, BeginRecord, Accepted
  <2>3. CASE PutByte
    BY <1>2, <2>3 DEF PutByte, Accepted
  <2>4. CASE SetFlush \/ ResetSids \/ FlushBegin \/ FlushReturn \/ FlushTimeout \/ Close \/ Join
    <3>1. records' = records /\ cpc # "put" /\ cpc' # "put"
      BY <2>4 DEF SetFlush, ResetSids, FlushBegin, FlushReturn, FlushTimeout, Close, Join, MayCall, client
    <3> QED BY <1>2, <3>1 DEF Accepted
  <2> QED BY <2>1, <2>2, <2>3, <2>4 DEF Client, InCall
<1> QED BY <1>1, <1>3, LinksStay

LEMMA MacClientPipe ==
  ASSUME Disciplined, MacInv, NEW base \in Nat, MacPipeInv(base), ClientStep
  PROVE  MacPipeInv(base)'
<1>1. /\ Client /\ UNCHANGED <<writer, transport, mega_buf, channel, io>>
  BY ClientLeaves DEF ClientStep
<1>2. PipeInv(base)'
  BY <1>1, MacShape, ClientPipe DEF MacPipeInv
<1>3. Linked' /\ Gathered' = Gathered /\ (Alive' <=> Alive)
  BY <1>1, StillLinked DEF MacPipeInv, transport
<1>4. MegaInv'
  <2>1. flushing /\ wpc = "test" => UNCHANGED ring
    BY <1>1 DEF Client, InCall, Write, NextRecord, PutByte, SetFlush, ResetSids, FlushBegin,
       FlushReturn, FlushTimeout, Close, Join, MacPipeInv, PipeInv, Phases
  <2>2. flushing /\ wpc = "test" => Fill' = Fill
    BY <2>1 DEF ring, Fill
  <2>3. cpc' = "flush_wait" /\ flush_done' => cpc = "flush_wait" /\ flush_done
    BY <1>1 DEF Client, InCall, Write, BeginRecord, NextRecord, PutByte, SetFlush, ResetSids, FlushBegin,
       FlushReturn, FlushTimeout, Close, Join, shared, client
  <2> QED BY <1>1, <2>2, <2>3 DEF MacPipeInv, MegaInv, writer
<1> QED BY <1>2, <1>3, <1>4 DEF MacPipeInv

(* The writer's steps that move no byte, and get. *)
LEMMA MacDrainPipe ==
  ASSUME Disciplined, MacInv, NEW base \in Nat, MacPipeInv(base),
         MacCheckRun \/ JoinIo \/ SameAsDefault \/ MacGetByte
  PROVE  MacPipeInv(base)'
<1>1. UNCHANGED <<run, client, transport, mega_buf, channel, io>>
  BY DEF MacCheckRun, JoinIo, SameAsDefault, MacGetByte, LockShared, StartWait, Wake, TakeFlush,
         TestRing, AnswerFlush
<1>2. Linked' /\ Gathered' = Gathered /\ (Alive' <=> Alive)
  BY <1>1, StillLinked DEF MacPipeInv, transport
<1>3. Shape /\ PipeInv(base)
  BY MacShape DEF MacPipeInv
<1>4. CASE MacCheckRun \/ JoinIo
  <2>1. /\ UNCHANGED <<ring, shared, client, run, flushing, thread_buf, got>>
        /\ wpc \in {"top", "join_io"} /\ wpc' \in {"lock", "join_io", "exited"}
        /\ ~flushing /\ (wpc' # "lock" => ~run)
    BY <1>4 DEF MacCheckRun, JoinIo, MacPipeInv, MegaInv, PipeInv, Phases, MacInv, Stops
  <2>2. Content(base)' /\ Aligned' /\ Fill' = Fill
    BY <1>3, <2>1, ContentStays DEF Stored, client
  <2>3. Room' /\ Ready' /\ Phases' /\ Flushed'
    BY <1>3, <2>1, <2>2 DEF PipeInv, Room, Ready, Phases, Flushed, shared, client
  <2>4. MegaInv'
    BY <1>1, <2>1, <2>2 DEF MacPipeInv, MegaInv, client, shared
  <2> QED BY <1>2, <2>2, <2>3, <2>4 DEF MacPipeInv, PipeInv
<1>5. CASE SameAsDefault
  <2>1. PipeInv(base)'
    BY <1>3, <1>5, WaitPipe, TestPipe DEF SameAsDefault
  <2>2. UNCHANGED ring /\ Fill' = Fill /\ thread_buf' = thread_buf
    BY <1>5 DEF SameAsDefault, LockShared, StartWait, Wake, TakeFlush, TestRing, AnswerFlush, Fill, ring
  <2>3. MegaInv'
    <3>1. CASE LockShared \/ StartWait \/ Wake \/ AnswerFlush
      <4>1. mega_buf' = << >>
        BY <1>1, <3>1 DEF LockShared, StartWait, Wake, AnswerFlush, MacPipeInv, MegaInv
      <4>2. wpc' \notin {"post_flush", "join_io"} /\ (wpc' = "test" => ~flushing')
        BY <3>1 DEF LockShared, StartWait, Wake, TakeFlush, AnswerFlush
      <4> QED BY <4>1, <4>2 DEF MegaInv
    <3>2. CASE TestRing
      <4>1. wpc' = "post_flush" => flushing /\ Fill = 0
        BY <1>3, <3>2, FillIs DEF TestRing, Shape
      <4>2. /\ wpc = "test" /\ flushing' = flushing /\ flush_done' = flush_done /\ cpc' = cpc
            /\ wpc' \in {"get", "post_flush", "top"} /\ (flushing => wpc' # "top")
            /\ mega_buf' = mega_buf
        BY <1>1, <3>2 DEF TestRing, client, shared
      <4> QED BY <2>2, <4>1, <4>2 DEF MacPipeInv, MegaInv
    <3> QED BY <1>5, <3>1, <3>2 DEF SameAsDefault
  <2> QED BY <1>2, <2>1, <2>3 DEF MacPipeInv
<1>6. CASE MacGetByte
  <2>1. PipeInv(base)'
    BY <1>3, <1>6, GetPipe DEF MacGetByte
  <2>2. MegaInv'
    BY <1>1, <1>6 DEF MacGetByte, MacPipeInv, MegaInv, client, shared
  <2> QED BY <1>2, <2>1, <2>2 DEF MacPipeInv
<1> QED BY <1>4, <1>5, <1>6

(* The last records of the buffers are numbers. *)
LEMMA Ends ==
  ASSUME MacInv
  PROVE  /\ Received \in Nat /\ HandedOver \in Nat /\ Gathered \in Nat
         /\ \A i \in DOMAIN channel : LastRecord(channel[i]) \in Nat
<1>1. /\ item \in Seq(Cell) /\ packet \in Seq(Cell) /\ mega_buf \in Seq(Cell)
      /\ channel \in Seq(Seq(Cell))
  BY DEF MacInv, MacTypeOK, CommonType
<1>2. Received \in Nat /\ LastRecord(mega_buf) \in Nat
  BY <1>1, LastRecordIs DEF Received
<1>3. \A i \in DOMAIN channel : LastRecord(channel[i]) \in Nat
  <2>1. \A i \in DOMAIN channel : channel[i] \in Seq(Cell)
    BY <1>1
  <2> QED BY <2>1, LastRecordIs
<1>4. HandedOver \in Nat
  <2>1. CASE channel = << >>
    BY <1>2, <2>1 DEF HandedOver
  <2>2. CASE channel # << >>
    <3>1. Len(channel) \in DOMAIN channel
      BY <1>1, <2>2, EmptySeq
    <3> QED BY <1>3, <2>2, <3>1 DEF HandedOver
  <2> QED BY <2>1, <2>2
<1> QED BY <1>2, <1>3, <1>4 DEF Gathered

(* A step of the writer that changes mega_buf and queues nothing. *)
LEMMA MegaLinks ==
  ASSUME Linked, UNCHANGED <<client, packet, channel, io>>,
         Alive => /\ Continues(mega_buf', HandedOver)
                  /\ mega_buf' # << >> => LastRecord(mega_buf') <= Accepted
  PROVE  Linked' /\ HandedOver' = HandedOver /\ (Alive' <=> Alive)
<1>1. /\ UNCHANGED <<packet, channel, item, iopc>> /\ Accepted' = Accepted
  BY DEF io, Accepted, client
<1>2. Received' = Received /\ HandedOver' = HandedOver /\ (Alive' <=> Alive)
  BY <1>1 DEF Received, HandedOver, Alive, LastRecord
<1>3. ChannelLinked => ChannelLinked'
  <2>1. ChannelLinked =>
          \A i \in DOMAIN channel' :
            /\ Continues(channel'[i], IF i = 1 THEN Received' ELSE LastRecord(channel'[i - 1]))
            /\ LastRecord(channel'[i]) <= Accepted'
    BY <1>1, <1>2, Zenon DEF ChannelLinked
  <2> QED BY <2>1, Zenon DEF ChannelLinked, Continues, LastRecord, ByteOf
<1>4. Continues(item, LastRecord(packet)) => Continues(item, LastRecord(packet))'
  BY <1>1 DEF Continues, LastRecord, ByteOf
<1>5. (item # << >> => LastRecord(item) <= Accepted) => (item # << >> => LastRecord(item) <= Accepted)'
  BY <1>1, Zenon DEF LastRecord
<1>6. Continues(mega_buf', HandedOver) => Continues(mega_buf, HandedOver)'
  BY <1>2, Zenon DEF Continues, ByteOf
<1>7. (mega_buf' # << >> => LastRecord(mega_buf') <= Accepted) => (mega_buf # << >> => LastRecord(mega_buf) <= Accepted)'
  BY <1>1, Zenon DEF LastRecord
<1> QED BY <1>2, <1>3, <1>4, <1>5, <1>6, <1>7 DEF Linked

(* A step of the writer that queues b and leaves nothing in mega_buf. *)
LEMMA QueueLinked ==
  ASSUME MacInv, Linked, NEW b \in Seq(Cell), b # << >>, Enqueue(b), mega_buf' = << >>,
         Alive => Continues(b, HandedOver) /\ LastRecord(b) <= Accepted,
         UNCHANGED <<client, packet, io>>
  PROVE  Linked' /\ (Alive => Gathered' = LastRecord(b)) /\ (Alive' <=> Alive)
<1>1. UNCHANGED <<packet, item, iopc>> /\ Accepted' = Accepted /\ (Alive' <=> Alive)
  BY DEF io, Accepted, client, Alive
<1>2. ASSUME Alive PROVE Linked' /\ Gathered' = LastRecord(b)
  <2>1. ChannelLinked' /\ HandedOver' = LastRecord(b)
    BY <1>1, <1>2, QueueLinks DEF Linked
  <2>2. Continues(item, LastRecord(packet))'
    BY <1>1, <1>2 DEF Linked, Continues, LastRecord, ByteOf
  <2>3. (item # << >> => LastRecord(item) <= Accepted)'
    <3>1. item # << >> => LastRecord(item) <= Accepted
      BY <1>2 DEF Linked
    <3> QED BY <1>1, <3>1, Zenon DEF LastRecord
  <2>4. Continues(mega_buf, HandedOver)' /\ Gathered' = HandedOver'
    BY DEF Continues, Gathered
  <2> QED BY <2>1, <2>2, <2>3, <2>4 DEF Linked
<1> QED BY <1>1, <1>2 DEF Linked

(* The writer's steps at the ends of a packet and of a flush. *)
LEMMA GatherPipe ==
  ASSUME Disciplined, MacInv, NEW base \in Nat, MacPipeInv(base), GatherPartial
  PROVE  \E b \in Nat : MacPipeInv(b)'
<1>1. /\ wpc = "pre_flush" /\ wpc' = "test" /\ thread_buf' = << >>
      /\ mega_buf' = IF HasPartialPacket THEN thread_buf ELSE << >>
      /\ UNCHANGED <<ring, shared, run, client, flushing, got, packet, channel, io>>
  BY DEF GatherPartial, transport
<1>2. /\ Shape /\ PipeInv(base) /\ Linked /\ MegaInv /\ got = 0 /\ flushing /\ mega_buf = << >>
      /\ cpc # "closed" /\ thread_buf \in Seq(Cell)
  BY <1>1, MacShape DEF MacPipeInv, MegaInv, PipeInv, Phases, Shape, CommonType
<1>3. mega_buf' = thread_buf
  BY <1>1, <1>2, NoPartial
<1>4. cpc' = cpc /\ flush_done' = flush_done
  BY <1>1 DEF client, shared
<1>5. cpc = "flush_wait" /\ flush_done => thread_buf = << >>
  BY <1>2 DEF PipeInv, Flushed
<1>6. MegaInv'
  BY <1>1, <1>2, <1>3, <1>4, <1>5 DEF MegaInv
<1>7. CASE thread_buf = << >>
  <2>1. PipeInv(base)'
    BY <1>1, <1>2, <1>7, KeepPipe
  <2>2. Linked' /\ Gathered' = Gathered /\ (Alive' <=> Alive)
    BY <1>1, <1>2, <1>3, <1>7, StillLinked
  <2>3. MacPipeInv(base)'
    BY <1>6, <2>1, <2>2 DEF MacPipeInv
  <2> QED BY <2>3, Zenon
<1>8. CASE thread_buf # << >>
  <2>1. PICK n \in Nat \ {0} :
          /\ Len(thread_buf) = n * RecLen
          /\ LastRecord(thread_buf) = base + n
          /\ base + n <= Accepted
    BY <1>2, <1>8, LeavesWhole
  <2>2. PipeInv(base + n)' /\ base + n \in Nat
    BY <1>1, <1>2, <2>1, ClearPipe
  <2>3. Alive => base = HandedOver
    BY <1>2 DEF MacPipeInv, Gathered
  <2>4. Continues(thread_buf, base)
    BY <1>2, LenProperties DEF PipeInv, Content, Continues
  <2>5. Linked' /\ HandedOver' = HandedOver /\ (Alive' <=> Alive)
    BY <1>1, <1>2, <1>3, <2>1, <2>3, <2>4, MegaLinks
  <2>6. Gathered' = base + n
    BY <1>3, <1>8, <2>1 DEF Gathered, LastRecord
  <2>7. MacPipeInv(base + n)'
    BY <1>6, <2>2, <2>5, <2>6 DEF MacPipeInv
  <2> QED BY <2>2, <2>7
<1> QED BY <1>7, <1>8

LEMMA EndPipe ==
  ASSUME Disciplined, MacInv, NEW base \in Nat, MacPipeInv(base), EndPacket
  PROVE  \E b \in Nat : MacPipeInv(b)'
<1>1. /\ wpc = "packet" /\ wpc' = "test"
      /\ UNCHANGED <<ring, shared, run, client, flushing, got, packet, io>>
  BY DEF EndPacket, transport
<1>2. /\ Shape /\ PipeInv(base) /\ Linked /\ MegaInv /\ got = 0
      /\ cpc # "closed" /\ thread_buf \in Seq(Cell) /\ thread_buf # << >> /\ mega_buf \in Seq(Cell)
      /\ Len(mega_buf) % RecLen = 0
  BY <1>1, MacShape DEF MacPipeInv, MegaInv, PipeInv, Phases, Shape, CommonType, MacInv, MacTypeOK,
     BufferLevels
<1>3. cpc' = cpc /\ flush_done' = flush_done /\ Fill' = Fill
  BY <1>1 DEF client, shared, ring, Fill
<1>4. ~(cpc = "flush_wait" /\ flush_done)
  BY <1>2 DEF PipeInv, Flushed
<1>5. CASE ~PacketComplete
  <2>1. UNCHANGED <<thread_buf, mega_buf, channel>>
    BY <1>5 DEF EndPacket
  <2>2. flushing => Fill # 0
    BY <1>2, <1>5, FillIs DEF PacketComplete, Shape
  <2>3. MegaInv'
    BY <1>1, <1>2, <1>3, <1>4, <2>1, <2>2 DEF MegaInv
  <2>4. PipeInv(base)'
    BY <1>1, <1>2, <2>1, KeepPipe
  <2>5. Linked' /\ Gathered' = Gathered /\ (Alive' <=> Alive)
    BY <1>1, <1>2, <2>1, StillLinked
  <2>6. MacPipeInv(base)'
    BY <2>3, <2>4, <2>5 DEF MacPipeInv
  <2> QED BY <2>6, Zenon
<1>6. CASE PacketComplete
  <2>1. thread_buf' = << >>
    BY <1>6 DEF EndPacket
  <2>2. PICK n \in Nat \ {0} :
          /\ Len(thread_buf) = n * RecLen
          /\ LastRecord(thread_buf) = base + n
          /\ base + n <= Accepted
    BY <1>2, LeavesWhole
  <2>3. PipeInv(base + n)' /\ base + n \in Nat
    BY <1>1, <1>2, <2>1, <2>2, ClearPipe
  <2>4. Continues(thread_buf, base) /\ (Alive => base = Gathered)
    BY <1>2, LenProperties DEF PipeInv, Content, Continues, MacPipeInv
  <2>5. CASE flushing
    <3>1. mega_buf' = mega_buf \o thread_buf /\ channel' = channel
      BY <1>6, <2>5 DEF EndPacket
    <3>2. MegaInv'
      BY <1>1, <1>3, <1>4, <2>1, <2>5 DEF MegaInv
    <3>3. ASSUME Alive
          PROVE  /\ Continues(mega_buf', HandedOver) /\ mega_buf' # << >>
                 /\ LastRecord(mega_buf') = base + n
      <4>1. Continues(mega_buf, HandedOver)
        BY <1>2, <3>3 DEF Linked
      <4>2. base = IF mega_buf = << >> THEN HandedOver ELSE LastRecord(mega_buf)
        BY <2>4, <3>3 DEF Gathered
      <4>3. HandedOver \in Nat
        BY Ends
      <4> QED BY <1>2, <2>2, <2>4, <3>1, <4>1, <4>2, <4>3, JoinLinked
    <3>4. Linked' /\ (Alive' <=> Alive)
      BY <1>1, <1>2, <2>2, <3>1, <3>3, MegaLinks
    <3>5. Alive => Gathered' = base + n
      BY <3>3 DEF Gathered, LastRecord
    <3>6. MacPipeInv(base + n)'
      BY <2>3, <3>2, <3>4, <3>5 DEF MacPipeInv
    <3> QED BY <2>3, <3>6
  <2>6. CASE ~flushing
    <3>1. Enqueue(thread_buf) /\ mega_buf' = mega_buf /\ mega_buf = << >>
      BY <1>2, <1>6, <2>6 DEF EndPacket, MegaInv
    <3>2. MegaInv'
      BY <1>1, <1>3, <1>4, <2>1, <3>1 DEF MegaInv
    <3>3. Alive => Continues(thread_buf, HandedOver) /\ LastRecord(thread_buf) <= Accepted
      BY <2>2, <2>4, <3>1 DEF Gathered
    <3>4. Linked' /\ (Alive => Gathered' = LastRecord(thread_buf)) /\ (Alive' <=> Alive)
      BY <1>1, <1>2, <3>1, <3>3, QueueLinked
    <3>5. MacPipeInv(base + n)'
      BY <2>2, <2>3, <3>2, <3>4 DEF MacPipeInv
    <3> QED BY <2>3, <3>5
  <2> QED BY <2>5, <2>6
<1> QED BY <1>5, <1>6

LEMMA QueuePipe ==
  ASSUME Disciplined, MacInv, NEW base \in Nat, MacPipeInv(base), QueueMega
  PROVE  MacPipeInv(base)'
<1>1. /\ wpc = "post_flush" /\ wpc' = "answer" /\ mega_buf' = << >>
      /\ IF mega_buf # << >> THEN Enqueue(mega_buf) ELSE UNCHANGED channel
      /\ thread_buf' = << >>
      /\ UNCHANGED <<ring, shared, run, client, flushing, got, packet, io>>
  BY DEF QueueMega, transport
<1>2. /\ Shape /\ PipeInv(base) /\ Linked /\ MegaInv /\ thread_buf = << >> /\ mega_buf \in Seq(Cell)
      /\ thread_buf' = thread_buf
  BY <1>1, MacShape DEF MacPipeInv, MegaInv, MacInv, MacTypeOK
<1>3. PipeInv(base)'
  BY <1>1, <1>2, KeepPipe
<1>4. MegaInv'
  BY <1>1 DEF MegaInv
<1>5. CASE mega_buf = << >>
  <2>1. Linked' /\ Gathered' = Gathered /\ (Alive' <=> Alive)
    BY <1>1, <1>2, <1>5, StillLinked
  <2> QED BY <1>3, <1>4, <2>1 DEF MacPipeInv
<1>6. CASE mega_buf # << >>
  <2>1. Alive => Continues(mega_buf, HandedOver) /\ LastRecord(mega_buf) <= Accepted
    BY <1>2, <1>6 DEF Linked
  <2>2. Linked' /\ (Alive => Gathered' = LastRecord(mega_buf)) /\ (Alive' <=> Alive)
    BY <1>1, <1>2, <1>6, <2>1, QueueLinked
  <2>3. Gathered = LastRecord(mega_buf)
    BY <1>6 DEF Gathered
  <2> QED BY <1>3, <1>4, <2>2, <2>3 DEF MacPipeInv
<1> QED BY <1>5, <1>6

(* A step of the I/O thread. *)
LEMMA IoLeaves ==
  ASSUME NEW base \in Nat, MacPipeInv(base),
         UNCHANGED <<ring, shared, run, client, writer, mega_buf>>
  PROVE  PipeInv(base)' /\ MegaInv' /\ Accepted' = Accepted
<1>1. Content(base)' /\ Aligned' /\ Fill' = Fill
  BY ContentStays DEF MacPipeInv, Stored, client, writer
<1> QED BY <1>1 DEF MacPipeInv, PipeInv, MegaInv, Room, Ready, Phases, Flushed, shared, client,
      writer, Accepted

LEMMA ReceivePipe ==
  ASSUME MacInv, NEW base \in Nat, MacPipeInv(base), IoReceive, run
  PROVE  MacPipeInv(base)'
<1>1. /\ iopc = "recv" /\ iopc' = "send" /\ channel # << >>
      /\ item' = Head(channel) /\ channel' = Tail(channel) /\ UNCHANGED <<vars, mega_buf>>
  BY DEF IoReceive
<1>2. PipeInv(base)' /\ MegaInv' /\ Accepted' = Accepted
  BY <1>1, IoLeaves DEF vars
<1>3. /\ packet' = packet /\ mega_buf' = mega_buf /\ item = << >> /\ Alive /\ Alive'
      /\ channel \in Seq(Seq(Cell)) /\ \A i \in DOMAIN channel : channel[i] # << >>
  BY <1>1 DEF vars, transport, MacInv, MacTypeOK, MacPacketsFit, BufferLevels, Alive
<1>4. /\ Len(channel) \in Nat \ {0} /\ DOMAIN channel = 1 .. Len(channel)
      /\ item' = channel[1] /\ channel[1] # << >>
      /\ DOMAIN channel' = 1 .. Len(channel) - 1 /\ Len(channel') = Len(channel) - 1
      /\ \A i \in 1 .. Len(channel) - 1 : channel'[i] = channel[i + 1]
      /\ channel' = << >> <=> Len(channel) = 1
  <2>1. Len(channel) \in Nat \ {0} /\ DOMAIN channel = 1 .. Len(channel)
    BY <1>1, <1>3, EmptySeq, LenProperties
  <2>2. item' = channel[1] /\ channel[1] # << >>
    <3>1. Head(channel) = channel[1]
      BY <1>1, <1>3, HeadTailProperties
    <3>2. 1 \in DOMAIN channel
      BY <2>1
    <3> QED BY <1>1, <1>3, <3>1, <3>2
  <2>3. /\ channel' \in Seq(Seq(Cell)) /\ Len(channel') = Len(channel) - 1
        /\ \A i \in 1 .. Len(channel) - 1 : channel'[i] = channel[i + 1]
    BY <1>1, <1>3, HeadTailProperties
  <2>4. DOMAIN channel' = 1 .. Len(channel) - 1 /\ (channel' = << >> <=> Len(channel) = 1)
    <3>1. DOMAIN channel' = 1 .. Len(channel')
      BY <2>3, LenProperties
    <3>2. channel' = << >> <=> Len(channel') = 0
      BY <2>3, EmptySeq
    <3> QED BY <2>1, <2>3, <3>1, <3>2
  <2> QED BY <2>1, <2>2, <2>3, <2>4
<1>5. /\ ChannelLinked /\ Continues(mega_buf, HandedOver)
      /\ mega_buf # << >> => LastRecord(mega_buf) <= Accepted
  BY <1>3 DEF MacPipeInv, Linked
<1>6. Received = LastRecord(packet) /\ Received' = LastRecord(channel[1])
  BY <1>3, <1>4 DEF Received, LastRecord
<1>7. /\ Continues(channel[1], LastRecord(packet)) /\ LastRecord(channel[1]) <= Accepted
      /\ \A i \in 2 .. Len(channel) :
           /\ Continues(channel[i], LastRecord(channel[i - 1]))
           /\ LastRecord(channel[i]) <= Accepted
  <2>1. 1 \in DOMAIN channel
    BY <1>4
  <2>2. Continues(channel[1], Received) /\ LastRecord(channel[1]) <= Accepted
    BY <1>5, <2>1 DEF ChannelLinked
  <2>3. \A i \in 2 .. Len(channel) : i \in DOMAIN channel /\ i # 1
    BY <1>4
  <2> QED BY <1>5, <1>6, <2>2, <2>3 DEF ChannelLinked
<1>8. Continues(item, LastRecord(packet))' /\ (item # << >> => LastRecord(item) <= Accepted)'
  <2>1. Continues(item', LastRecord(packet)) /\ LastRecord(item') <= Accepted
    BY <1>4, <1>7
  <2> QED BY <1>2, <1>3, <2>1, Zenon DEF Continues, LastRecord, ByteOf
<1>9. ChannelLinked'
  <2>1. ASSUME NEW i \in 1 .. Len(channel) - 1
        PROVE  /\ Continues(channel'[i], IF i = 1 THEN Received' ELSE LastRecord(channel'[i - 1]))
               /\ LastRecord(channel'[i]) <= Accepted'
    <3>1. i + 1 \in 2 .. Len(channel) /\ i + 1 - 1 = i /\ channel'[i] = channel[i + 1]
      BY <1>4
    <3>2. Continues(channel[i + 1], LastRecord(channel[i])) /\ LastRecord(channel[i + 1]) <= Accepted
      BY <1>7, <3>1
    <3>3. i # 1 => channel'[i - 1] = channel[i]
      BY <1>4
    <3> QED BY <1>2, <1>6, <3>1, <3>2, <3>3
  <2>2. \A i \in DOMAIN channel' :
          /\ Continues(channel'[i], IF i = 1 THEN Received' ELSE LastRecord(channel'[i - 1]))
          /\ LastRecord(channel'[i]) <= Accepted'
    BY <1>4, <2>1
  <2> QED BY <2>2, Zenon DEF ChannelLinked, Continues, LastRecord, ByteOf
<1>10. HandedOver' = HandedOver
  <2>1. HandedOver = LastRecord(channel[Len(channel)])
    BY <1>1 DEF HandedOver
  <2>2. CASE Len(channel) = 1
    BY <1>4, <1>6, <2>1, <2>2 DEF HandedOver
  <2>3. CASE Len(channel) # 1
    <3>1. channel'[Len(channel')] = channel[Len(channel)] /\ channel' # << >>
      BY <1>4, <2>3
    <3> QED BY <2>1, <3>1 DEF HandedOver, LastRecord
  <2> QED BY <2>2, <2>3
<1>11. Continues(mega_buf, HandedOver)' /\ (mega_buf # << >> => LastRecord(mega_buf) <= Accepted)'
  <2>1. Continues(mega_buf, HandedOver)'
    BY <1>3, <1>5, <1>10, Zenon DEF Continues, ByteOf
  <2>2. (mega_buf # << >> => LastRecord(mega_buf) <= Accepted)'
    BY <1>2, <1>3, <1>5, Zenon DEF LastRecord
  <2> QED BY <2>1, <2>2
<1>12. Gathered' = Gathered
  BY <1>3, <1>10 DEF Gathered, LastRecord
<1> QED BY <1>2, <1>3, <1>8, <1>9, <1>11, <1>12 DEF MacPipeInv, Linked

LEMMA SentPipe ==
  ASSUME MacInv, NEW base \in Nat, MacPipeInv(base), IoSend
  PROVE  MacPipeInv(base)'
<1>1. /\ iopc = "send" /\ iopc' = "recv" /\ packet' = item /\ item' = << >>
      /\ UNCHANGED <<ring, shared, run, client, writer, mega_buf, channel>>
  BY DEF IoSend
<1>2. PipeInv(base)' /\ MegaInv' /\ Accepted' = Accepted
  BY <1>1, IoLeaves
<1>3. item # << >> /\ Alive /\ Alive'
  BY <1>1 DEF MacInv, BufferLevels, Alive
<1>4. Received' = Received
  BY <1>1, <1>3 DEF Received, LastRecord
<1>5. HandedOver' = HandedOver /\ Gathered' = Gathered
  BY <1>1, <1>4 DEF HandedOver, Gathered, LastRecord
<1>6. Continues(item, LastRecord(packet))' /\ (item # << >> => LastRecord(item) <= Accepted)'
  BY <1>1 DEF Continues
<1>7. ChannelLinked'
  <2>1. \A i \in DOMAIN channel' :
          /\ Continues(channel'[i], IF i = 1 THEN Received' ELSE LastRecord(channel'[i - 1]))
          /\ LastRecord(channel'[i]) <= Accepted'
    BY <1>1, <1>2, <1>3, <1>4, Zenon DEF MacPipeInv, Linked, ChannelLinked
  <2> QED BY <2>1, Zenon DEF ChannelLinked, Continues, LastRecord, ByteOf
<1>8. Continues(mega_buf, HandedOver)' /\ (mega_buf # << >> => LastRecord(mega_buf) <= Accepted)'
  <2>1. Continues(mega_buf, HandedOver) /\ (mega_buf # << >> => LastRecord(mega_buf) <= Accepted)
    BY <1>3 DEF MacPipeInv, Linked
  <2>2. mega_buf' = mega_buf
    BY <1>1
  <2>3. Continues(mega_buf, HandedOver)'
    BY <1>5, <2>1, <2>2, Zenon DEF Continues, ByteOf
  <2>4. (mega_buf # << >> => LastRecord(mega_buf) <= Accepted)'
    BY <1>2, <2>1, <2>2, Zenon DEF LastRecord
  <2> QED BY <2>3, <2>4
<1> QED BY <1>2, <1>3, <1>5, <1>6, <1>7, <1>8 DEF MacPipeInv, Linked

(* The I/O thread ends: nothing is claimed of what it drops. *)
LEMMA ShutPipe ==
  ASSUME MacInv, NEW base \in Nat, MacPipeInv(base), (IoReceive /\ ~run) \/ IoDisconnected
  PROVE  MacPipeInv(base)'
<1>1. iopc' = "exited" /\ UNCHANGED <<vars, mega_buf>>
  BY DEF IoReceive, IoDisconnected
<1>2. PipeInv(base)' /\ MegaInv' /\ ~Alive'
  BY <1>1, IoLeaves DEF vars, Alive
<1> QED BY <1>2 DEF MacPipeInv, Linked

----------------------------------------------------------------------------
MacPipe == \E base \in Nat : MacPipeInv(base)

LEMMA InitMacPipe == Disciplined /\ MacInit => MacPipe
<1> SUFFICES ASSUME Disciplined, MacInit PROVE MacPipeInv(0)
  BY DEF MacPipe
<1>1. PipeInv(0)
  BY InitPipe DEF MacInit
<1>2. MegaInv
  BY DEF MacInit, Init, MegaInv
<1>3. Received = 0 /\ HandedOver = 0 /\ Gathered = 0
  BY DEF MacInit, Init, Received, HandedOver, Gathered, LastRecord
<1>4. Linked
  BY DEF MacInit, Init, Linked, ChannelLinked, Continues
<1> QED BY <1>1, <1>2, <1>3, <1>4 DEF MacPipeInv

LEMMA MacNextPipe == Disciplined /\ MacInv /\ MacPipe /\ [MacNext]_macvars => MacPipe'
<1> SUFFICES ASSUME Disciplined, MacInv, NEW base \in Nat, MacPipeInv(base), [MacNext]_macvars
             PROVE  \E b \in Nat : MacPipeInv(b)'
  BY DEF MacPipe
<1>1. CASE UNCHANGED macvars
  <2>1. UNCHANGED <<ring, shared, run, client, writer, packet, mega_buf, channel, io>>
    BY <1>1 DEF macvars, vars, transport
  <2>2. PipeInv(base)' /\ MegaInv'
    BY <2>1, IoLeaves
  <2>3. Linked' /\ Gathered' = Gathered /\ (Alive' <=> Alive)
    BY <2>1, StillLinked DEF MacPipeInv
  <2>4. MacPipeInv(base)'
    BY <2>2, <2>3 DEF MacPipeInv
  <2> QED BY <2>4, Zenon
<1>2. CASE \/ ClientStep \/ MacCheckRun \/ JoinIo \/ SameAsDefault \/ MacGetByte \/ QueueMega
           \/ IoThread
  <2>1. MacPipeInv(base)'
    BY <1>2, MacClientPipe, MacDrainPipe, QueuePipe, ReceivePipe, SentPipe, ShutPipe DEF IoThread
  <2> QED BY <2>1, Zenon
<1>3. CASE GatherPartial \/ EndPacket
  BY <1>3, GatherPipe, EndPipe
<1> QED BY <1>1, <1>2, <1>3 DEF MacNext, MacWriterStep, MacFinished

LEMMA MacPipeInductive ==
  ASSUME Disciplined
  PROVE  MacSpec => [](MacInv /\ MacPipe)
<1>1. MacInit => MacPipe
  BY InitMacPipe
<1>2. MacInv /\ MacPipe /\ [MacNext]_macvars => MacPipe'
  BY MacNextPipe
<1> QED BY <1>1, <1>2, MacInductive, PTL DEF MacSpec

----------------------------------------------------------------------------
(* For a disciplined client no byte is mislaid or reordered between the    *)
(* ring, thread_buf, mega_buf, the channel, the I/O thread and the         *)
(* transport, as long as the driver is open.                               *)
THEOREM MacNothingLost ==
  ASSUME Disciplined
  PROVE  MacSpec => []NothingMislaid
<1>1. MacInv /\ MacPipe => NothingMislaid
  <2> SUFFICES ASSUME MacInv, MacPipe, run, iopc # "none" PROVE NothingMislaid
    BY DEF NothingMislaid
  <2>1. PICK base \in Nat : MacPipeInv(base)
    BY DEF MacPipe
  <2>2. Alive
    BY DEF MacInv, MacTypeOK, Stops, Alive
  <2>3. PipeInv(base) /\ base = Gathered /\ Linked /\ cpc # "closed"
    BY <2>1, <2>2 DEF MacPipeInv, PipeInv, Phases
  <2>4. thread_buf \in Seq(Cell)
    BY DEF MacInv, MacTypeOK, CommonType
  <2>5. Continues(thread_buf, Gathered)
    BY <2>3, <2>4, LenProperties DEF PipeInv, Content, Continues
  <2>6. /\ Gathered * RecLen + Len(thread_buf) + Fill = Stored
        /\ \A k \in 0 .. Fill - 1 :
             buf[Slot(read_pos, k, RingSize)] = ByteOf(Gathered, Len(thread_buf) + k + 1)
    BY <2>3 DEF PipeInv, Content
  <2> QED BY <2>2, <2>3, <2>5, <2>6, Zenon DEF NothingMislaid, Linked, ChannelLinked
<1> QED BY <1>1, MacPipeInductive, PTL

(* For a disciplined client flush() is answered only when every record     *)
(* written before it is in the hands of the I/O thread (device.rs:851).    *)
THEOREM MacFlushHandsOver ==
  ASSUME Disciplined
  PROVE  MacSpec => []FlushHandsOver
<1>1. MacInv /\ MacPipe => FlushHandsOver
  <2> SUFFICES ASSUME MacInv, MacPipe, cpc = "flush_wait", flush_done, run, iopc # "none"
               PROVE  HandedOver = records
    BY DEF FlushHandsOver
  <2>1. PICK base \in Nat : MacPipeInv(base)
    BY DEF MacPipe
  <2>2. Alive
    BY DEF MacInv, MacTypeOK, Stops, Alive
  <2>3. PipeInv(base) /\ base = Gathered /\ mega_buf = << >>
    BY <2>1, <2>2 DEF MacPipeInv, MegaInv
  <2>4. base = records
    BY <2>3, MacShape, AllGone
  <2> QED BY <2>3, <2>4 DEF Gathered
<1> QED BY <1>1, MacPipeInductive, PTL

----------------------------------------------------------------------------
(* The pipe of records to the device. *)
LEMMA Unseen ==
  ASSUME Accepted' = Accepted, UNCHANGED packet, iopc' = "exited" <=> iopc = "exited"
  PROVE  UNCHANGED Device!pipe
<1>1. (iopc # "exited")' = (iopc # "exited")
  OBVIOUS
<1>2. LastRecord(packet)' = LastRecord(packet)
  BY DEF LastRecord
<1> QED BY <1>1, <1>2 DEF Device!pipe

LEMMA MacClientSimulates ==
  ASSUME Disciplined, MacInv, MacPipe, ClientStep
  PROVE  [Device!PipeNext]_(Device!pipe)
<1>1. Client /\ UNCHANGED <<packet, iopc>>
  BY ClientLeaves DEF ClientStep, transport, io
<1>2. RecLen \in Nat \ {0} /\ records \in Nat /\ index \in 0 .. RecLen
  BY WriterAssumption DEF MacInv, MacTypeOK, CommonType
<1>3. CASE PutByte /\ index + 1 = RecLen
  <2>1. cpc = "put" /\ cpc' = cpc /\ records' = records /\ index' = index + 1
    BY <1>3 DEF PutByte
  <2>2. Accepted' = Accepted + 1
    BY <1>2, <1>3, <2>1 DEF Accepted
  <2>3. iopc # "exited"
    BY <2>1 DEF MacPipe, MacPipeInv, PipeInv, Phases, MacInv, Stops
  <2>4. (iopc # "exited")' = (iopc # "exited") /\ LastRecord(packet)' = LastRecord(packet)
    BY <1>1 DEF LastRecord
  <2> QED BY <1>1, <2>2, <2>3, <2>4 DEF Device!PipeNext, Device!Accept
<1>4. CASE ~(PutByte /\ index + 1 = RecLen)
  <2>1. Accepted' = Accepted
    <3>1. CASE PutByte
      BY <1>2, <1>4, <3>1 DEF PutByte, Accepted
    <3>2. CASE (\E n \in 1 .. MaxBatch : Write(n)) \/ NextRecord
      BY <1>2, <3>2 DEF Write, MayCall, NextRecord, BeginRecord, Accepted
    <3>3. CASE SetFlush \/ ResetSids \/ FlushBegin \/ FlushReturn \/ FlushTimeout \/ Close \/ Join
      <4>1. records' = records /\ cpc # "put" /\ cpc' # "put"
        BY <3>3 DEF SetFlush, ResetSids, FlushBegin, FlushReturn, FlushTimeout, Close, Join, MayCall,
           client
      <4> QED BY <4>1 DEF Accepted
    <3> QED BY <1>1, <3>1, <3>2, <3>3 DEF Client, InCall
  <2> QED BY <1>1, <2>1, Unseen
<1> QED BY <1>3, <1>4

(* A buffer that continues record m is the bytes of the n records after it. *)
LEMMA ItemIs ==
  ASSUME NEW s \in Seq(Cell), NEW m \in Nat, NEW n \in Nat, Len(s) = n * RecLen, Continues(s, m)
  PROVE  s = Device!BytesOf(m, n)
<1>1. s = [i \in 1 .. Len(s) |-> s[i]] /\ DOMAIN s = 1 .. Len(s)
  <2>1. s \in [1 .. Len(s) -> Cell]
    BY LenProperties
  <2> QED BY <2>1
<1>2. \A i \in 1 .. n * RecLen :
        s[i] = <<m + 1 + ((i - 1) \div RecLen), 1 + ((i - 1) % RecLen)>>
  BY <1>1, Zenon DEF Continues, ByteOf
<1> QED BY <1>1, <1>2, Zenon DEF Device!BytesOf

LEMMA IoSimulates ==
  ASSUME MacInv, MacPipe, IoThread
  PROVE  [Device!PipeNext]_(Device!pipe)
<1>1. UNCHANGED client
  BY DEF IoThread, IoReceive, IoDisconnected, IoSend, vars
<1>2. Accepted' = Accepted
  BY <1>1 DEF client, Accepted
<1>3. CASE IoReceive /\ run
  <2>1. packet' = packet /\ iopc # "exited" /\ iopc' # "exited"
    BY <1>3 DEF IoReceive, vars, transport
  <2> QED BY <1>2, <2>1, Unseen
<1>4. CASE (IoReceive /\ ~run) \/ IoDisconnected
  <2>1. packet' = packet /\ iopc # "exited" /\ iopc' = "exited"
    BY <1>4 DEF IoReceive, IoDisconnected, vars, transport
  <2>2. (iopc # "exited")' = FALSE /\ LastRecord(packet)' = LastRecord(packet)
    BY <2>1 DEF LastRecord
  <2> QED BY <1>2, <2>1, <2>2 DEF Device!PipeNext, Device!Shut
<1>5. CASE IoSend
  <2>1. iopc = "send" /\ iopc' = "recv" /\ packet' = item /\ item # << >> /\ item \in Seq(Cell)
        /\ Len(item) % RecLen = 0
    BY <1>5 DEF IoSend, MacInv, MacTypeOK, BufferLevels
  <2>2. Continues(item, LastRecord(packet)) /\ LastRecord(item) <= Accepted
    BY <2>1 DEF MacPipe, MacPipeInv, Linked, Alive
  <2>3. PICK n \in Nat \ {0} : Len(item) = n * RecLen
    BY <2>1, Records
  <2>4. PICK m \in Nat : LastRecord(packet) = m
    BY LastRecordIs DEF MacInv, MacTypeOK, CommonType
  <2>5. LastRecord(item) = m + n
    BY <2>1, <2>2, <2>3, <2>4, LastOf
  <2>6. item = Device!BytesOf(m, n)
    BY <2>1, <2>2, <2>3, <2>4, ItemIs
  <2>7. Accepted \in Int /\ Accepted <= MaxRecords /\ MaxRecords \in Nat /\ RecLen \in Nat \ {0}
    BY WriterAssumption DEF Accepted, MacInv, MacTypeOK, CommonType
  <2>8. n \in 1 .. Accepted - m
    BY <2>2, <2>4, <2>5, <2>7
  <2>9. n * RecLen < 1 + RecLen * MaxRecords
    <3>1. MaxRecords - n \in Int /\ MaxRecords - n >= 0
      BY <2>7, <2>8
    <3>2. RecLen * (MaxRecords - n) >= 0 /\ RecLen * (MaxRecords - n) = RecLen * MaxRecords - RecLen * n
      BY <2>7, <3>1, Scale, Distribute
    <3>3. n * RecLen = RecLen * n /\ RecLen * n \in Int /\ RecLen * MaxRecords \in Int
      BY <2>7, Linear
    <3> QED BY <3>2, <3>3
  <2>10. /\ LastRecord(packet)' = LastRecord(packet) + n
         /\ (iopc # "exited")' = (iopc # "exited") /\ iopc # "exited"
    BY <2>1, <2>4, <2>5 DEF LastRecord
  <2>11. packet' = Device!BytesOf(LastRecord(packet), n) /\ n \in 1 .. Accepted - LastRecord(packet)
    BY <2>1, <2>4, <2>6, <2>8
  <2>12. Device!Send
    BY <1>2, <2>9, <2>10, <2>11 DEF Device!Send
  <2> QED BY <2>12 DEF Device!PipeNext
<1> QED BY <1>3, <1>4, <1>5 DEF IoThread

(* Both threads, the ring and the channel are, for a disciplined client, a *)
(* pipe of records to the device.                                          *)
THEOREM MacPipeRefinement ==
  ASSUME Disciplined
  PROVE  MacSpec => MacImplementsPipe
<1>1. MacInit => Device!PipeInit
  <2> SUFFICES ASSUME MacInit PROVE Device!PipeInit
    OBVIOUS
  <2>1. Accepted = 0 /\ LastRecord(packet) = 0 /\ packet = << >> /\ (iopc # "exited") = TRUE
    BY DEF MacInit, Init, Accepted, LastRecord
  <2> QED BY <2>1 DEF Device!PipeInit
<1>2. MacInv /\ MacPipe /\ [MacNext]_macvars => [Device!PipeNext]_(Device!pipe)
  <2> SUFFICES ASSUME MacInv, MacPipe, [MacNext]_macvars
               PROVE  [Device!PipeNext]_(Device!pipe)
    OBVIOUS
  <2>1. CASE MacWriterStep \/ UNCHANGED macvars
    <3>1. UNCHANGED <<client, packet, iopc>>
      BY <2>1 DEF MacWriterStep, MacCheckRun, JoinIo, GatherPartial, MacGetByte, EndPacket,
         QueueMega, SameAsDefault, LockShared, StartWait, Wake, TakeFlush, TestRing, AnswerFlush,
         macvars, vars, transport, io
    <3>2. Accepted' = Accepted
      BY <3>1 DEF client, Accepted
    <3> QED BY <3>1, <3>2, Unseen
  <2> QED BY <2>1, MacClientSimulates, IoSimulates DEF MacNext, MacFinished
<1> QED BY <1>1, <1>2, MacPipeInductive, PTL DEF MacSpec, MacImplementsPipe, Device!PipeSpec
=============================================================================
