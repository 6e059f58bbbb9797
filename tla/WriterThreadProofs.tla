------------------------- MODULE WriterThreadProofs -------------------------
(***************************************************************************)
(* The writer thread never indexes past its buffers and frames every       *)
(* packet as whole records, for every ring, threshold and packet size that *)
(* satisfies WriterAssumption, and for every client.                       *)
(*                                                                         *)
(* PacketsFit is not inductive: that the next get fits follows from how    *)
(* full thread_buf may be at each place of the drain loop.  BufferInv adds *)
(* that: outside a record a packet below the limit is being collected, and *)
(* inside one the bytes taken are what lies above it.  CallInv adds what   *)
(* keeps the client's counters in their ranges.                            *)
(***************************************************************************)
EXTENDS WriterThread, RingIndexProofs, SequenceTheorems

BufferInv ==
  /\ wpc # "get" => got = 0
  /\ BufferPos - got < PacketLimit \/ wpc = "send"
  /\ BufferPos <= LenOut

CallInv ==
  /\ cpc = "put" => records >= 1 /\ records + left <= MaxRecords
  /\ cpc # "put" => left = 0

IInv == TypeOK /\ PacketsFit /\ LossIsCounted /\ BufferInv /\ CallInv

----------------------------------------------------------------------------
(* Counting modulo m. *)
LEMMA Scale ==
  ASSUME NEW m \in Nat \ {0}, NEW d \in Int
  PROVE  /\ d <= -1 => m * d <= -m
         /\ d >= 2 => m * d >= m + m
OBVIOUS

LEMMA Distribute ==
  ASSUME NEW m \in Nat, NEW p \in Int, NEW q \in Int
  PROVE  m * (p - q) = m * p - m * q
OBVIOUS

LEMMA ModSucc ==
  ASSUME NEW m \in Nat \ {0}, NEW a \in Nat
  PROVE  /\ a % m \in 0 .. m - 1
         /\ (a + 1) % m = ((a % m) + 1) % m
         /\ 0 % m = 0
<1> DEFINE q == a \div m
           r == a % m
           qq == (a + 1) \div m
           rr == (a + 1) % m
<1>1. q \in Int /\ r \in 0 .. m - 1 /\ a = m * q + r
  OBVIOUS
<1>2. qq \in Int /\ rr \in 0 .. m - 1 /\ a + 1 = m * qq + rr
  OBVIOUS
<1>3. (r + 1) % m = IF r + 1 = m THEN 0 ELSE r + 1
  BY <1>1
<1>4. rr = IF r + 1 = m THEN 0 ELSE r + 1
  <2> HIDE DEF q, r, qq, rr
  <2>1. m * qq - m * q = 1 + r - rr /\ m * q \in Int /\ m * qq \in Int
    BY <1>1, <1>2
  <2>2. m * (qq - q) = 1 + r - rr
    BY <1>1, <1>2, <2>1, Distribute
  <2>3. qq - q = 0 \/ qq - q = 1
    BY <1>1, <1>2, <2>2, Scale
  <2>4. CASE qq - q = 0
    BY <1>1, <1>2, <2>2, <2>4
  <2>5. CASE qq - q = 1
    BY <1>1, <1>2, <2>2, <2>5
  <2> QED BY <2>3, <2>4, <2>5
<1> QED BY <1>1, <1>3, <1>4

(* Division, where the quotient is known. *)
LEMMA DivMod ==
  ASSUME NEW m \in Nat \ {0}, NEW q \in Int, NEW j \in 0 .. m - 1
  PROVE  /\ (q * m + j) \div m = q
         /\ (q * m + j) % m = j
<1> DEFINE a == q * m + j
           d == a \div m
           r == a % m
<1>1. a \in Int /\ d \in Int /\ r \in 0 .. m - 1 /\ a = m * d + r
  OBVIOUS
<1> HIDE DEF d, r
<1>2. m * (q - d) = r - j
  BY <1>1, Distribute
<1>3. q - d = 0
  BY <1>1, <1>2, Scale
<1> QED BY <1>1, <1>2, <1>3 DEF d, r

(* The successor of a remainder. *)
LEMMA SmallModSucc ==
  ASSUME NEW m \in Nat \ {0}, NEW g \in 0 .. m - 1
  PROVE  (g + 1) % m = IF g + 1 = m THEN 0 ELSE g + 1
<1>1. g + 1 < m => (0 * m + (g + 1)) % m = g + 1
  BY DivMod
<1>2. (1 * m + 0) % m = 0
  BY DivMod
<1>3. 0 * m = 0 /\ 1 * m = m
  OBVIOUS
<1>4. g + 1 = m => g + 1 = 1 * m + 0
  BY <1>3
<1>5. g + 1 = 0 * m + (g + 1)
  BY <1>3
<1>6. g + 1 < m => (g + 1) % m = g + 1
  BY <1>1, <1>5, Zenon
<1>7. g + 1 = m => (g + 1) % m = 0
  BY <1>2, <1>4, Zenon
<1> QED BY <1>6, <1>7

----------------------------------------------------------------------------
LEMMA InitIInv == Init => IInv
<1> SUFFICES ASSUME Init PROVE IInv
  OBVIOUS
<1>1. buf \in [0 .. RingSize - 1 -> Cell]
  BY DEF Init, Cell
<1>2. Len(thread_buf) % RecLen = 0 /\ Len(packet) % RecLen = 0
  BY ModSucc, WriterAssumption DEF Init
<1> QED BY <1>1, <1>2, WriterAssumption
        DEF Init, IInv, TypeOK, CommonType, PacketsFit, LossIsCounted, BufferInv, CallInv, BufferPos

(* A call that writes n records begins. *)
LEMMA WriteType ==
  ASSUME CommonType, CallInv, NEW n \in 1 .. MaxBatch, Write(n)
  PROVE  CommonType' /\ CallInv'
<1>1. /\ BeginRecord(n) /\ records + n <= MaxRecords
      /\ UNCHANGED <<ring, shared, run, whole, flush_ret, writer, transport>>
      /\ cpc = "idle"
  BY DEF Write, MayCall
<1>2. n \in Nat \ {0} /\ records \in Nat /\ MaxRecords \in Nat /\ left = 0
  BY <1>1, WriterAssumption DEF CommonType, CallInv
<1>3. \/ cpc' = "idle" /\ left' = 0 /\ index' = 0 /\ records' = records
      \/ cpc' = "put" /\ left' = n - 1 /\ index' = 0 /\ records' = records + 1
  BY <1>1 DEF BeginRecord
<1>4. /\ cpc' \in {"idle", "put"} /\ left' \in Nat /\ index' = 0 /\ records' \in 0 .. MaxRecords
      /\ cpc' = "put" => records' >= 1 /\ records' + left' <= MaxRecords
      /\ cpc' # "put" => left' = 0
  BY <1>1, <1>2, <1>3
<1>5. CallInv'
  BY <1>4 DEF CallInv
<1>6. index' \in 0 .. RecLen
  BY <1>4, WriterAssumption
<1> QED BY <1>1, <1>4, <1>5, <1>6 DEF CommonType, ring, shared, writer, transport

(* The client keeps the types and its counters, whoever drains the ring. *)
LEMMA ClientType ==
  ASSUME CommonType, CallInv, Client
  PROVE  CommonType' /\ CallInv'
<1> USE WriterAssumption DEF CommonType, CallInv, ring, shared, client, writer, transport
<1>1. ASSUME NEW n \in 1 .. MaxBatch, Write(n)
      PROVE  CommonType' /\ CallInv'
  BY <1>1, WriteType
<1>2. CASE PutByte
  <2>1. Advance(write_pos, RingSize) \in 0 .. RingSize - 1
    BY AdvanceWraps
  <2>2. <<records, index + 1>> \in Cell
    BY <1>2 DEF PutByte, Cell, Byte
  <2>3. write_pos' \in 0 .. RingSize - 1
    BY <1>2, <2>1 DEF PutByte
  <2>4. buf' \in [0 .. RingSize - 1 -> Cell]
    BY <1>2, <2>2 DEF PutByte
  <2>5. /\ index' = index + 1 /\ index < RecLen /\ whole' \in BOOLEAN
        /\ UNCHANGED <<read_pos, shared, run, cpc, left, records, flush_ret, writer, transport>>
    BY <1>2 DEF PutByte
  <2>6. index' \in 0 .. RecLen
    BY <2>5
  <2> QED BY <2>3, <2>4, <2>5, <2>6
<1>3. CASE NextRecord
  BY <1>3 DEF NextRecord, BeginRecord
<1>4. CASE SetFlush
  BY <1>4 DEF SetFlush
<1>5. CASE ResetSids
  BY <1>5 DEF ResetSids
<1>6. CASE FlushBegin
  BY <1>6 DEF FlushBegin, MayCall
<1>7. CASE FlushReturn \/ FlushTimeout
  BY <1>7 DEF FlushReturn, FlushTimeout
<1>8. CASE Close
  BY <1>8 DEF Close
<1>9. CASE Join
  BY <1>9 DEF Join
<1> QED BY <1>1, <1>2, <1>3, <1>4, <1>5, <1>6, <1>7, <1>8, <1>9 DEF Client, InCall

(* The client touches its own state, the ring and the flush request, never *)
(* what the writer keeps.                                                  *)
LEMMA ClientKeeps ==
  ASSUME IInv, Client
  PROVE  IInv'
<1>1. UNCHANGED <<writer, transport>>
  BY DEF Client, InCall, Write, PutByte, NextRecord, SetFlush, ResetSids, FlushBegin,
         FlushReturn, FlushTimeout, Close, Join
<1>2. (PacketsFit /\ LossIsCounted /\ BufferInv)'
  BY <1>1 DEF IInv, PacketsFit, LossIsCounted, BufferInv, BufferPos, writer, transport
<1>3. CommonType' /\ CallInv'
  BY ClientType DEF IInv, TypeOK
<1> QED BY <1>1, <1>2, <1>3 DEF IInv, TypeOK, writer

(* A step of the writer that leaves the client and the ring alone. *)
LEMMA CommonKept ==
  ASSUME CommonType, UNCHANGED <<ring, shared, run, client, flushing>>,
         thread_buf' \in Seq(Cell), got' \in 0 .. RecLen - 1,
         writer_errors' \in 0 .. MaxErrors, packet' \in Seq(Cell),
         wire' \subseteq {"lost", "twice", "short"}
  PROVE  CommonType'
BY DEF CommonType, ring, shared, client

(* A send and its retry: no packet is lost or doubled uncounted. *)
LEMMA AttemptCounted ==
  ASSUME CommonType, LossIsCounted, NEW first \in Attempt, NEW retry \in Attempt,
         writer_errors + Errors(first, retry) <= MaxErrors,
         writer_errors' = writer_errors + Errors(first, retry),
         wire' = wire \cup Mishaps(first, retry)
  PROVE  /\ writer_errors' \in 0 .. MaxErrors
         /\ wire' \subseteq {"lost", "twice", "short"}
         /\ LossIsCounted'
<1>1. Errors(first, retry) \in 0 .. 2
  BY DEF Errors
<1>2. writer_errors' \in 0 .. MaxErrors
  BY <1>1 DEF CommonType
<1>3. wire' \subseteq {"lost", "twice", "short"}
  BY DEF CommonType, Mishaps
<1>4. ASSUME "lost" \in Mishaps(first, retry)
      PROVE  "short" \in Mishaps(first, retry) \/ Errors(first, retry) = 2
  <2>1. CASE first.ok
    <3>1. first.reached # "all"
      BY <1>4, <2>1 DEF Mishaps
    <3>2. first.reached = "part"
      BY <2>1, <3>1 DEF Attempt
    <3> QED BY <2>1, <3>2 DEF Mishaps
  <2>2. CASE ~first.ok /\ retry.ok
    <3>1. retry.reached # "all"
      BY <1>4, <2>2 DEF Mishaps
    <3>2. retry.reached = "part"
      BY <2>2, <3>1 DEF Attempt
    <3> QED BY <2>2, <3>2 DEF Mishaps
  <2>3. CASE ~first.ok /\ ~retry.ok
    BY <2>3 DEF Errors
  <2> QED BY <2>1, <2>2, <2>3
<1>5. ASSUME "twice" \in Mishaps(first, retry)
      PROVE  Errors(first, retry) >= 1
  <2>1. ~first.ok
    BY <1>5 DEF Mishaps
  <2> QED BY <2>1 DEF Errors
<1>6. LossIsCounted'
  BY <1>1, <1>4, <1>5 DEF LossIsCounted, CommonType
<1> QED BY <1>2, <1>3, <1>6

(* What a send leaves behind. *)
LEMMA TransmitFacts ==
  ASSUME IInv, got = 0, Transmit
  PROVE  /\ thread_buf' = << >>
         /\ packet' \in Seq(Cell) /\ Len(packet') % RecLen = 0 /\ Len(packet') < LenOut
         /\ writer_errors' \in 0 .. MaxErrors
         /\ wire' \subseteq {"lost", "twice", "short"}
         /\ LossIsCounted'
<1>1. thread_buf' = << >> /\ packet' = thread_buf /\ thread_buf \in Seq(Cell)
  BY DEF Transmit, IInv, TypeOK, CommonType
<1>2. Len(thread_buf) % RecLen = 0
  BY DEF IInv, PacketsFit
<1>3. Len(thread_buf) < LenOut
  BY WriterAssumption, <1>1 DEF IInv, BufferInv, BufferPos
<1> QED BY <1>1, <1>2, <1>3, AttemptCounted DEF Transmit, IInv, TypeOK

(* A step that sends keeps the invariant. *)
LEMMA SendingStep ==
  ASSUME IInv, wpc # "get", Transmit, wpc' \in {"test", "answer"},
         UNCHANGED <<ring, shared, run, client, flushing, got>>
  PROVE  IInv'
<1>1. got = 0 /\ got' = 0
  BY DEF IInv, BufferInv
<1>2. /\ thread_buf' = << >>
      /\ packet' \in Seq(Cell) /\ Len(packet') % RecLen = 0 /\ Len(packet') < LenOut
      /\ writer_errors' \in 0 .. MaxErrors
      /\ wire' \subseteq {"lost", "twice", "short"}
      /\ LossIsCounted'
  BY <1>1, TransmitFacts
<1>3. 0 % RecLen = 0 /\ thread_buf' \in Seq(Cell)
  BY <1>2, ModSucc, WriterAssumption
<1>4. TypeOK'
  BY <1>1, <1>2, <1>3 DEF IInv, TypeOK, CommonType, ring, shared, client
<1>5. PacketsFit' /\ BufferInv'
  BY <1>1, <1>2, <1>3, WriterAssumption DEF PacketsFit, BufferInv, BufferPos
<1>6. CallInv'
  BY DEF IInv, CallInv, client
<1> QED BY <1>2, <1>4, <1>5, <1>6 DEF IInv

(* A step that leaves the bytes alone and does not start a record keeps it. *)
LEMMA QuietStep ==
  ASSUME IInv, wpc \notin {"get", "send"}, wpc' \notin {"send"},
         flush' \in BOOLEAN, flush_done' \in BOOLEAN, flushing' \in BOOLEAN,
         wpc' \in {"top", "lock", "wait", "pre_flush", "test", "get", "post_flush",
                  "answer", "exited"},
         UNCHANGED <<ring, run, client, thread_buf, got, transport>>
  PROVE  IInv'
<1> USE DEF IInv, ring, client, transport
<1>1. TypeOK'
  BY DEF TypeOK, CommonType
<1>2. BufferInv'
  BY DEF BufferInv, BufferPos
<1>3. PacketsFit'
  <2>1. got = 0 /\ BufferPos < PacketLimit /\ BufferPos' = BufferPos
    BY DEF BufferInv, TypeOK, CommonType, BufferPos
  <2>2. BufferPos' < LenOut
    BY <2>1, WriterAssumption DEF BufferPos, TypeOK, CommonType
  <2> QED BY <2>2 DEF PacketsFit
<1>4. LossIsCounted' /\ CallInv'
  BY DEF LossIsCounted, CallInv
<1> QED BY <1>1, <1>2, <1>3, <1>4

(* Taking a byte: the limit of a packet leaves room for the record that is *)
(* begun below it.                                                         *)
LEMMA GetFacts ==
  ASSUME CommonType, Len(thread_buf) % RecLen = got,
         BufferPos - got < PacketLimit, BufferPos < LenOut,
         got' = (got + 1) % RecLen,
         thread_buf' = Append(thread_buf, buf[read_pos]),
         read_pos' = Advance(read_pos, RingSize),
         UNCHANGED <<buf, write_pos, shared, run, client, flushing, transport>>
  PROVE  /\ CommonType'
         /\ Len(thread_buf') % RecLen = got'
         /\ got' = IF got + 1 = RecLen THEN 0 ELSE got + 1
         /\ BufferPos' = BufferPos + 1 /\ BufferPos \in Nat
         /\ got' # 0 => BufferPos' < LenOut /\ BufferPos' - got' < PacketLimit
         /\ BufferPos' <= LenOut
<1>1. /\ thread_buf \in Seq(Cell) /\ buf[read_pos] \in Cell
      /\ got \in 0 .. RecLen - 1 /\ Len(thread_buf) \in Nat /\ RecLen \in Nat \ {0}
  <2>1. thread_buf \in Seq(Cell) /\ got \in 0 .. RecLen - 1 /\ buf[read_pos] \in Cell
    BY DEF CommonType
  <2> QED BY <2>1, LenProperties, WriterAssumption
<1>2. thread_buf' \in Seq(Cell) /\ Len(thread_buf') = Len(thread_buf) + 1
  BY <1>1, AppendProperties
<1>3. read_pos' \in 0 .. RingSize - 1
  BY AdvanceWraps, WriterAssumption DEF CommonType
<1>4. /\ got' = IF got + 1 = RecLen THEN 0 ELSE got + 1
      /\ got' \in 0 .. RecLen - 1
  <2>1. (got + 1) % RecLen = IF got + 1 = RecLen THEN 0 ELSE got + 1
    BY <1>1, SmallModSucc
  <2>2. got' = IF got + 1 = RecLen THEN 0 ELSE got + 1
    BY <2>1, Zenon
  <2> QED BY <1>1, <2>2
<1>5. Len(thread_buf') % RecLen = got'
  <2>1. (Len(thread_buf) + 1) % RecLen = (got + 1) % RecLen
    BY <1>1, ModSucc
  <2> QED BY <1>2, <2>1
<1>6. CommonType'
  BY <1>2, <1>3, <1>4 DEF CommonType, shared, client, transport
<1>7. BufferPos' = BufferPos + 1 /\ BufferPos \in Nat
  BY <1>1, <1>2 DEF BufferPos
<1>8. got' # 0 => BufferPos' < LenOut /\ BufferPos' - got' < PacketLimit
  <2>1. got + 1 = RecLen => got' = 0
    BY <1>4
  <2>2. got + 1 # RecLen => got' = got + 1
    BY <1>4
  <2>3. PacketLimit \in Nat /\ LenOut \in Nat /\ PacketLimit + RecLen <= LenOut + 1
    BY WriterAssumption
  <2>4. BufferPos - got < PacketLimit
    OBVIOUS
  <2>5. CASE got + 1 = RecLen
    BY <2>1, <2>5
  <2>6. CASE got + 1 # RecLen
    BY <1>1, <1>7, <2>2, <2>3, <2>4, <2>6
  <2> QED BY <2>5, <2>6
<1>9. BufferPos' <= LenOut
  BY <1>7, WriterAssumption
<1> QED BY <1>4, <1>5, <1>6, <1>7, <1>8, <1>9

LEMMA GetStep ==
  ASSUME IInv, GetByte
  PROVE  IInv'
<1>1. /\ wpc = "get" /\ got' = (got + 1) % RecLen
      /\ thread_buf' = Append(thread_buf, buf[read_pos])
      /\ read_pos' = Advance(read_pos, RingSize)
      /\ wpc' = IF got' # 0 THEN "get"
                ELSE IF BufferPos' >= PacketLimit \/ BufferPos' >= LenOut THEN "send"
                ELSE "test"
      /\ UNCHANGED <<buf, write_pos, shared, run, client, flushing, transport>>
  BY DEF GetByte
<1>2. /\ CommonType /\ Len(thread_buf) % RecLen = got
      /\ BufferPos - got < PacketLimit /\ BufferPos < LenOut
  BY <1>1 DEF IInv, TypeOK, PacketsFit, BufferInv
<1>3. /\ CommonType'
      /\ Len(thread_buf') % RecLen = got'
      /\ got' = IF got + 1 = RecLen THEN 0 ELSE got + 1
      /\ BufferPos' = BufferPos + 1 /\ BufferPos \in Nat
      /\ got' # 0 => BufferPos' < LenOut /\ BufferPos' - got' < PacketLimit
      /\ BufferPos' <= LenOut
  BY <1>1, <1>2, GetFacts
<1>4. TypeOK' /\ LossIsCounted' /\ CallInv'
  BY <1>1, <1>3 DEF IInv, TypeOK, LossIsCounted, CallInv, client, transport
<1>5. BufferInv'
  BY <1>1, <1>3, WriterAssumption DEF BufferInv
<1>6. PacketsFit'
  BY <1>1, <1>3 DEF IInv, PacketsFit, transport
<1> QED BY <1>4, <1>5, <1>6 DEF IInv

LEMMA WriterKeeps ==
  ASSUME IInv, Writer
  PROVE  IInv'
<1> USE DEF shared
<1>1. flush \in BOOLEAN /\ flush_done \in BOOLEAN /\ flushing \in BOOLEAN
  BY DEF IInv, TypeOK, CommonType
<1>2. CASE CheckRun
  BY <1>1, <1>2, QuietStep DEF CheckRun
<1>3. CASE LockShared \/ Wake
  BY <1>1, <1>3, QuietStep DEF LockShared, Wake, TakeFlush
<1>4. CASE StartWait
  BY <1>1, <1>4, QuietStep DEF StartWait
<1>5. CASE PreFlush
  <2>1. CASE HasPartialPacket
    BY <1>5, <2>1, SendingStep DEF PreFlush
  <2>2. CASE ~HasPartialPacket
    BY <1>1, <1>5, <2>2, QuietStep DEF PreFlush
  <2> QED BY <2>1, <2>2
<1>6. CASE TestRing
  BY <1>1, <1>6, QuietStep DEF TestRing
<1>7. CASE GetByte
  BY <1>7, GetStep
<1>8. CASE SendFull
  BY <1>8, SendingStep DEF SendFull
<1>9. CASE PostFlush
  <2>1. CASE HasPartialPacket
    BY <1>9, <2>1, SendingStep DEF PostFlush
  <2>2. CASE ~HasPartialPacket
    BY <1>1, <1>9, <2>2, QuietStep DEF PostFlush
  <2> QED BY <2>1, <2>2
<1>10. CASE AnswerFlush
  BY <1>1, <1>10, QuietStep DEF AnswerFlush
<1> QED BY <1>2, <1>3, <1>4, <1>5, <1>6, <1>7, <1>8, <1>9, <1>10 DEF Writer

LEMMA Inductive == Spec => []IInv
<1>1. IInv /\ [Next]_vars => IInv'
  <2> SUFFICES ASSUME IInv, [Next]_vars PROVE IInv'
    OBVIOUS
  <2>1. CASE UNCHANGED vars
    BY <2>1 DEF vars, IInv, TypeOK, CommonType, PacketsFit, LossIsCounted, BufferInv, CallInv,
       BufferPos, ring, shared, client, writer, transport
  <2> QED BY <2>1, ClientKeeps, WriterKeeps DEF Next, Finished
<1> QED BY <1>1, InitIInv, PTL DEF Spec

(* Every variable stays in its type, for every client.                     *)
THEOREM TypeCorrect == Spec => []TypeOK
<1>1. IInv => TypeOK
  BY DEF IInv
<1> QED BY <1>1, Inductive, PTL

(* The writer thread never indexes past thread_buf and every packet is a   *)
(* whole number of records, for every client and every interleaving.       *)
THEOREM FramingCorrect == Spec => []PacketsFit
<1>1. IInv => PacketsFit
  BY DEF IInv
<1> QED BY <1>1, Inductive, PTL

(* No packet is lost or sent twice without the error counter or a short    *)
(* transfer telling, for every outcome of every send and retry.            *)
THEOREM LossCounted == Spec => []LossIsCounted
<1>1. IInv => LossIsCounted
  BY DEF IInv
<1> QED BY <1>1, Inductive, PTL
=============================================================================
