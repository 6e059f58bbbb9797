-------------------------- MODULE WriterPipeProofs --------------------------
(***************************************************************************)
(* For a disciplined client the two threads and the ring are a pipe of     *)
(* records, for every ring, threshold, packet size and number of records.  *)
(*                                                                         *)
(* The argument counts bytes.  What was sent, what thread_buf holds and    *)
(* what lies unread in the ring are, in this order, exactly the bytes that *)
(* were stored (Content).  A record starts at a multiple of its length in  *)
(* the ring (Aligned), so that a record never wraps, and a drain that      *)
(* has begun one finds the rest of it (Ready): without a flush because     *)
(* has_data's distance is then a lower bound of what is unread, with one   *)
(* because the client is not in the middle of a record (Phases).           *)
(***************************************************************************)
EXTENDS WriterThreadProofs

Sent == LastRecord(packet)

(* What the argument needs of the types, whichever writer drains the ring. *)
Shape ==
  /\ CommonType
  /\ Len(thread_buf) % RecLen = got
  /\ wpc # "get" => got = 0

(* base is the last record that left thread_buf. *)
Content(base) ==
  /\ cpc # "closed" => base * RecLen + Len(thread_buf) + Fill = Stored
  /\ \A i \in 1 .. Len(thread_buf) : thread_buf[i] = ByteOf(base, i)
  /\ \A k \in 0 .. Fill - 1 :
       buf[Slot(read_pos, k, RingSize)] = ByteOf(base, Len(thread_buf) + k + 1)

Aligned == read_pos % RecLen = got

(* The rest of a write call fits the ring. *)
Room == cpc = "put" => Fill + (RecLen - index) + left * RecLen < RingSize

Ready ==
  /\ wpc = "get" => Fill >= RecLen - got
  /\ wpc = "send" => thread_buf # << >>

Phases ==
  /\ cpc = "put" => ~flush /\ ~flushing
  /\ cpc \notin {"joining", "closed"} => run
  /\ run => wpc # "exited"
  /\ cpc = "closed" => wpc = "exited"
  /\ wpc \in {"pre_flush", "post_flush", "answer"} => flushing
  /\ wpc \in {"top", "lock", "wait", "exited"} => ~flushing

Flushed ==
  /\ wpc \in {"post_flush", "answer"} => Fill = 0
  /\ wpc = "answer" => thread_buf = << >>
  /\ cpc = "flush_wait" /\ flush_done => Fill = 0 /\ thread_buf = << >>

PipeInv(base) == Content(base) /\ Aligned /\ Room /\ Ready /\ Phases /\ Flushed

----------------------------------------------------------------------------
LEMMA Linear ==
  ASSUME NEW m \in Nat, NEW p \in Int, NEW q \in Int
  PROVE  /\ (p + q) * m = p * m + q * m
         /\ m * p = p * m /\ p * m \in Int
OBVIOUS

(* A multiple of m is m at least, and 0 if it is less. *)
LEMMA Multiple ==
  ASSUME NEW m \in Nat \ {0}, NEW a \in Nat, a % m = 0
  PROVE  /\ a \div m \in Nat /\ a = (a \div m) * m
         /\ a # 0 => a >= m /\ a \div m >= 1
<1> DEFINE d == a \div m
<1>1. d \in Int /\ a = m * d
  OBVIOUS
<1> HIDE DEF d
<1>2. d >= 0
  BY <1>1, Scale
<1>3. a # 0 => d >= 1
  BY <1>1, <1>2
<1>4. d >= 1 => m * d >= m
  BY <1>1, Scale
<1> QED BY <1>1, <1>2, <1>3, <1>4 DEF d

(* A multiple of m below another one lies m below it at least. *)
LEMMA MultipleBelow ==
  ASSUME NEW m \in Nat \ {0}, NEW a \in Nat, a % m = 0, NEW b \in Nat, b % m = 0, a < b
  PROVE  a <= b - m
<1>1. PICK p \in Nat : a = p * m
  BY Multiple
<1>2. PICK q \in Nat : b = q * m
  BY Multiple
<1>3. m * (q - p) = b - a
  BY <1>1, <1>2, Distribute
<1>4. q - p >= 1
  BY <1>1, <1>2, <1>3, Scale
<1>5. m * (q - p) >= m
  BY <1>4, Scale
<1> QED BY <1>3, <1>5

(* The j-th byte of a record, by its number after the m-th record. *)
LEMMA ByteNumber ==
  ASSUME NEW m \in Int, NEW q \in Int, NEW j \in 0 .. RecLen - 1
  PROVE  ByteOf(m, q * RecLen + j + 1) = <<m + 1 + q, j + 1>>
<1>1. /\ (q * RecLen + j) \div RecLen = q
      /\ (q * RecLen + j) % RecLen = j
  BY DivMod, WriterAssumption
<1>2. q * RecLen + j + 1 - 1 = q * RecLen + j
  BY WriterAssumption
<1> QED BY <1>1, <1>2, WriterAssumption DEF ByteOf

(* Bytes numbered from a later record. *)
LEMMA ByteShift ==
  ASSUME NEW m \in Int, NEW n \in Int, NEW i \in Int
  PROVE  ByteOf(m + n, i) = ByteOf(m, n * RecLen + i)
<1> DEFINE d == (i - 1) \div RecLen
           r == (i - 1) % RecLen
<1>1. d \in Int /\ r \in 0 .. RecLen - 1 /\ i - 1 = RecLen * d + r
  BY WriterAssumption
<1> HIDE DEF d, r
<1>2. i = d * RecLen + r + 1 /\ n * RecLen + i = (n + d) * RecLen + r + 1
  <2>1. RecLen \in Nat
    BY WriterAssumption
  <2>2. RecLen * d = d * RecLen /\ (n + d) * RecLen = n * RecLen + d * RecLen
    BY <1>1, <2>1, Linear
  <2>3. d * RecLen \in Int /\ n * RecLen \in Int
    BY <1>1, <2>1, Linear
  <2> DEFINE x == d * RecLen
             y == n * RecLen
             z == (n + d) * RecLen
  <2>4. i - 1 = x + r /\ z = y + x /\ x \in Int /\ y \in Int
    BY <1>1, <2>2, <2>3
  <2> HIDE DEF x, y, z
  <2>5. i = x + r + 1 /\ y + i = z + r + 1
    BY <1>1, <2>4
  <2> QED BY <2>5 DEF x, y, z
<1>3. m + n \in Int /\ n + d \in Int
  BY <1>1
<1>4. ByteOf(m + n, d * RecLen + r + 1) = <<(m + n) + 1 + d, r + 1>>
  BY <1>1, <1>3, ByteNumber, Zenon
<1>5. ByteOf(m, (n + d) * RecLen + r + 1) = <<m + 1 + (n + d), r + 1>>
  BY <1>1, <1>3, ByteNumber, Zenon
<1>6. ByteOf(m + n, i) = <<m + n + 1 + d, r + 1>>
  BY <1>2, <1>4, Zenon
<1>7. ByteOf(m, n * RecLen + i) = <<m + 1 + (n + d), r + 1>>
  BY <1>2, <1>5, Zenon
<1> QED BY <1>1, <1>6, <1>7

----------------------------------------------------------------------------
LEMMA FillIs ==
  ASSUME CommonType
  PROVE  /\ Fill \in 0 .. RingSize - 1
         /\ IsFull(read_pos, write_pos, RingSize) <=> Fill = RingSize - 1
         /\ IsEmpty(read_pos, write_pos) <=> Fill = 0
BY FullAndEmptyExact, WriterAssumption DEF CommonType, Fill

LEMMA LastRecordIs ==
  ASSUME NEW s \in Seq(Cell)
  PROVE  LastRecord(s) \in Nat
<1>1. CASE s = << >>
  BY <1>1 DEF LastRecord
<1>2. CASE s # << >>
  <2>1. Len(s) \in 1 .. Len(s)
    BY <1>2, EmptySeq
  <2>2. s[Len(s)] \in Cell
    BY <2>1, ElementOfSeq
  <2> QED BY <1>2, <2>2, WriterAssumption DEF LastRecord, Cell, Byte, Blank
<1> QED BY <1>1, <1>2

LEMMA InitPipe == Disciplined /\ Init => PipeInv(0)
<1> SUFFICES ASSUME Disciplined, Init PROVE PipeInv(0)
  OBVIOUS
<1>1. Fill = 0 /\ Stored = 0 /\ Len(thread_buf) = 0
  BY WriterAssumption DEF Init, Fill, Unread, Stored
<1>2. Content(0)
  BY <1>1, WriterAssumption DEF Init, Content
<1>3. Aligned
  BY ModSucc, WriterAssumption DEF Init, Aligned
<1> QED BY <1>1, <1>2, <1>3 DEF Init, PipeInv, Room, Ready, Phases, Flushed

(* A step that moves no byte keeps the content. *)
LEMMA ContentStays ==
  ASSUME NEW base \in Nat, PipeInv(base), UNCHANGED <<ring, thread_buf, got>>,
         Stored' = Stored, cpc = "closed" => cpc' = "closed"
  PROVE  Content(base)' /\ Aligned' /\ Fill' = Fill
<1>1. Fill' = Fill
  BY DEF Fill, ring
<1> QED BY <1>1 DEF PipeInv, Content, Aligned, ring

----------------------------------------------------------------------------
(* The client. *)
LEMMA WritePipe ==
  ASSUME Disciplined, Shape, NEW base \in Nat, PipeInv(base), NEW n \in 1 .. MaxBatch, Write(n)
  PROVE  PipeInv(base)'
<1>1. /\ cpc = "idle" /\ ~flush /\ ~flushing /\ Fill + n * RecLen < RingSize
      /\ UNCHANGED <<ring, shared, run, writer, transport>>
  BY FillIs, WriterAssumption DEF Write, MayCall, FlushInProgress, Disciplined, Shape
<1>2. /\ cpc' \in {"idle", "put"}
      /\ cpc' = "put" => left' = n - 1 /\ index' = 0 /\ records' = records + 1
      /\ cpc' = "idle" => records' = records
  BY DEF Write, BeginRecord
<1>3. Stored' = Stored
  BY <1>1, <1>2, WriterAssumption DEF Stored, Shape, CommonType
<1>4. Content(base)' /\ Aligned' /\ Fill' = Fill
  BY <1>1, <1>3, ContentStays DEF writer, transport
<1>5. Room'
  <2>1. n * RecLen = (n - 1) * RecLen + RecLen
    BY WriterAssumption
  <2> QED BY <1>1, <1>2, <1>4, <2>1, FillIs, WriterAssumption DEF Room, Shape
<1> QED BY <1>1, <1>2, <1>4, <1>5 DEF PipeInv, Ready, Phases, Flushed, shared, writer

LEMMA NextRecordPipe ==
  ASSUME Disciplined, Shape, NEW base \in Nat, PipeInv(base), NextRecord
  PROVE  PipeInv(base)'
<1>1. /\ cpc = "put" /\ index = RecLen /\ left \in Nat
      /\ UNCHANGED <<ring, shared, run, writer, transport>>
  BY DEF NextRecord, Shape, CommonType
<1>2. /\ cpc' \in {"idle", "put"}
      /\ cpc' = "put" => left # 0 /\ left' = left - 1 /\ index' = 0 /\ records' = records + 1
      /\ cpc' = "idle" => records' = records
  BY <1>1 DEF NextRecord, BeginRecord
<1>3. Stored' = Stored
  <2>1. records \in Nat /\ RecLen \in Nat
    BY WriterAssumption DEF Shape, CommonType
  <2>2. (records - 1) * RecLen + RecLen = records * RecLen
    BY <2>1
  <2> QED BY <1>1, <1>2, <2>1, <2>2, WriterAssumption DEF Stored
<1>4. Content(base)' /\ Aligned' /\ Fill' = Fill
  BY <1>1, <1>3, ContentStays DEF writer, transport
<1>5. Room'
  <2>1. left * RecLen = (left - 1) * RecLen + RecLen
    BY <1>1, WriterAssumption
  <2> QED BY <1>1, <1>2, <1>4, <2>1, FillIs, WriterAssumption DEF Room, Shape, PipeInv
<1> QED BY <1>1, <1>2, <1>4, <1>5 DEF PipeInv, Ready, Phases, Flushed, shared, writer

(* No put is refused. *)
LEMMA RoomToPut ==
  ASSUME Shape, NEW base \in Nat, PipeInv(base), cpc = "put", index < RecLen
  PROVE  ~IsFull(read_pos, write_pos, RingSize)
<1>1. left \in Nat /\ index \in Nat /\ RecLen \in Nat /\ RingSize \in Nat /\ Fill \in Nat
  BY FillIs, WriterAssumption DEF Shape, CommonType
<1>2. left * RecLen \in Nat
  BY <1>1
<1> QED BY <1>1, <1>2, FillIs DEF Shape, PipeInv, Room

(* The byte stored is the next one. *)
LEMMA PutPipe ==
  ASSUME Disciplined, Shape, NEW base \in Nat, PipeInv(base), PutByte
  PROVE  PipeInv(base)'
<1> DEFINE n == Fill
           b == Len(thread_buf)
<1>1. /\ cpc = "put" /\ index \in 0 .. RecLen - 1 /\ left \in Nat /\ records \in Nat
      /\ RecLen \in Nat \ {0} /\ b \in Nat /\ n \in Nat
      /\ UNCHANGED <<shared, run, cpc, left, records, writer, transport>> /\ index' = index + 1
  BY FillIs, WriterAssumption, LenProperties DEF PutByte, Shape, CommonType
<1>2. left * RecLen \in Nat
  BY <1>1
<1>3. ~IsFull(read_pos, write_pos, RingSize)
  BY RoomToPut DEF PutByte
<1>4. /\ buf' = [buf EXCEPT ![write_pos] = <<records, index + 1>>]
      /\ write_pos' = Advance(write_pos, RingSize) /\ read_pos' = read_pos
  BY <1>3 DEF PutByte
<1>5. Fill' = n + 1 /\ Slot(read_pos, n, RingSize) = write_pos
  BY <1>3, <1>4, PutAddsOne, WriterAssumption DEF Shape, CommonType, Fill
<1>6. thread_buf' = thread_buf /\ got' = got
  BY <1>1 DEF writer
<1>7. base * RecLen + b + n = (records - 1) * RecLen + index
  BY <1>1 DEF PipeInv, Content, Stored, Phases
<1>8. <<records, index + 1>> = ByteOf(base, b + n + 1)
  <2>1. (records - 1 - base) * RecLen = (records - 1) * RecLen - base * RecLen
    BY <1>1, <1>6
  <2>2. (records - 1 - base) * RecLen + index + 1 = b + n + 1
    BY <1>1, <1>6, <1>7, <2>1
  <2>3. records - 1 - base \in Int /\ base \in Int
    BY <1>1, <1>6
  <2>4. ByteOf(base, (records - 1 - base) * RecLen + index + 1) = <<base + 1 + (records - 1 - base), index + 1>>
    BY <1>1, <2>3, ByteNumber, Zenon
  <2>5. ByteOf(base, b + n + 1) = <<base + 1 + (records - 1 - base), index + 1>>
    BY <2>2, <2>4, Zenon
  <2> QED BY <1>1, <1>6, <2>5
<1>9. Content(base)'
  <2>1. (cpc # "closed" => base * RecLen + Len(thread_buf) + Fill = Stored)'
    BY <1>1, <1>5, <1>6, <1>7 DEF Stored
  <2>2. ASSUME NEW i \in 1 .. Len(thread_buf') PROVE (thread_buf[i] = ByteOf(base, i))'
    BY <1>6 DEF PipeInv, Content, ByteOf
  <2>3. ASSUME NEW k \in 0 .. n
        PROVE  buf'[Slot(read_pos, k, RingSize)] = ByteOf(base, b + k + 1)
    <3>1. CASE k = n
      BY <1>1, <1>4, <1>5, <1>8, <3>1 DEF Shape, CommonType
    <3>2. CASE k # n
      <4>1. k \in 0 .. n - 1
        BY <1>1, <3>2
      <4>2. Slot(read_pos, k, RingSize) \in (0 .. RingSize - 1) \ {write_pos}
        BY <4>1, UnreadCells, WriterAssumption DEF Shape, CommonType, Fill
      <4>3. buf[Slot(read_pos, k, RingSize)] = ByteOf(base, b + k + 1)
        BY <4>1 DEF PipeInv, Content
      <4> QED BY <1>4, <4>2, <4>3 DEF Shape, CommonType
    <3> QED BY <3>1, <3>2
  <2>4. \A k \in 0 .. Fill' - 1 :
          buf'[Slot(read_pos', k, RingSize)] = ByteOf(base', Len(thread_buf') + k + 1)
    BY <1>1, <1>4, <1>5, <1>6, <2>3
  <2> QED BY <2>1, <2>2, <2>4 DEF Content, ByteOf
<1>10. Room'
  BY <1>1, <1>2, <1>5 DEF PipeInv, Room
<1>11. Aligned' /\ Ready'
  <2>1. got \in Nat /\ wpc' = wpc
    BY <1>1 DEF Shape, CommonType, writer
  <2> QED BY <1>1, <1>4, <1>5, <1>6, <2>1 DEF PipeInv, Aligned, Ready
<1>12. ~flushing /\ Phases'
  BY <1>1 DEF PipeInv, Phases, shared, writer
<1>13. Flushed'
  BY <1>1, <1>12 DEF PipeInv, Phases, Flushed, shared, writer
<1> QED BY <1>9, <1>10, <1>11, <1>12, <1>13 DEF PipeInv

(* The calls that signal, wait and close. *)
LEMMA SignalPipe ==
  ASSUME Disciplined, Shape, NEW base \in Nat, PipeInv(base),
         SetFlush \/ ResetSids \/ FlushBegin \/ FlushReturn \/ FlushTimeout \/ Close
  PROVE  PipeInv(base)'
<1>1. /\ cpc # "put" /\ cpc' \notin {"put", "closed"} /\ cpc # "closed"
      /\ UNCHANGED <<ring, records, writer, transport>>
  BY DEF SetFlush, ResetSids, FlushBegin, FlushReturn, FlushTimeout, Close, MayCall, client
<1>2. Stored' = Stored
  BY <1>1 DEF Stored
<1>3. Content(base)' /\ Aligned' /\ Fill' = Fill
  BY <1>1, <1>2, ContentStays DEF writer, transport
<1>4. Room' /\ Ready'
  BY <1>1, <1>3 DEF PipeInv, Room, Ready, writer
<1>5. Phases'
  BY DEF PipeInv, Phases, SetFlush, ResetSids, FlushBegin, FlushReturn, FlushTimeout, Close,
         MayCall, client, shared, writer
<1>6. Flushed'
  BY <1>3 DEF PipeInv, Flushed, SetFlush, ResetSids, FlushBegin, FlushReturn, FlushTimeout,
         Close, MayCall, client, shared, writer
<1> QED BY <1>3, <1>4, <1>5, <1>6 DEF PipeInv

LEMMA JoinPipe ==
  ASSUME Disciplined, Shape, NEW base \in Nat, PipeInv(base), Join
  PROVE  PipeInv(base)'
<1>1. /\ cpc' = "closed" /\ wpc = "exited" /\ read_pos' = 0 /\ write_pos' = 0
      /\ UNCHANGED <<buf, shared, run, records, writer, transport>>
  BY DEF Join
<1>2. Fill' = 0 /\ got = 0
  BY <1>1, WriterAssumption DEF Fill, Unread, Shape
<1>3. Content(base)'
  BY <1>1, <1>2 DEF PipeInv, Content, writer, ByteOf
<1>4. Aligned'
  BY <1>1, <1>2, ModSucc, WriterAssumption DEF Aligned, writer
<1>5. Room' /\ Ready' /\ Phases' /\ Flushed'
  BY <1>1 DEF PipeInv, Room, Ready, Phases, Flushed, shared, writer, Join
<1> QED BY <1>3, <1>4, <1>5 DEF PipeInv

LEMMA ClientPipe ==
  ASSUME Disciplined, Shape, NEW base \in Nat, PipeInv(base), Client
  PROVE  PipeInv(base)'
BY WritePipe, NextRecordPipe, PutPipe, SignalPipe, JoinPipe DEF Client, InCall

----------------------------------------------------------------------------
(* The writer. *)

(* Steps at which no byte moves and no drain step is due. *)
LEMMA WaitPipe ==
  ASSUME Disciplined, Shape, NEW base \in Nat, PipeInv(base),
         CheckRun \/ LockShared \/ StartWait \/ Wake \/ AnswerFlush
  PROVE  PipeInv(base)'
<1>1. /\ wpc' \notin {"get", "send", "post_flush", "answer"}
      /\ UNCHANGED <<ring, run, client, thread_buf, got, transport>>
  BY DEF CheckRun, LockShared, StartWait, Wake, TakeFlush, AnswerFlush
<1>2. Content(base)' /\ Aligned' /\ Fill' = Fill
  BY <1>1, ContentStays DEF Stored, client, transport
<1>3. Room' /\ Ready'
  BY <1>1, <1>2 DEF PipeInv, Room, Ready, client
<1>4. Phases'
  BY DEF PipeInv, Phases, CheckRun, LockShared, StartWait, Wake, TakeFlush, AnswerFlush,
         client, shared, Shape, CommonType
<1>5. Flushed'
  BY <1>1, <1>2 DEF PipeInv, Flushed, CheckRun, LockShared, StartWait, Wake, TakeFlush,
     AnswerFlush, client, shared
<1> QED BY <1>2, <1>3, <1>4, <1>5 DEF PipeInv

(* When the drain loop goes on there is a whole record in the ring. *)
LEMMA WholeRecord ==
  ASSUME Disciplined, Shape, NEW base \in Nat, PipeInv(base), wpc = "test",
         IF flushing THEN ~IsEmpty(read_pos, write_pos)
                     ELSE HasData(read_pos, write_pos, DiffSize)
  PROVE  Fill >= RecLen
<1>1. /\ RecLen \in Nat \ {0} /\ RingSize \in Nat /\ RingSize % RecLen = 0
      /\ read_pos \in 0 .. RingSize - 1 /\ write_pos \in 0 .. RingSize - 1
      /\ Fill \in Nat /\ got = 0 /\ Len(thread_buf) \in Nat /\ records \in Nat
  BY FillIs, WriterAssumption, LenProperties DEF Disciplined, Shape, CommonType
<1>2. CASE ~flushing
  <2>1. HasData(read_pos, write_pos, DiffSize)
    BY <1>2
  <2>2. CASE write_pos >= read_pos
    BY <1>1, <2>1, <2>2, WriterAssumption DEF HasData, AbsDiff, Fill, Unread, Disciplined
  <2>3. CASE write_pos < read_pos
    <3>1. read_pos <= RingSize - RecLen
      <4>1. read_pos \in Nat /\ read_pos % RecLen = 0 /\ read_pos < RingSize
        BY <1>1 DEF PipeInv, Aligned
      <4> QED BY <1>1, <4>1, MultipleBelow
    <3> QED BY <1>1, <2>3, <3>1 DEF Fill, Unread
  <2> QED BY <1>1, <2>2, <2>3
<1>3. CASE flushing
  <2>1. cpc # "put" /\ cpc # "closed"
    BY <1>3 DEF PipeInv, Phases
  <2>2. Fill # 0
    BY <1>3, FillIs DEF Shape
  <2>3. base * RecLen + Len(thread_buf) + Fill = records * RecLen
    BY <2>1 DEF PipeInv, Content, Stored
  <2>4. PICK q \in Nat : Len(thread_buf) = q * RecLen
    BY <1>1, Multiple DEF Shape
  <2>5. RecLen * (records - (base + q)) = Fill
    <3>1. RecLen * (records - (base + q)) = RecLen * records - RecLen * (base + q)
      BY <1>1, Distribute
    <3>2. (base + q) * RecLen = base * RecLen + q * RecLen
      BY <1>1, Linear
    <3> QED BY <1>1, <2>3, <2>4, <3>1, <3>2
  <2>6. records - (base + q) >= 1
    BY <1>1, <2>2, <2>5, Scale
  <2>7. RecLen * (records - (base + q)) >= RecLen
    BY <1>1, <2>6, Scale
  <2> QED BY <2>5, <2>7
<1> QED BY <1>2, <1>3 DEF Shape, CommonType

LEMMA TestPipe ==
  ASSUME Disciplined, Shape, NEW base \in Nat, PipeInv(base), TestRing
  PROVE  PipeInv(base)'
<1>1. /\ wpc = "test" /\ wpc' \in {"get", "post_flush", "top"}
      /\ UNCHANGED <<ring, shared, run, client, flushing, thread_buf, got, transport>>
  BY DEF TestRing
<1>2. Content(base)' /\ Aligned' /\ Fill' = Fill
  BY <1>1, ContentStays DEF Stored, client, transport
<1>3. Ready'
  <2>1. wpc' = "get" => Fill >= RecLen
    BY <1>1, WholeRecord DEF TestRing
  <2> QED BY <1>1, <1>2, <2>1, WriterAssumption, FillIs DEF Ready, Shape
<1>4. Room'
  BY <1>1, <1>2 DEF PipeInv, Room, client
<1>5. Phases'
  BY <1>1 DEF TestRing, PipeInv, Phases, client, shared
<1>6. Flushed'
  <2>1. wpc' = "post_flush" => Fill = 0
    BY <1>1, FillIs DEF TestRing, Shape
  <2> QED BY <1>1, <1>2, <2>1 DEF PipeInv, Flushed, client, shared
<1> QED BY <1>2, <1>3, <1>4, <1>5, <1>6 DEF PipeInv

LEMMA GetPipe ==
  ASSUME Disciplined, Shape, NEW base \in Nat, PipeInv(base), wpc = "get",
         thread_buf' = Append(thread_buf, buf[read_pos]),
         read_pos' = Advance(read_pos, RingSize),
         got' = (got + 1) % RecLen,
         wpc' \in {"get", "send", "packet", "test"}, wpc' = "get" => got' # 0,
         UNCHANGED <<buf, write_pos, shared, run, client, flushing>>
  PROVE  PipeInv(base)'
<1> DEFINE n == Fill
           b == Len(thread_buf)
<1>1. /\ got \in 0 .. RecLen - 1 /\ RecLen \in Nat \ {0} /\ RingSize \in Nat
      /\ read_pos \in 0 .. RingSize - 1 /\ b \in Nat /\ n \in Nat
  BY FillIs, WriterAssumption, LenProperties DEF Shape, CommonType
<1>2. n >= RecLen - got /\ n >= 1 /\ ~IsEmpty(read_pos, write_pos)
  BY <1>1, FillIs DEF PipeInv, Ready, Shape
<1>3. /\ Fill' = n - 1 /\ Slot(read_pos, 0, RingSize) = read_pos
      /\ \A k \in 0 .. n - 2 : Slot(read_pos', k, RingSize) = Slot(read_pos, k + 1, RingSize)
  BY <1>1, <1>2, GetRemovesOne, WriterAssumption DEF Shape, CommonType, Fill
<1>4. buf[read_pos] = ByteOf(base, b + 1)
  <2>1. 0 \in 0 .. n - 1 /\ b + 0 + 1 = b + 1
    BY <1>1, <1>2
  <2>2. buf[Slot(read_pos, 0, RingSize)] = ByteOf(base, b + 0 + 1)
    BY <2>1 DEF PipeInv, Content
  <2> QED BY <1>3, <2>1, <2>2
<1>5. /\ Len(thread_buf') = b + 1 /\ thread_buf'[b + 1] = buf[read_pos]
      /\ \A i \in 1 .. b : thread_buf'[i] = thread_buf[i]
  BY <1>1, AppendProperties DEF Shape, CommonType
<1>7. Content(base)'
  <2>1. (cpc # "closed" => base * RecLen + Len(thread_buf) + Fill = Stored)'
    <3>1. Stored' = Stored /\ cpc' = cpc
      BY <1>1 DEF Stored, client
    <3>2. base * RecLen \in Nat
      BY <1>1
    <3> QED BY <1>1, <1>3, <1>5, <3>1, <3>2 DEF PipeInv, Content
  <2>2. ASSUME NEW i \in 1 .. b + 1 PROVE thread_buf'[i] = ByteOf(base, i)
    <3>1. CASE i = b + 1
      BY <1>4, <1>5, <3>1
    <3>2. CASE i # b + 1
      BY <1>1, <1>5, <3>2 DEF PipeInv, Content
    <3> QED BY <3>1, <3>2
  <2>3. ASSUME NEW k \in 0 .. n - 2
        PROVE  buf'[Slot(read_pos', k, RingSize)] = ByteOf(base, b + 1 + k + 1)
    <3>1. k + 1 \in 0 .. n - 1 /\ b + (k + 1) + 1 = b + 1 + k + 1
      BY <1>1
    <3>2. buf[Slot(read_pos, k + 1, RingSize)] = ByteOf(base, b + (k + 1) + 1)
      BY <3>1 DEF PipeInv, Content
    <3> QED BY <1>1, <1>3, <3>1, <3>2
  <2>4. \A i \in 1 .. Len(thread_buf') : thread_buf'[i] = ByteOf(base', i)
    BY <1>5, <2>2
  <2>5. \A k \in 0 .. Fill' - 1 :
          buf'[Slot(read_pos', k, RingSize)] = ByteOf(base', Len(thread_buf') + k + 1)
    BY <1>1, <1>3, <1>5, <2>3
  <2> QED BY <2>1, <2>4, <2>5 DEF Content, ByteOf
<1>8. Aligned'
  <2>1. read_pos' = IF read_pos + 1 = RingSize THEN 0 ELSE read_pos + 1
    BY <1>1, AdvanceWraps, WriterAssumption
  <2>2. read_pos \in Nat /\ read_pos % RecLen = got
    BY <1>1 DEF PipeInv, Aligned
  <2>3. (read_pos + 1) % RecLen = ((read_pos % RecLen) + 1) % RecLen /\ 0 % RecLen = 0
    BY <1>1, <2>2, ModSucc
  <2>4. (read_pos + 1) % RecLen = got'
    BY <1>1, <2>2, <2>3, Zenon
  <2>5. CASE read_pos + 1 = RingSize
    <3>1. got' = 0 /\ read_pos' = 0
      BY <2>1, <2>4, <2>5 DEF Disciplined
    <3> QED BY <2>3, <3>1 DEF Aligned
  <2>6. CASE read_pos + 1 # RingSize
    <3>1. read_pos' = read_pos + 1
      BY <2>1, <2>6
    <3> QED BY <2>4, <3>1, Zenon DEF Aligned
  <2> QED BY <2>5, <2>6
<1>9. Ready'
  <2>1. got' # 0 => got' = got + 1
    BY <1>1, SmallModSucc
  <2>2. thread_buf' # << >>
    BY <1>1, <1>5, LenProperties
  <2>3. wpc' = "get" => n - 1 >= RecLen - got'
    BY <1>1, <1>2, <2>1
  <2>4. Fill' = n - 1
    BY <1>3
  <2> QED BY <2>2, <2>3, <2>4 DEF Ready
<1>10. Room'
  <2>1. cpc = "put" => left * RecLen \in Nat /\ index \in Nat
    BY <1>1 DEF Shape, CommonType
  <2>2. cpc = "put" => n + (RecLen - index) + left * RecLen < RingSize
    BY <1>1 DEF PipeInv, Room
  <2>3. UNCHANGED <<cpc, index, left>> /\ Fill' = n - 1
    BY <1>1, <1>3 DEF client
  <2>4. cpc = "put" => n - 1 + (RecLen - index) + left * RecLen < RingSize
    <3>1. RecLen \in Nat /\ RingSize \in Nat /\ n \in Nat
      BY <1>1, WriterAssumption
    <3> SUFFICES ASSUME cpc = "put" PROVE n - 1 + (RecLen - index) + left * RecLen < RingSize
      OBVIOUS
    <3>2. left * RecLen \in Nat /\ index \in Nat /\ n + (RecLen - index) + left * RecLen < RingSize
      BY <2>1, <2>2
    <3> QED BY <3>1, <3>2
  <2> QED BY <2>3, <2>4, Zenon DEF Room
<1>11. Phases' /\ Flushed'
  BY <1>1, <1>2 DEF PipeInv, Phases, Flushed, client, shared
<1> QED BY <1>7, <1>8, <1>9, <1>10, <1>11 DEF PipeInv

(* What leaves thread_buf is whole records, and no more than was accepted. *)
LEMMA LeavesWhole ==
  ASSUME Shape, NEW base \in Nat, PipeInv(base), thread_buf # << >>, got = 0
  PROVE  \E n \in Nat \ {0} :
           /\ Len(thread_buf) = n * RecLen
           /\ LastRecord(thread_buf) = base + n
           /\ cpc # "closed" => base + n <= Accepted
<1>1. /\ RecLen \in Nat \ {0} /\ Len(thread_buf) \in Nat \ {0} /\ thread_buf \in Seq(Cell)
      /\ Fill \in Nat /\ records \in Nat /\ index \in 0 .. RecLen
  BY WriterAssumption, LenProperties, EmptySeq, FillIs DEF Shape, CommonType
<1>2. PICK n \in Nat : n >= 1 /\ Len(thread_buf) = n * RecLen
  BY <1>1, Multiple DEF Shape
<1>3. LastRecord(thread_buf) = base + n
  <2>1. thread_buf[Len(thread_buf)] = ByteOf(base, Len(thread_buf))
    BY <1>1 DEF PipeInv, Content
  <2>2. Len(thread_buf) = (n - 1) * RecLen + (RecLen - 1) + 1
    BY <1>1, <1>2
  <2>3. n - 1 \in Int /\ base \in Int /\ RecLen - 1 \in 0 .. RecLen - 1
    BY <1>1, <1>2
  <2>4. ByteOf(base, (n - 1) * RecLen + (RecLen - 1) + 1) = <<base + 1 + (n - 1), RecLen - 1 + 1>>
    BY <2>3, ByteNumber, Zenon
  <2>5. thread_buf[Len(thread_buf)] = <<base + 1 + (n - 1), RecLen - 1 + 1>>
    BY <2>1, <2>2, <2>4, Zenon
  <2> QED BY <1>1, <1>2, <2>5 DEF LastRecord
<1>4. ASSUME cpc # "closed" PROVE base + n <= Accepted
  <2>1. PICK j \in 0 .. RecLen - 1 : Stored = Accepted * RecLen + j
    <3>1. CASE cpc = "put" /\ index < RecLen
      BY <1>1, <3>1 DEF Stored, Accepted
    <3>2. CASE cpc = "put" /\ index = RecLen
      <4>1. (records - 1) * RecLen + RecLen = records * RecLen + 0
        BY <1>1
      <4> QED BY <1>1, <3>2, <4>1 DEF Stored, Accepted
    <3>3. CASE cpc # "put"
      <4>1. records * RecLen = records * RecLen + 0
        BY <1>1
      <4> QED BY <1>1, <3>3, <4>1 DEF Stored, Accepted
    <3>4. index < RecLen \/ index = RecLen
      BY <1>1
    <3> QED BY <3>1, <3>2, <3>3, <3>4, Zenon
  <2>2. Accepted \in Int
    BY <1>1 DEF Accepted
  <2>3. base * RecLen + n * RecLen + Fill = Accepted * RecLen + j
    BY <1>2, <1>4, <2>1 DEF PipeInv, Content
  <2>4. RecLen * (Accepted - (base + n)) = Fill - j
    <3>1. RecLen * (Accepted - (base + n)) = RecLen * Accepted - RecLen * (base + n)
      BY <1>1, <2>2, Distribute
    <3>2. (base + n) * RecLen = base * RecLen + n * RecLen
      BY <1>1, Linear
    <3>3. /\ RecLen * Accepted = Accepted * RecLen /\ Accepted * RecLen \in Int
          /\ RecLen * (base + n) = (base + n) * RecLen /\ (base + n) * RecLen \in Int
      BY <1>1, <2>2, Linear
    <3> QED BY <1>1, <2>3, <3>1, <3>2, <3>3
  <2>5. ~(Accepted - (base + n) <= -1)
    BY <1>1, <2>2, <2>4, Scale
  <2> QED BY <1>1, <2>2, <2>5
<1> QED BY <1>2, <1>3, <1>4

(* thread_buf is given away: its last record is the new base. *)
LEMMA ClearPipe ==
  ASSUME Disciplined, Shape, NEW base \in Nat, PipeInv(base), wpc \notin {"get", "exited"},
         thread_buf' = << >>, NEW n \in Nat, Len(thread_buf) = n * RecLen,
         wpc' \in {"test", "answer"}, wpc' = "answer" => wpc = "post_flush",
         UNCHANGED <<ring, shared, run, client, flushing, got>>
  PROVE  PipeInv(base + n)'
<1>1. Room' /\ Aligned' /\ Phases' /\ Fill' = Fill /\ Stored' = Stored /\ cpc' = cpc
  BY DEF PipeInv, Room, Aligned, Phases, Fill, Stored, ring, shared, client
<1>2. Ready'
  BY DEF Ready
<1>3. RecLen \in Nat \ {0} /\ Fill \in Nat /\ Len(thread_buf') = 0
  BY WriterAssumption, FillIs DEF Shape
<1>4. (cpc # "closed" => (base + n) * RecLen + Len(thread_buf) + Fill = Stored)'
  <2>1. /\ (base + n) * RecLen = base * RecLen + n * RecLen
        /\ base * RecLen \in Nat /\ n * RecLen \in Nat
    BY <1>3
  <2> QED BY <1>1, <1>3, <2>1 DEF PipeInv, Content
<1>5. ASSUME NEW k \in 0 .. Fill - 1
      PROVE  buf[Slot(read_pos, k, RingSize)] = ByteOf(base + n, 0 + k + 1)
  <2>1. buf[Slot(read_pos, k, RingSize)] = ByteOf(base, n * RecLen + k + 1)
    BY DEF PipeInv, Content
  <2>2. /\ n * RecLen + (k + 1) = n * RecLen + k + 1 /\ k + 1 \in Int /\ 0 + k + 1 = k + 1
        /\ base \in Int /\ n \in Int
    BY <1>3
  <2>3. ByteOf(base + n, k + 1) = ByteOf(base, n * RecLen + (k + 1))
    BY <2>2, ByteShift, Zenon
  <2>4. ByteOf(base + n, 0 + k + 1) = ByteOf(base, n * RecLen + k + 1)
    BY <2>2, <2>3, Zenon
  <2> QED BY <2>1, <2>4
<1>6. Content(base + n)'
  <2>1. UNCHANGED <<buf, read_pos>> /\ 1 .. 0 = {}
    BY DEF ring
  <2> QED BY <1>1, <1>3, <1>4, <1>5, <2>1 DEF Content, ByteOf
<1>7. Flushed'
  BY <1>1 DEF PipeInv, Flushed, client, shared
<1> QED BY <1>1, <1>2, <1>6, <1>7 DEF PipeInv

(* Nothing leaves thread_buf at the start or the end of a drain. *)
LEMMA KeepPipe ==
  ASSUME Disciplined, Shape, NEW base \in Nat, PipeInv(base), wpc \notin {"get", "exited"},
         wpc' \in {"test", "answer"},
         wpc' = "answer" => wpc = "post_flush" /\ thread_buf = << >>,
         UNCHANGED <<ring, shared, run, client, flushing, got, thread_buf>>
  PROVE  PipeInv(base)'
<1>1. Content(base)' /\ Aligned' /\ Fill' = Fill
  BY ContentStays DEF Stored, client
<1> QED BY <1>1 DEF PipeInv, Room, Ready, Phases, Flushed, shared, client

(* min_pos is met unless thread_buf is empty. *)
LEMMA NoPartial ==
  ASSUME Shape, got = 0
  PROVE  HasPartialPacket <=> thread_buf # << >>
<1>1. RecLen \in Nat \ {0} /\ Len(thread_buf) \in Nat /\ Len(thread_buf) % RecLen = 0
  BY WriterAssumption, LenProperties DEF Shape, CommonType
<1>2. Len(thread_buf) = 0 <=> thread_buf = << >>
  BY EmptySeq DEF Shape, CommonType
<1>3. Len(thread_buf) # 0 => Len(thread_buf) >= RecLen
  BY <1>1, Multiple
<1> QED BY <1>1, <1>2, <1>3 DEF HasPartialPacket

----------------------------------------------------------------------------
(* writer_thread_default: what leaves thread_buf is sent. *)
SentInv == PipeInv(Sent)

LEMMA Rebase ==
  ASSUME NEW base \in Nat
  PROVE  /\ Sent = base => (SentInv <=> PipeInv(base))
         /\ Sent' = base => (SentInv' <=> PipeInv(base)')
BY DEF SentInv, PipeInv, Content

LEMMA InvShape ==
  ASSUME IInv
  PROVE  Shape /\ Sent \in Nat
BY LastRecordIs DEF IInv, TypeOK, PacketsFit, BufferInv, Shape, CommonType, Sent

LEMMA SendPipe ==
  ASSUME Disciplined, IInv, SentInv, PreFlush \/ SendFull \/ PostFlush
  PROVE  SentInv'
<1>1. PICK base \in Nat : Sent = base
  BY InvShape
<1>2. Shape /\ PipeInv(base)
  BY <1>1, InvShape, Rebase
<1>3. /\ wpc \notin {"get", "exited"} /\ got = 0 /\ wpc' \in {"test", "answer"} /\ (wpc' = "answer" => wpc = "post_flush")
      /\ UNCHANGED <<ring, shared, run, client, flushing, got>>
  BY <1>2 DEF PreFlush, SendFull, PostFlush, Shape
<1>4. CASE UNCHANGED <<thread_buf, transport>> /\ thread_buf = << >>
  <2>1. PipeInv(base)'
    BY <1>2, <1>3, <1>4, KeepPipe
  <2>2. Sent' = base
    BY <1>1, <1>4 DEF transport, Sent
  <2> QED BY <2>1, <2>2, Rebase
<1>5. CASE Transmit /\ thread_buf # << >>
  <2>1. PICK n \in Nat \ {0} :
          Len(thread_buf) = n * RecLen /\ LastRecord(thread_buf) = base + n
    BY <1>2, <1>3, <1>5, LeavesWhole
  <2>2. thread_buf' = << >> /\ Sent' = base + n /\ base + n \in Nat
    BY <1>5, <2>1 DEF Transmit, Sent, LastRecord
  <2>3. PipeInv(base + n)'
    BY <1>2, <1>3, <2>1, <2>2, ClearPipe
  <2> QED BY <2>2, <2>3, Rebase
<1> QED BY <1>2, <1>3, <1>4, <1>5, NoPartial DEF PreFlush, SendFull, PostFlush, PipeInv, Ready

LEMMA NextPipe ==
  ASSUME Disciplined, IInv, SentInv, [Next]_vars
  PROVE  SentInv'
<1>1. PICK base \in Nat : Sent = base
  BY InvShape
<1>2. Shape /\ PipeInv(base)
  BY <1>1, InvShape, Rebase
<1>3. CASE Client
  <2>1. PipeInv(base)'
    BY <1>2, <1>3, ClientPipe
  <2>2. UNCHANGED packet
    BY <1>3 DEF Client, InCall, Write, NextRecord, PutByte, SetFlush, ResetSids, FlushBegin,
       FlushReturn, FlushTimeout, Close, Join, transport
  <2> QED BY <1>1, <2>1, <2>2, Rebase DEF Sent
<1>4. CASE CheckRun \/ LockShared \/ StartWait \/ Wake \/ AnswerFlush \/ TestRing \/ GetByte
  <2>1. PipeInv(base)'
    <3>1. CASE GetByte
      BY <1>2, <3>1, GetPipe DEF GetByte
    <3> QED BY <1>2, <1>4, <3>1, WaitPipe, TestPipe
  <2>2. UNCHANGED packet
    BY <1>4 DEF CheckRun, LockShared, StartWait, Wake, TakeFlush, TestRing, GetByte, AnswerFlush,
       transport
  <2> QED BY <1>1, <2>1, <2>2, Rebase DEF Sent
<1>5. CASE UNCHANGED vars
  <2>1. Content(base)' /\ Aligned' /\ Fill' = Fill
    BY <1>2, <1>5, ContentStays DEF vars, ring, client, writer, Stored
  <2>2. PipeInv(base)'
    BY <1>2, <1>5, <2>1 DEF PipeInv, Room, Ready, Phases, Flushed, vars, shared, client, writer
  <2> QED BY <1>1, <1>5, <2>2, Rebase DEF Sent, vars, transport
<1> QED BY <1>3, <1>4, <1>5, SendPipe DEF Next, Writer, Finished

LEMMA PipeInductive ==
  ASSUME Disciplined
  PROVE  Spec => [](IInv /\ SentInv)
<1>1. Init => SentInv
  <2>1. Init => Sent = 0
    BY DEF Init, Sent, LastRecord
  <2> QED BY <2>1, InitPipe, Rebase
<1>2. IInv /\ SentInv /\ [Next]_vars => SentInv'
  BY NextPipe
<1> QED BY <1>1, <1>2, Inductive, PTL DEF Spec

LEMMA NotRefused ==
  ASSUME IInv, SentInv, cpc = "put", index < RecLen
  PROVE  ~IsFull(read_pos, write_pos, RingSize)
<1>1. PICK base \in Nat : Sent = base
  BY InvShape
<1> QED BY <1>1, InvShape, Rebase, RoomToPut

----------------------------------------------------------------------------
(* For a disciplined client get is only called for a byte that was put,    *)
(* so that it never reads a stale cell nor moves past write_pos.           *)
THEOREM NeverUnderruns ==
  ASSUME Disciplined
  PROVE  Spec => []NoUnderrun
<1>1. IInv /\ SentInv => NoUnderrun
  <2> SUFFICES ASSUME IInv, SentInv, wpc = "get" PROVE ~IsEmpty(read_pos, write_pos)
    BY DEF NoUnderrun
  <2>1. CommonType /\ got \in 0 .. RecLen - 1 /\ RecLen \in Nat
    BY InvShape, WriterAssumption DEF Shape, CommonType
  <2>2. Fill >= RecLen - got
    BY DEF SentInv, PipeInv, Ready
  <2>3. Fill \in Nat /\ (IsEmpty(read_pos, write_pos) <=> Fill = 0)
    BY <2>1, FillIs
  <2> QED BY <2>1, <2>2, <2>3
<1> QED BY <1>1, PipeInductive, PTL

(* What the run of WritesAreWhole refutes for a client that outruns the    *)
(* ring holds for a disciplined one: put refuses no byte of a record.      *)
THEOREM NeverTorn ==
  ASSUME Disciplined
  PROVE  Spec => []WritesAreWhole
<1>1. Init => WritesAreWhole
  BY DEF Init, WritesAreWhole
<1>2. IInv /\ SentInv /\ WritesAreWhole /\ [Next]_vars => WritesAreWhole'
  <2> SUFFICES ASSUME IInv, SentInv, WritesAreWhole, [Next]_vars PROVE WritesAreWhole'
    OBVIOUS
  <2>1. CASE PutByte
    BY <2>1, NotRefused DEF PutByte, WritesAreWhole
  <2>2. CASE Client /\ ~PutByte
    BY <2>2 DEF Client, InCall, Write, NextRecord, SetFlush, ResetSids, FlushBegin, FlushReturn,
       FlushTimeout, Close, Join, client, WritesAreWhole
  <2>3. CASE Writer
    BY <2>3 DEF Writer, CheckRun, LockShared, StartWait, Wake, TakeFlush, PreFlush, TestRing,
       GetByte, SendFull, PostFlush, AnswerFlush, client, WritesAreWhole
  <2>4. CASE UNCHANGED vars
    BY <2>4 DEF vars, client, WritesAreWhole
  <2> QED BY <2>1, <2>2, <2>3, <2>4 DEF Next, Finished
<1> QED BY <1>1, <1>2, PipeInductive, PTL DEF Spec

(* Everything written has left thread_buf when nothing is left in it and   *)
(* in the ring.                                                            *)
LEMMA AllGone ==
  ASSUME Shape, NEW base \in Nat, PipeInv(base), cpc = "flush_wait", flush_done
  PROVE  base = records
<1>1. RecLen \in Nat \ {0} /\ records \in Nat
  BY WriterAssumption DEF Shape, CommonType
<1>2. Fill = 0 /\ Len(thread_buf) = 0
  BY DEF PipeInv, Flushed
<1>3. base * RecLen = records * RecLen /\ base * RecLen \in Nat
  BY <1>1, <1>2 DEF PipeInv, Content, Stored
<1>4. RecLen * (base - records) = 0
  BY <1>1, <1>3, Linear, Distribute
<1> QED BY <1>1, <1>4, Scale

LEMMA AllSent ==
  ASSUME IInv, SentInv, cpc = "flush_wait", flush_done
  PROVE  Sent = records
<1>1. PICK base \in Nat : Sent = base
  BY InvShape
<1> QED BY <1>1, InvShape, Rebase, AllGone

(* For a disciplined client flush() is answered only when every record     *)
(* written before it was sent (device.rs:851).                             *)
THEOREM FlushDrains ==
  ASSUME Disciplined
  PROVE  Spec => []FlushDrained
<1>1. IInv /\ SentInv => FlushDrained
  BY AllSent DEF FlushDrained, Sent
<1> QED BY <1>1, PipeInductive, PTL

----------------------------------------------------------------------------
(* The pipe of records. *)
LEMMA InitPipeSpec == Init => Pipe!PipeInit
<1> SUFFICES ASSUME Init PROVE Pipe!PipeInit
  OBVIOUS
<1>1. Accepted = 0 /\ LastRecord(packet) = 0 /\ packet = << >>
  BY DEF Init, Accepted, LastRecord
<1>2. (cpc = "flush_wait") = FALSE /\ (wpc # "exited") = TRUE /\ flush_ret = "none"
  BY DEF Init
<1> QED BY <1>1, <1>2 DEF Pipe!PipeInit

(* A step outside the puts, the sends and flush shows nothing. *)
LEMMA Hidden ==
  ASSUME Accepted' = Accepted, UNCHANGED <<packet, flush_ret>>,
         cpc' = "flush_wait" <=> cpc = "flush_wait", wpc' = "exited" <=> wpc = "exited"
  PROVE  UNCHANGED Pipe!pipe
<1>1. (cpc = "flush_wait")' = (cpc = "flush_wait") /\ (wpc # "exited")' = (wpc # "exited")
  OBVIOUS
<1>2. LastRecord(packet)' = LastRecord(packet)
  BY DEF LastRecord
<1> QED BY <1>1, <1>2 DEF Pipe!pipe

(* A record is accepted with its last byte. *)
LEMMA PutAccepts ==
  ASSUME IInv, SentInv, PutByte
  PROVE  Pipe!Accept \/ UNCHANGED Pipe!pipe
<1>1. /\ cpc = "put" /\ index \in 0 .. RecLen - 1 /\ index' = index + 1 /\ records \in Nat
      /\ UNCHANGED <<cpc, records, flush_ret, wpc, packet>> /\ RecLen \in Nat
  BY WriterAssumption DEF PutByte, IInv, TypeOK, CommonType, writer, transport
<1>2. CASE index + 1 = RecLen
  <2>1. Accepted = records - 1 /\ Accepted' = records
    BY <1>1, <1>2 DEF Accepted
  <2>2. Accepted' = Accepted + 1
    BY <1>1, <2>1
  <2>3. wpc # "exited" /\ ~(cpc = "flush_wait")
    BY <1>1 DEF SentInv, PipeInv, Phases
  <2>4. /\ UNCHANGED <<packet, flush_ret>> /\ LastRecord(packet)' = LastRecord(packet)
        /\ (cpc = "flush_wait")' = (cpc = "flush_wait") /\ (wpc # "exited")' = (wpc # "exited")
    BY <1>1 DEF LastRecord
  <2> QED BY <2>2, <2>3, <2>4 DEF Pipe!Accept
<1>3. CASE index + 1 # RecLen
  <2>1. Accepted' = Accepted
    BY <1>1, <1>3 DEF Accepted
  <2> QED BY <1>1, <2>1, Hidden
<1> QED BY <1>2, <1>3

LEMMA ClientSimulates ==
  ASSUME Disciplined, IInv, SentInv, Client
  PROVE  [Pipe!PipeNext]_(Pipe!pipe)
<1>1. UNCHANGED <<packet, wpc>>
  BY DEF Client, InCall, Write, NextRecord, PutByte, SetFlush, ResetSids, FlushBegin, FlushReturn,
     FlushTimeout, Close, Join, writer, transport
<1>2. /\ UNCHANGED packet /\ LastRecord(packet)' = LastRecord(packet)
      /\ (wpc # "exited")' = (wpc # "exited")
  BY <1>1 DEF LastRecord
<1>3. RecLen \in Nat \ {0} /\ records \in Nat
  BY WriterAssumption DEF IInv, TypeOK, CommonType
<1>4. CASE PutByte
  BY <1>4, PutAccepts DEF Pipe!PipeNext
<1>5. CASE (\E n \in 1 .. MaxBatch : Write(n)) \/ NextRecord
  <2>1. Accepted' = Accepted /\ cpc # "flush_wait" /\ cpc' # "flush_wait" /\ flush_ret' = flush_ret
    BY <1>3, <1>5 DEF Write, MayCall, NextRecord, BeginRecord, Accepted
  <2> QED BY <1>1, <2>1, Hidden
<1>6. CASE SetFlush \/ ResetSids \/ Close \/ Join
  <2>1. Accepted' = Accepted /\ cpc # "flush_wait" /\ cpc' # "flush_wait" /\ flush_ret' = flush_ret
    BY <1>6 DEF SetFlush, ResetSids, Close, Join, MayCall, client, Accepted
  <2> QED BY <1>1, <2>1, Hidden
<1>7. CASE FlushBegin
  <2>1. /\ cpc = "idle" /\ cpc' = "flush_wait" /\ UNCHANGED <<records, flush_ret>>
    BY <1>7 DEF FlushBegin, MayCall
  <2>2. /\ (cpc = "flush_wait")' = TRUE /\ ~(cpc = "flush_wait") /\ Accepted' = Accepted
    BY <2>1 DEF Accepted
  <2> QED BY <1>2, <2>1, <2>2 DEF Pipe!PipeNext, Pipe!FlushCall
<1>8. CASE FlushReturn
  <2>1. /\ cpc = "flush_wait" /\ flush_done /\ cpc' = "idle" /\ UNCHANGED records
        /\ flush_ret' = "done"
    BY <1>8 DEF FlushReturn
  <2>2. /\ (cpc = "flush_wait")' = FALSE /\ Accepted = records /\ Accepted' = Accepted
    BY <2>1 DEF Accepted
  <2>3. LastRecord(packet) = Accepted
    BY <2>1, <2>2, AllSent DEF Sent
  <2> QED BY <1>2, <2>1, <2>2, <2>3 DEF Pipe!PipeNext, Pipe!FlushDone
<1>9. CASE FlushTimeout
  <2>1. /\ cpc = "flush_wait" /\ cpc' = "idle" /\ UNCHANGED records /\ flush_ret' = "timeout"
    BY <1>9 DEF FlushTimeout
  <2>2. /\ (cpc = "flush_wait")' = FALSE /\ Accepted' = Accepted
    BY <2>1 DEF Accepted
  <2> QED BY <1>2, <2>1, <2>2 DEF Pipe!PipeNext, Pipe!FlushGaveUp
<1> QED BY <1>4, <1>5, <1>6, <1>7, <1>8, <1>9 DEF Client, InCall

(* thread_buf holds the n records that follow base. *)
LEMMA BytesAre ==
  ASSUME Shape, NEW base \in Nat, PipeInv(base), NEW n \in Nat, Len(thread_buf) = n * RecLen
  PROVE  thread_buf = Pipe!BytesOf(base, n)
<1>1. thread_buf = [i \in 1 .. Len(thread_buf) |-> thread_buf[i]]
  <2>1. thread_buf \in [1 .. Len(thread_buf) -> Cell]
    BY LenProperties DEF Shape, CommonType
  <2> QED BY <2>1
<1>2. \A i \in 1 .. n * RecLen :
        thread_buf[i] = <<base + 1 + ((i - 1) \div RecLen), 1 + ((i - 1) % RecLen)>>
  BY DEF PipeInv, Content, ByteOf
<1> QED BY <1>1, <1>2, Zenon DEF Pipe!BytesOf

(* A packet carries the records that follow those sent. *)
LEMMA TransmitSends ==
  ASSUME Disciplined, IInv, IInv', SentInv, Transmit, thread_buf # << >>, got = 0,
         wpc # "exited", wpc' # "exited", UNCHANGED client
  PROVE  Pipe!Send
<1>1. PICK base \in Nat : Sent = base
  BY InvShape
<1>2. Shape /\ PipeInv(base) /\ cpc # "closed"
  BY <1>1, InvShape, Rebase DEF PipeInv, Phases
<1>3. PICK n \in Nat \ {0} :
        /\ Len(thread_buf) = n * RecLen
        /\ LastRecord(thread_buf) = base + n
        /\ base + n <= Accepted
  BY <1>2, LeavesWhole
<1>4. packet' = thread_buf /\ LastRecord(packet)' = base + n /\ n * RecLen < LenOut
  BY <1>3 DEF Transmit, LastRecord, IInv, PacketsFit
<1>5. packet' = Pipe!BytesOf(base, n)
  BY <1>2, <1>3, <1>4, BytesAre
<1>6. n \in 1 .. Accepted - base
  BY <1>2, <1>3 DEF Accepted, Shape, CommonType
<1>7. /\ Accepted' = Accepted /\ flush_ret' = flush_ret
      /\ (cpc = "flush_wait")' = (cpc = "flush_wait") /\ (wpc # "exited")' = (wpc # "exited")
  BY DEF Accepted, client
<1> QED BY <1>1, <1>4, <1>5, <1>6, <1>7 DEF Pipe!Send, Sent

LEMMA WriterSimulates ==
  ASSUME Disciplined, IInv, IInv', SentInv, Writer
  PROVE  [Pipe!PipeNext]_(Pipe!pipe)
<1>1. UNCHANGED client
  BY DEF Writer, CheckRun, LockShared, StartWait, Wake, TakeFlush, PreFlush, TestRing, GetByte,
     SendFull, PostFlush, AnswerFlush
<1>2. Accepted' = Accepted /\ flush_ret' = flush_ret /\ cpc' = cpc
  BY <1>1 DEF client, Accepted
<1>3. CASE CheckRun /\ ~run
  <2>1. cpc # "flush_wait" /\ wpc # "exited" /\ wpc' = "exited" /\ packet' = packet
    BY <1>3 DEF CheckRun, SentInv, PipeInv, Phases, transport
  <2>2. /\ (wpc # "exited")' = FALSE /\ (cpc = "flush_wait")' = (cpc = "flush_wait")
        /\ LastRecord(packet)' = LastRecord(packet)
    BY <1>2, <2>1 DEF LastRecord
  <2> QED BY <1>2, <2>1, <2>2 DEF Pipe!PipeNext, Pipe!Shut
<1>4. CASE (CheckRun /\ run) \/ LockShared \/ StartWait \/ Wake \/ TestRing \/ GetByte \/ AnswerFlush
  <2>1. wpc # "exited" /\ wpc' # "exited" /\ packet' = packet
    BY <1>4 DEF CheckRun, LockShared, StartWait, Wake, TakeFlush, TestRing, GetByte, AnswerFlush,
       transport
  <2> QED BY <1>2, <2>1, Hidden
<1>5. CASE PreFlush \/ SendFull \/ PostFlush
  <2>1. wpc # "exited" /\ wpc' # "exited" /\ got = 0
    BY <1>5 DEF PreFlush, SendFull, PostFlush, IInv, BufferInv
  <2>2. CASE Transmit /\ thread_buf # << >>
    BY <1>1, <2>1, <2>2, TransmitSends DEF Pipe!PipeNext
  <2>3. CASE UNCHANGED <<thread_buf, transport>>
    BY <1>2, <2>1, <2>3, Hidden DEF transport
  <2>4. Len(thread_buf) >= RecLen => thread_buf # << >>
    BY WriterAssumption, EmptySeq DEF IInv, TypeOK, CommonType
  <2> QED BY <1>5, <2>2, <2>3, <2>4 DEF PreFlush, SendFull, PostFlush, HasPartialPacket, SentInv, PipeInv, Ready
<1> QED BY <1>3, <1>4, <1>5 DEF Writer

(* Two threads, a ring, a flush protocol and a packet buffer are, for a    *)
(* disciplined client, a pipe of records.                                  *)
THEOREM PipeRefinement ==
  ASSUME Disciplined
  PROVE  Spec => ImplementsPipe
<1>1. IInv /\ IInv' /\ SentInv /\ [Next]_vars => [Pipe!PipeNext]_(Pipe!pipe)
  <2> SUFFICES ASSUME IInv, IInv', SentInv, [Next]_vars
               PROVE  [Pipe!PipeNext]_(Pipe!pipe)
    OBVIOUS
  <2>1. CASE UNCHANGED vars
    <3>1. Accepted' = Accepted /\ UNCHANGED <<packet, flush_ret, cpc, wpc>>
      BY <2>1 DEF vars, client, writer, transport, Accepted
    <3> QED BY <3>1, Hidden
  <2> QED BY <2>1, ClientSimulates, WriterSimulates DEF Next, Finished
<1> QED BY <1>1, InitPipeSpec, PipeInductive, PTL DEF Spec, ImplementsPipe, Pipe!PipeSpec
=============================================================================
