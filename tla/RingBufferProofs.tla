-------------------------- MODULE RingBufferProofs --------------------------
(***************************************************************************)
(* The ring buffer is a bounded byte queue, for every set of bytes, every  *)
(* capacity and every interleaving of producer and consumer.               *)
(*                                                                         *)
(* The inductive invariant adds to the types what each side may rely on    *)
(* while it is inside a call: between the producer's test and its store of *)
(* write_pos the ring is not full, because only the producer adds bytes;   *)
(* between the consumer's test and its store of read_pos the ring is not   *)
(* empty, because only the consumer removes them.                          *)
(***************************************************************************)
EXTENDS RingBuffer, RingIndexProofs, SequenceTheorems

(* What the producer may rely on inside put. *)
ProducerInv ==
  /\ ppc \in {"store", "publish"} => ~IsFull(read_pos, write_pos, ring_size)
  /\ ppc = "publish" => buf[write_pos] = pitem

(* What the consumer may rely on inside get. *)
ConsumerInv ==
  /\ cpc \in {"load", "advance"} => ~IsEmpty(read_pos, write_pos)
  /\ cpc = "advance" => citem = buf[read_pos]

IInv == TypeOK /\ ProducerInv /\ ConsumerInv

----------------------------------------------------------------------------
LEMMA InitIInv == Init => IInv
BY RingAssumption
   DEF Init, IInv, TypeOK, ProducerInv, ConsumerInv, AtLeast

(* A put step of the producer keeps the invariant. *)
LEMMA ProducerStep ==
  ASSUME IInv,
         \/ PutRefuse
         \/ \E item \in Byte : PutBegin(item)
         \/ PutStore
         \/ PutPublish
  PROVE  IInv'
<1> USE DEF IInv, TypeOK, config, prod, cons
<1>1. CASE PutRefuse
  BY <1>1 DEF PutRefuse, ProducerInv, ConsumerInv
<1>2. CASE \E item \in Byte : PutBegin(item)
  BY <1>2 DEF PutBegin, ProducerInv, ConsumerInv
<1>3. CASE PutStore
  <2>1. TypeOK' /\ ProducerInv'
    BY <1>3 DEF PutStore, ProducerInv
  <2>2. ConsumerInv'
    BY <1>3 DEF PutStore, ConsumerInv, IsEmpty
  <2> QED BY <2>1, <2>2
<1>4. CASE PutPublish
  <2>1. write_pos' \in 0 .. ring_size - 1
    BY <1>4, AdvanceWraps DEF PutPublish
  <2>2. ~IsEmpty(read_pos, write_pos')
    BY <1>4 DEF PutPublish, ProducerInv, IsFull, IsEmpty
  <2> QED BY <1>4, <2>1, <2>2 DEF PutPublish, ProducerInv, ConsumerInv
<1> QED BY <1>1, <1>2, <1>3, <1>4

(* A get step of the consumer keeps the invariant. *)
LEMMA ConsumerStep ==
  ASSUME IInv, GetBegin \/ GetLoad \/ GetAdvance
  PROVE  IInv'
<1> USE DEF IInv, TypeOK, config, prod, cons
<1>1. CASE GetBegin
  BY <1>1 DEF GetBegin, ProducerInv, ConsumerInv
<1>2. CASE GetLoad
  BY <1>2 DEF GetLoad, ProducerInv, ConsumerInv
<1>3. CASE GetAdvance
  <2>1. read_pos' \in 0 .. ring_size - 1
    BY <1>3, AdvanceWraps DEF GetAdvance
  <2>2. ~IsFull(read_pos', write_pos, ring_size)
    <3>1. read_pos # write_pos /\ read_pos' = Advance(read_pos, ring_size)
      BY <1>3 DEF GetAdvance, ConsumerInv, IsEmpty
    <3>2. /\ Advance(read_pos, ring_size) =
               IF read_pos + 1 = ring_size THEN 0 ELSE read_pos + 1
          /\ Advance(write_pos, ring_size) =
               IF write_pos + 1 = ring_size THEN 0 ELSE write_pos + 1
      BY AdvanceWraps
    <3> QED BY <3>1, <3>2 DEF IsFull
  <2> QED BY <1>3, <2>1, <2>2 DEF GetAdvance, ProducerInv, ConsumerInv
<1> QED BY <1>1, <1>2, <1>3

(* Reconfiguration keeps the invariant: it installs fresh cursors. *)
LEMMA ReconfigureStep ==
  ASSUME IInv, Reconfigure
  PROVE  IInv'
<1> USE RingAssumption DEF IInv, TypeOK, prod, cons, AtLeast
<1>1. ASSUME NEW size \in Nat, SetRingSize(size)
      PROVE  /\ ring_size' \in Nat /\ ring_size' >= 2
             /\ buf' \in [0 .. ring_size' - 1 -> Byte]
             /\ read_pos' \in 0 .. ring_size' - 1
             /\ write_pos' \in 0 .. ring_size' - 1
  BY <1>1 DEF SetRingSize, Reset
<1>2. ASSUME NEW diff \in Nat, SetDiffSize(diff)
      PROVE  diff_size' \in Nat
  BY <1>2 DEF SetDiffSize
<1>3. TypeOK'
  <2>1. CASE (\E size \in RingSizes : SetRingSize(size)) /\ UNCHANGED diff_size
    BY <1>1, <2>1 DEF Reconfigure
  <2>2. CASE /\ \E diff \in DiffSizes : SetDiffSize(diff)
             /\ UNCHANGED <<ring_size, buf, read_pos, write_pos>>
    BY <1>2, <2>2 DEF Reconfigure
  <2>3. CASE \E size \in RingSizes, diff \in DiffSizes : Reinit(size, diff)
    BY <1>1, <1>2, <2>3 DEF Reconfigure, Reinit
  <2>4. CASE Reinit(DefaultRingSize, DefaultDiffSize)
    BY <1>1, <1>2, <2>4 DEF Reconfigure, Reinit
  <2> QED BY <2>1, <2>2, <2>3, <2>4 DEF Reconfigure
<1> QED BY <1>3 DEF Reconfigure, Exclusive, ProducerInv, ConsumerInv

LEMMA NextIInv == IInv /\ [Next]_vars => IInv'
<1> SUFFICES ASSUME IInv, [Next]_vars PROVE IInv'
  OBVIOUS
<1>1. CASE UNCHANGED vars
  BY <1>1 DEF vars, config, prod, cons, IInv, TypeOK, ProducerInv, ConsumerInv
<1> QED BY <1>1, ProducerStep, ConsumerStep, ReconfigureStep DEF Next

LEMMA Inductive == Spec => []IInv
BY InitIInv, NextIInv, PTL DEF Spec

(* Cursors stay inside the storage and every byte is a byte. *)
THEOREM TypeCorrect == Spec => []TypeOK
<1>1. IInv => TypeOK
  BY DEF IInv
<1> QED BY <1>1, Inductive, PTL

(* The producer never writes the cell the consumer is reading. *)
THEOREM RaceFree == Spec => []NoDataRace
<1>1. IInv => NoDataRace
  BY DEF IInv, ConsumerInv, NoDataRace, IsEmpty
<1> QED BY <1>1, Inductive, PTL
----------------------------------------------------------------------------
(* The ring's steps, seen through UnreadBytes, are steps of the queue.     *)

LEMMA UnreadIsSeq ==
  ASSUME TypeOK
  PROVE  /\ UnreadBytes \in Seq(Byte)
         /\ Len(UnreadBytes) = Unread(read_pos, write_pos, ring_size)
         /\ Len(UnreadBytes) \in 0 .. ring_size - 1
         /\ \A k \in 1 .. Len(UnreadBytes) :
              UnreadBytes[k] = buf[Slot(read_pos, k - 1, ring_size)]
<1> DEFINE n == Unread(read_pos, write_pos, ring_size)
<1>1. n \in 0 .. ring_size - 1
  BY FullAndEmptyExact DEF TypeOK
<1>2. \A k \in 1 .. n : buf[Slot(read_pos, k - 1, ring_size)] \in Byte
  <2> TAKE k \in 1 .. n
  <2>1. k - 1 \in 0 .. n - 1
    BY <1>1
  <2>2. Slot(read_pos, k - 1, ring_size) \in 0 .. ring_size - 1
    BY <2>1, UnreadCells DEF TypeOK
  <2> QED BY <2>2 DEF TypeOK
<1>3. UnreadBytes \in [1 .. n -> Byte]
  BY <1>2 DEF UnreadBytes
<1>4. UnreadBytes \in Seq(Byte) /\ Len(UnreadBytes) = n
  BY <1>1, <1>3
<1> QED BY <1>1, <1>4 DEF UnreadBytes

(* Append and Tail as functions. *)
LEMMA AppendIsFunction ==
  ASSUME NEW S, NEW s \in Seq(S), NEW e \in S, NEW n \in Nat, n = Len(s)
  PROVE  Append(s, e) = [k \in 1 .. n + 1 |-> IF k = n + 1 THEN e ELSE s[k]]
<1> DEFINE f == [k \in 1 .. n + 1 |-> IF k = n + 1 THEN e ELSE s[k]]
<1>1. f \in Seq(S) /\ Len(f) = n + 1
  <2>1. f \in [1 .. n + 1 -> S]
    OBVIOUS
  <2> QED BY <2>1
<1>2. /\ Append(s, e) \in Seq(S) /\ Len(Append(s, e)) = n + 1
      /\ \A k \in 1 .. n + 1 : Append(s, e)[k] = f[k]
  BY AppendProperties
<1> HIDE DEF f
<1>3. Append(s, e) = f
  BY <1>1, <1>2, SeqEqual
<1> QED BY <1>3 DEF f

LEMMA TailIsFunction ==
  ASSUME NEW S, NEW s \in Seq(S), s # << >>, NEW n \in Nat, n = Len(s)
  PROVE  Tail(s) = [k \in 1 .. n - 1 |-> s[k + 1]]
<1> DEFINE f == [k \in 1 .. n - 1 |-> s[k + 1]]
<1>1. n - 1 \in Nat
  BY EmptySeq
<1>2. f \in Seq(S) /\ Len(f) = n - 1
  <2>1. f \in [1 .. n - 1 -> S]
    OBVIOUS
  <2> QED BY <1>1, <2>1
<1>3. /\ Tail(s) \in Seq(S) /\ Len(Tail(s)) = n - 1
      /\ \A k \in 1 .. n - 1 : Tail(s)[k] = f[k]
  BY HeadTailProperties
<1> HIDE DEF f
<1>4. Tail(s) = f
  BY <1>2, <1>3, SeqEqual
<1> QED BY <1>4 DEF f

(* put's last step appends its argument to the queue. *)
LEMMA PublishEnqueues ==
  ASSUME IInv, PutPublish
  PROVE  Fifo!Enqueue(pitem)
<1> USE DEF IInv, TypeOK, config, prod, cons, PutPublish
<1> DEFINE n == Unread(read_pos, write_pos, ring_size)
<1>1. ~IsFull(read_pos, write_pos, ring_size) /\ buf[write_pos] = pitem
  BY DEF ProducerInv
<1>2. /\ Unread(read_pos, write_pos', ring_size) = n + 1
      /\ Slot(read_pos, n, ring_size) = write_pos
  BY <1>1, PutAddsOne
<1>3. n \in 0 .. ring_size - 2
  <2>1. n \in 0 .. ring_size - 1 /\ n # ring_size - 1
    BY <1>1, FullAndEmptyExact
  <2> QED BY <2>1
<1>4. UnreadBytes' = Append(UnreadBytes, pitem)
  <2>1. /\ UnreadBytes \in Seq(Byte) /\ Len(UnreadBytes) = n
        /\ \A k \in 1 .. n : UnreadBytes[k] = buf[Slot(read_pos, k - 1, ring_size)]
    BY UnreadIsSeq
  <2>2. UnreadBytes' = [k \in 1 .. n + 1 |-> buf[Slot(read_pos, k - 1, ring_size)]]
    BY <1>2 DEF UnreadBytes
  <2>3. \A k \in 1 .. n + 1 :
          buf[Slot(read_pos, k - 1, ring_size)] =
            IF k = n + 1 THEN pitem ELSE UnreadBytes[k]
    BY <1>1, <1>2, <1>3, <2>1
  <2>4. Append(UnreadBytes, pitem) =
          [k \in 1 .. n + 1 |-> IF k = n + 1 THEN pitem ELSE UnreadBytes[k]]
    BY <2>1, AppendIsFunction
  <2> QED BY <2>2, <2>3, <2>4
<1>5. Len(UnreadBytes) < ring_size - 1
  BY <1>3, UnreadIsSeq
<1> QED BY <1>4, <1>5 DEF Fifo!Enqueue

(* get's last step removes the oldest byte and returns it. *)
LEMMA AdvanceDequeues ==
  ASSUME IInv, GetAdvance
  PROVE  Fifo!Dequeue
<1> USE DEF IInv, TypeOK, config, prod, cons, GetAdvance
<1> DEFINE n == Unread(read_pos, write_pos, ring_size)
<1>1. ~IsEmpty(read_pos, write_pos) /\ citem = buf[read_pos]
  BY DEF ConsumerInv
<1>2. /\ Unread(read_pos', write_pos, ring_size) = n - 1
      /\ Slot(read_pos, 0, ring_size) = read_pos
      /\ \A k \in 0 .. n - 2 : Slot(read_pos', k, ring_size) = Slot(read_pos, k + 1, ring_size)
  BY <1>1, GetRemovesOne
<1>3. n \in 1 .. ring_size - 1
  <2>1. n \in 0 .. ring_size - 1 /\ n # 0
    BY <1>1, FullAndEmptyExact
  <2> QED BY <2>1
<1>4. /\ UnreadBytes \in Seq(Byte) /\ Len(UnreadBytes) = n
      /\ \A k \in 1 .. n : UnreadBytes[k] = buf[Slot(read_pos, k - 1, ring_size)]
  BY UnreadIsSeq
<1>5. UnreadBytes # << >> /\ Head(UnreadBytes) = citem
  BY <1>1, <1>2, <1>3, <1>4
<1>6. UnreadBytes' = Tail(UnreadBytes)
  <2>1. UnreadBytes' = [k \in 1 .. n - 1 |-> buf[Slot(read_pos', k - 1, ring_size)]]
    BY <1>2 DEF UnreadBytes
  <2>2. \A k \in 1 .. n - 1 :
          buf[Slot(read_pos', k - 1, ring_size)] = UnreadBytes[k + 1]
    <3> TAKE k \in 1 .. n - 1
    <3>1. k - 1 \in 0 .. n - 2 /\ k + 1 \in 1 .. n /\ (k - 1) + 1 = (k + 1) - 1
      BY <1>3
    <3> QED BY <1>2, <1>4, <3>1
  <2>3. Tail(UnreadBytes) = [k \in 1 .. n - 1 |-> UnreadBytes[k + 1]]
    BY <1>4, <1>5, TailIsFunction
  <2> QED BY <2>1, <2>2, <2>3
<1> QED BY <1>5, <1>6 DEF Fifo!Dequeue

(* Every step of the ring is a step of the queue or leaves it alone. *)
LEMMA StepSimulation ==
  IInv /\ IInv' /\ [Next]_vars => [Fifo!FifoNext]_(Fifo!fifo)
<1> SUFFICES ASSUME IInv, IInv', [Next]_vars
             PROVE  [Fifo!FifoNext]_(Fifo!fifo)
  OBVIOUS
<1> USE DEF config, prod, cons, Fifo!fifo
<1>1. CASE PutRefuse
  <2>1. Len(UnreadBytes) = ring_size - 1
    BY <1>1, UnreadIsSeq, FullAndEmptyExact DEF PutRefuse, IInv, TypeOK
  <2> QED BY <1>1, <2>1 DEF PutRefuse, Fifo!FifoNext, Fifo!Refuse, UnreadBytes
<1>2. CASE \E item \in Byte : PutBegin(item)
  BY <1>2 DEF PutBegin, UnreadBytes
<1>3. CASE PutStore
  <2> DEFINE n == Unread(read_pos, write_pos, ring_size)
  <2>1. \A k \in 1 .. n : Slot(read_pos, k - 1, ring_size) \in (0 .. ring_size - 1) \ {write_pos}
    <3> TAKE k \in 1 .. n
    <3>1. n \in 0 .. ring_size - 1
      BY FullAndEmptyExact DEF IInv, TypeOK
    <3>2. k - 1 \in 0 .. n - 1
      BY <3>1
    <3> QED BY <3>2, UnreadCells DEF IInv, TypeOK
  <2>2. \A k \in 1 .. n : buf'[Slot(read_pos, k - 1, ring_size)] = buf[Slot(read_pos, k - 1, ring_size)]
    BY <1>3, <2>1 DEF PutStore, IInv, TypeOK
  <2>3. UnreadBytes' = UnreadBytes
    BY <1>3, <2>2 DEF PutStore, UnreadBytes
  <2> QED BY <1>3, <2>3 DEF PutStore
<1>4. CASE PutPublish
  <2>1. Fifo!Enqueue(pitem) /\ pitem \in Byte
    BY <1>4, PublishEnqueues DEF IInv, TypeOK
  <2> QED BY <2>1 DEF Fifo!FifoNext
<1>5. CASE GetBegin
  BY <1>5 DEF GetBegin, UnreadBytes
<1>6. CASE GetLoad
  BY <1>6 DEF GetLoad, UnreadBytes
<1>7. CASE GetAdvance
  BY <1>7, AdvanceDequeues DEF Fifo!FifoNext
<1>8. CASE Reconfigure
  <2>1. CASE UNCHANGED <<ring_size, buf, read_pos, write_pos>>
    BY <1>8, <2>1 DEF Reconfigure, UnreadBytes
  <2>2. CASE read_pos' = 0 /\ write_pos' = 0
    <3>1. UnreadBytes' = << >>
      BY <2>2 DEF UnreadBytes, Unread
    <3>2. ring_size' - 1 \in Nat \ {0}
      <4>1. ring_size' \in Nat /\ ring_size' >= 2
        BY DEF IInv, TypeOK
      <4>2. \A size \in Nat : size >= 2 => size - 1 \in Nat \ {0}
        OBVIOUS
      <4> QED BY <4>1, <4>2
    <3> QED BY <1>8, <3>1, <3>2 DEF Reconfigure, Fifo!FifoNext, Fifo!Resize
  <2> QED BY <1>8, <2>1, <2>2 DEF Reconfigure, Reinit, SetRingSize, Reset
<1>9. CASE UNCHANGED vars
  BY <1>9 DEF vars, UnreadBytes
<1> QED BY <1>1, <1>2, <1>3, <1>4, <1>5, <1>6, <1>7, <1>8, <1>9 DEF Next

(* The ring buffer implements the bounded byte queue. *)
THEOREM Refinement == Spec => ImplementsFifo
<1>1. Init => Fifo!FifoInit
  <2> SUFFICES ASSUME Init PROVE Fifo!FifoInit
    OBVIOUS
  <2>1. IInv
    BY InitIInv
  <2>2. UnreadBytes = << >>
    BY DEF Init, UnreadBytes, Unread
  <2> QED BY <2>1, <2>2 DEF Fifo!FifoInit, IInv, TypeOK, Init
<1> QED BY <1>1, Inductive, StepSimulation, PTL DEF Spec, ImplementsFifo, Fifo!FifoSpec
=============================================================================
