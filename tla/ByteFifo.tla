------------------------------ MODULE ByteFifo ------------------------------
(***************************************************************************)
(* What RingBuffer promises its producer and its consumer: a bounded queue *)
(* of bytes.  put appends and answers TRUE, or leaves the queue alone and  *)
(* answers FALSE, the latter only when the queue is full; get removes and  *)
(* returns the oldest byte; changing the capacity empties the queue.       *)
(***************************************************************************)
EXTENDS Naturals, Sequences

CONSTANT Byte

VARIABLES
  queue,     \* the bytes put and not yet got, oldest first
  capacity,  \* the most bytes the queue holds
  put_ret,   \* what the last put returned
  get_ret    \* what the last get returned

fifo == <<queue, capacity, put_ret, get_ret>>

FifoInit ==
  /\ queue = << >>
  /\ capacity \in Nat \ {0}
  /\ put_ret = TRUE
  /\ get_ret \in Byte

Enqueue(b) ==
  /\ Len(queue) < capacity
  /\ queue' = Append(queue, b)
  /\ put_ret' = TRUE
  /\ UNCHANGED <<capacity, get_ret>>

Refuse ==
  /\ Len(queue) = capacity
  /\ put_ret' = FALSE
  /\ UNCHANGED <<queue, capacity, get_ret>>

Dequeue ==
  /\ queue # << >>
  /\ get_ret' = Head(queue)
  /\ queue' = Tail(queue)
  /\ UNCHANGED <<capacity, put_ret>>

Resize ==
  /\ queue' = << >>
  /\ capacity' \in Nat \ {0}
  /\ UNCHANGED <<put_ret, get_ret>>

FifoNext == (\E b \in Byte : Enqueue(b)) \/ Refuse \/ Dequeue \/ Resize

FifoSpec == FifoInit /\ [][FifoNext]_fifo
=============================================================================
