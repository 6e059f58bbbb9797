----------------------------- MODULE RingBuffer -----------------------------
(***************************************************************************)
(* The single-producer / single-consumer byte ring of src/ringbuffer.rs,   *)
(* at the granularity of its accesses to shared memory: one step per       *)
(* access of the other side's cursor, of the storage and of the own        *)
(* cursor.  A load of the own cursor (Relaxed) is no step of its own,      *)
(* nobody else writes it.                                                  *)
(*                                                                         *)
(* The producer calls put whenever it likes.  The consumer calls get only  *)
(* after it saw the ring non-empty (is_empty, or has_data, which implies   *)
(* it): get itself tests nothing.  Reconfiguration takes `&mut self`, so   *)
(* both sides are idle.  WriterThread is where the driver's own use of the *)
(* ring is modelled.                                                       *)
(***************************************************************************)
EXTENDS RingIndex, Sequences

CONSTANTS
  Byte,             \* the values of a byte
  Zero,             \* what fresh storage holds
  MinRingSize, MinDiffSize,         \* constants.rs
  DefaultRingSize, DefaultDiffSize, \* constants.rs
  RingSizes, DiffSizes              \* the sizes a caller may ask for

ASSUME RingAssumption ==
  /\ Zero \in Byte
  /\ MinRingSize \in Nat /\ MinRingSize >= 2
  /\ MinDiffSize \in Nat
  /\ DefaultRingSize \in Nat /\ DefaultDiffSize \in Nat
  /\ RingSizes \subseteq Nat /\ DiffSizes \subseteq Nat

VARIABLES
  buf, read_pos, write_pos, ring_size, diff_size,
  ppc, pitem,        \* producer: where it is inside put, and the argument
  cpc, citem,        \* consumer: where it is inside get, and the byte read
  put_ret, get_ret   \* what the last put and the last get returned

config == <<ring_size, diff_size>>
prod == <<ppc, pitem, put_ret>>
cons == <<cpc, citem, get_ret>>
vars == <<buf, read_pos, write_pos, config, prod, cons>>

Init ==
  /\ \E size \in RingSizes \cup {DefaultRingSize}, diff \in DiffSizes \cup {DefaultDiffSize} :
       /\ ring_size = AtLeast(size, MinRingSize)
       /\ diff_size = AtLeast(diff, MinDiffSize)
  /\ buf = [i \in 0 .. ring_size - 1 |-> Zero]
  /\ read_pos = 0 /\ write_pos = 0
  /\ ppc = "idle" /\ pitem = Zero /\ put_ret = TRUE
  /\ cpc = "idle" /\ citem = Zero /\ get_ret = Zero

----------------------------------------------------------------------------
(* put *)

PutRefuse ==
  /\ ppc = "idle"
  /\ IsFull(read_pos, write_pos, ring_size)
  /\ put_ret' = FALSE
  /\ UNCHANGED <<buf, read_pos, write_pos, config, ppc, pitem, cons>>

PutBegin(item) ==
  /\ ppc = "idle"
  /\ ~IsFull(read_pos, write_pos, ring_size)
  /\ ppc' = "store"
  /\ pitem' = item
  /\ UNCHANGED <<buf, read_pos, write_pos, config, put_ret, cons>>

PutStore ==
  /\ ppc = "store"
  /\ buf' = [buf EXCEPT ![write_pos] = pitem]
  /\ ppc' = "publish"
  /\ UNCHANGED <<read_pos, write_pos, config, pitem, put_ret, cons>>

PutPublish ==
  /\ ppc = "publish"
  /\ write_pos' = Advance(write_pos, ring_size)
  /\ ppc' = "idle"
  /\ put_ret' = TRUE
  /\ UNCHANGED <<buf, read_pos, config, pitem, cons>>

(* get, called by a consumer that found the ring non-empty *)

(* Mutant: the consumer does not test for an empty ring. *)
GetBeginUnchecked ==
  /\ cpc = "idle"
  /\ cpc' = "load"
  /\ UNCHANGED <<buf, read_pos, write_pos, config, prod, citem, get_ret>>

GetBegin ==
  /\ cpc = "idle"
  /\ ~IsEmpty(read_pos, write_pos)
  /\ cpc' = "load"
  /\ UNCHANGED <<buf, read_pos, write_pos, config, prod, citem, get_ret>>

GetLoad ==
  /\ cpc = "load"
  /\ citem' = buf[read_pos]
  /\ cpc' = "advance"
  /\ UNCHANGED <<buf, read_pos, write_pos, config, prod, get_ret>>

GetAdvance ==
  /\ cpc = "advance"
  /\ read_pos' = Advance(read_pos, ring_size)
  /\ get_ret' = citem
  /\ cpc' = "idle"
  /\ UNCHANGED <<buf, write_pos, config, prod, citem>>

----------------------------------------------------------------------------
(* Reconfiguration: `&mut self`, nobody is inside put or get. *)

Exclusive == ppc = "idle" /\ cpc = "idle"

Reset == read_pos' = 0 /\ write_pos' = 0

(* Vec::resize keeps what still fits and fills the rest with zeroes. *)
SetRingSize(size) ==
  /\ ring_size' = AtLeast(size, MinRingSize)
  /\ buf' = [i \in 0 .. ring_size' - 1 |-> IF i < ring_size THEN buf[i] ELSE Zero]
  /\ Reset

SetDiffSize(size) == diff_size' = AtLeast(size, MinDiffSize)

Reinit(size, diff) == SetRingSize(size) /\ SetDiffSize(diff)

Reconfigure ==
  /\ Exclusive
  /\ \/ /\ \E size \in RingSizes : SetRingSize(size)
        /\ UNCHANGED diff_size
     \/ /\ \E diff \in DiffSizes : SetDiffSize(diff)
        /\ UNCHANGED <<ring_size, buf, read_pos, write_pos>>
     \/ \E size \in RingSizes, diff \in DiffSizes : Reinit(size, diff)
     \/ Reinit(DefaultRingSize, DefaultDiffSize)
  /\ UNCHANGED <<prod, cons>>

Next ==
  \/ PutRefuse
  \/ \E item \in Byte : PutBegin(item)
  \/ PutStore
  \/ PutPublish
  \/ GetBegin
  \/ GetLoad
  \/ GetAdvance
  \/ Reconfigure

Spec == Init /\ [][Next]_vars

----------------------------------------------------------------------------
TypeOK ==
  /\ ring_size \in Nat /\ ring_size >= 2
  /\ diff_size \in Nat
  /\ buf \in [0 .. ring_size - 1 -> Byte]
  /\ read_pos \in 0 .. ring_size - 1
  /\ write_pos \in 0 .. ring_size - 1
  /\ ppc \in {"idle", "store", "publish"} /\ pitem \in Byte /\ put_ret \in BOOLEAN
  /\ cpc \in {"idle", "load", "advance"} /\ citem \in Byte /\ get_ret \in Byte

(* The storage is an UnsafeCell that both threads access without a lock:   *)
(* the producer never writes the cell the consumer is reading.  This is    *)
(* the SAFETY argument of ringbuffer.rs:40-41, "These never overlap".      *)
NoDataRace == ~(ppc = "store" /\ cpc = "load" /\ write_pos = read_pos)

(* The bytes between the cursors, oldest first. *)
UnreadBytes ==
  [k \in 1 .. Unread(read_pos, write_pos, ring_size) |->
     buf[Slot(read_pos, k - 1, ring_size)]]

Fifo == INSTANCE ByteFifo WITH queue <- UnreadBytes, capacity <- ring_size - 1

(* The ring implements the bounded byte queue: bytes come out once, in the *)
(* order they went in, a byte is refused only when ring_size - 1 of them   *)
(* are unread, and get returns what was put, whatever the interleaving.    *)
ImplementsFifo == Fifo!FifoSpec
=============================================================================
