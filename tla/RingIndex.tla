----------------------------- MODULE RingIndex -----------------------------
(***************************************************************************)
(* Cursor arithmetic of the ring buffer (src/ringbuffer.rs): the pure      *)
(* functions of a read cursor r, a write cursor w and the capacity that    *)
(* RingBuffer::{is_full, put, get, has_data, is_empty, diff} compute.      *)
(*                                                                         *)
(* Unread and Slot have no counterpart in the code: they say how many      *)
(* bytes really lie between the cursors and where the k-th of them is, and *)
(* are what the code's tests are compared with.                            *)
(***************************************************************************)
EXTENDS Integers

(* Mutant: the modulo is forgotten. *)
AdvanceUnwrapped(pos, size) == pos + 1

(* `(pos + 1) % self.ring_size`, the step of either cursor. *)
Advance(pos, size) == (pos + 1) % size

(* usize::abs_diff: the distance of two indices, NOT the distance around   *)
(* the ring.                                                               *)
AbsDiff(r, w) == IF r >= w THEN r - w ELSE w - r

(* Mutant: one slot more than needed stays free. *)
IsFullEarly(r, w, size) == Advance(w, size) = r \/ Advance(w + 1, size) = r

IsFull(r, w, size) == Advance(w, size) = r

IsEmpty(r, w) == r = w

(* Mutant: any byte is worth draining. *)
HasAnyData(r, w, diff) == r # w

(* Mutant: the distance is taken only while the cursors have not wrapped.  *)
HasDataAhead(r, w, diff) == w > r /\ w - r > diff

(* The writer thread's test for "worth draining". *)
HasData(r, w, diff) == r # w /\ AbsDiff(r, w) > diff

(* usize::max, which clamps every requested size from below. *)
AtLeast(requested, minimum) == IF requested >= minimum THEN requested ELSE minimum

----------------------------------------------------------------------------
(* Number of bytes put and not yet got. *)
Unread(r, w, size) == IF w >= r THEN w - r ELSE size - (r - w)

(* Index of the unread byte that k others precede. *)
Slot(r, k, size) == IF r + k < size THEN r + k ELSE r + k - size
=============================================================================
