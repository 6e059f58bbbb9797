-------------------------- MODULE RingIndexProofs --------------------------
(***************************************************************************)
(* Facts about the ring buffer's cursor arithmetic, for every capacity.    *)
(***************************************************************************)
EXTENDS RingIndex, TLAPS

(* A cursor that stays below the capacity advances by one or wraps to 0:   *)
(* `(pos + 1) % ring_size` is never out of bounds.                         *)
LEMMA AdvanceWraps ==
  ASSUME NEW size \in Nat, size >= 2, NEW pos \in 0 .. size - 1
  PROVE  /\ Advance(pos, size) = IF pos + 1 = size THEN 0 ELSE pos + 1
         /\ Advance(pos, size) \in 0 .. size - 1
BY DEF Advance

(* is_full() is exact: it holds when, and only when, all cells but one are *)
(* unread; and is_empty() when none is.                                    *)
LEMMA FullAndEmptyExact ==
  ASSUME NEW size \in Nat, size >= 2,
         NEW r \in 0 .. size - 1, NEW w \in 0 .. size - 1
  PROVE  /\ Unread(r, w, size) \in 0 .. size - 1
         /\ IsFull(r, w, size) <=> Unread(r, w, size) = size - 1
         /\ IsEmpty(r, w) <=> Unread(r, w, size) = 0
BY AdvanceWraps DEF IsFull, IsEmpty, Unread

(* Publishing a byte into a ring that is not full adds one unread byte,    *)
(* and its cell is the one after the unread bytes.                         *)
LEMMA PutAddsOne ==
  ASSUME NEW size \in Nat, size >= 2,
         NEW r \in 0 .. size - 1, NEW w \in 0 .. size - 1,
         ~IsFull(r, w, size)
  PROVE  /\ Unread(r, Advance(w, size), size) = Unread(r, w, size) + 1
         /\ Slot(r, Unread(r, w, size), size) = w
BY AdvanceWraps DEF IsFull, Unread, Slot

(* Advancing the read cursor of a ring that is not empty removes the       *)
(* oldest byte and keeps the others at their cells.                        *)
LEMMA GetRemovesOne ==
  ASSUME NEW size \in Nat, size >= 2,
         NEW r \in 0 .. size - 1, NEW w \in 0 .. size - 1,
         ~IsEmpty(r, w)
  PROVE  /\ Unread(Advance(r, size), w, size) = Unread(r, w, size) - 1
         /\ Slot(r, 0, size) = r
         /\ \A k \in 0 .. Unread(r, w, size) - 2 :
              Slot(Advance(r, size), k, size) = Slot(r, k + 1, size)
BY AdvanceWraps DEF IsEmpty, Unread, Slot

(* The cells of the unread bytes are distinct from the write cell.         *)
LEMMA UnreadCells ==
  ASSUME NEW size \in Nat, size >= 2,
         NEW r \in 0 .. size - 1, NEW w \in 0 .. size - 1,
         NEW k \in 0 .. Unread(r, w, size) - 1
  PROVE  Slot(r, k, size) \in (0 .. size - 1) \ {w}
BY DEF Unread, Slot

(* What has_data() really answers.  It never reports an empty ring; above  *)
(* the threshold it is right as long as fewer than size - diff bytes are   *)
(* unread; and once the write cursor has wrapped and only diff or fewer    *)
(* cells are free, it reports nothing to drain.                            *)
THEOREM HasDataMeaning ==
  ASSUME NEW size \in Nat, size >= 2, NEW diff \in Nat,
         NEW r \in 0 .. size - 1, NEW w \in 0 .. size - 1
  PROVE  LET unread == Unread(r, w, size) IN
         /\ HasData(r, w, diff) => ~IsEmpty(r, w)
         /\ unread > diff /\ unread < size - diff => HasData(r, w, diff)
         /\ w < r /\ unread >= size - diff => ~HasData(r, w, diff)
BY DEF HasData, IsEmpty, AbsDiff, Unread
=============================================================================
