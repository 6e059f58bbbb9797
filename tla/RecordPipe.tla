----------------------------- MODULE RecordPipe -----------------------------
(***************************************************************************)
(* What threaded writing promises a client that does not overrun the ring: *)
(* a pipe of records.  Accepted records are sent to the device in packets  *)
(* of consecutive whole records, each record once and in order; flush      *)
(* waits until nothing accepted is left to send, or gives up; after the    *)
(* pipe was closed nothing is accepted or sent, and what was left is lost. *)
(***************************************************************************)
EXTENDS Integers, Sequences

CONSTANTS
  RecLen,  \* bytes of a record
  LenOut   \* bytes of the largest packet and its header

VARIABLES
  accepted,  \* records accepted so far
  sent,      \* records sent so far
  packet,    \* the last packet: for each byte, its record and its place there
  waiting,   \* the client is inside flush
  answer,    \* how the last flush ended
  open       \* the pipe still sends

pipe == <<accepted, sent, packet, waiting, answer, open>>

PipeInit ==
  /\ accepted = 0 /\ sent = 0 /\ packet = << >>
  /\ waiting = FALSE /\ answer = "none"
  /\ open = TRUE

(* The bytes of the n records that follow the first m. *)
BytesOf(m, n) ==
  [i \in 1 .. n * RecLen |-> <<m + 1 + ((i - 1) \div RecLen), 1 + ((i - 1) % RecLen)>>]

Accept ==
  /\ open /\ ~waiting
  /\ accepted' = accepted + 1
  /\ UNCHANGED <<sent, packet, waiting, answer, open>>

Send ==
  /\ open
  /\ \E n \in 1 .. accepted - sent :
       /\ n * RecLen < LenOut
       /\ packet' = BytesOf(sent, n)
       /\ sent' = sent + n
  /\ UNCHANGED <<accepted, waiting, answer, open>>

FlushCall ==
  /\ ~waiting
  /\ waiting' = TRUE
  /\ UNCHANGED <<accepted, sent, packet, answer, open>>

FlushDone ==
  /\ waiting
  /\ sent = accepted
  /\ waiting' = FALSE /\ answer' = "done"
  /\ UNCHANGED <<accepted, sent, packet, open>>

FlushGaveUp ==
  /\ waiting
  /\ waiting' = FALSE /\ answer' = "timeout"
  /\ UNCHANGED <<accepted, sent, packet, open>>

Shut ==
  /\ open /\ ~waiting
  /\ open' = FALSE
  /\ UNCHANGED <<accepted, sent, packet, waiting, answer>>

PipeNext == Accept \/ Send \/ FlushCall \/ FlushDone \/ FlushGaveUp \/ Shut

PipeSpec == PipeInit /\ [][PipeNext]_pipe
=============================================================================
