------------------------------ MODULE DirectIO ------------------------------
(***************************************************************************)
(* Synchronous I/O by several threads (src/device.rs, UsbSid::{            *)
(* single_write, send_raw, recv_raw, recv_raw_timeout, single_read, write, *)
(* write_cycled, write_buffer, read, get_socket_config, clear_in_halt},    *)
(* the commands from pause to clear_bus, single_read_config and the        *)
(* private send_bytes and recv_bytes; the libusb backend of                *)
(* src/transport.rs).                                                      *)
(*                                                                         *)
(* Most of these calls take `&self` and may run at the same time in        *)
(* different threads; those that take `&mut self` exclude all others.  The *)
(* transport is behind a mutex that is locked once to send and once to     *)
(* receive.  A recv keeps it for up to a second, takes the oldest reply    *)
(* that waits, whosever it is, and halts the IN endpoint if that reply is  *)
(* longer than the buffer; then every recv fails until clear_in_halt.      *)
(*                                                                         *)
(* A command, and a reply, is known by the thread and the call it is for.  *)
(***************************************************************************)
EXTENDS Integers, Sequences, FiniteSets

CONSTANTS
  Threads,
  Calls,        \* the calls the threads make
  ConfigLens,   \* bytes of a configuration reply; newer firmware sends more
  RawLens,      \* bytes that callers of recv_raw and recv_raw_timeout ask for
  MaxCalls,     \* bound: calls made
  MaxCommands,  \* bound: commands on their way
  MaxFaults     \* bound: sends that fail or are short, and replies that come too late

(* Sent, and done: single_write; and pause, mute and the other commands    *)
(* with the direct writes, which differ in what they send.                 *)
OneWay == {"single_write", "write"}

(* Calls that have a reply; send_raw and the recv_raw for it make up "raw". *)
Questions == {"single_read", "read", "config", "socket", "raw"}

CallNames == OneWay \cup Questions \cup {"drain", "clear"}

Nobody == "nobody"

ASSUME DirectIOAssumption ==
  /\ IsFiniteSet(Threads) /\ Nobody \notin Threads
  /\ Calls \subseteq CallNames
  /\ ConfigLens \subseteq 1 .. 64 /\ ConfigLens # {}  \* a packet of the device at most
  /\ RawLens \subseteq Nat /\ RawLens # {}
  /\ MaxCalls \in Nat /\ MaxCommands \in Nat \ {0} /\ MaxFaults \in Nat

VARIABLES
  pc, call,           \* each thread: where it is, and in which call
  result,             \* each thread: what its last question gave
  lock,               \* who holds the transport
  halted,             \* external: the IN endpoint is halted
  commands, replies,  \* external: both directions of the wire
  calls, faults

threads == <<pc, call, result>>
wires == <<commands, replies>>
vars == <<threads, lock, halted, wires, calls, faults>>

Init ==
  /\ pc = [t \in Threads |-> "idle"] /\ call = [t \in Threads |-> "none"]
  /\ result = [t \in Threads |-> "none"]
  /\ lock = Nobody /\ halted = FALSE
  /\ commands = << >> /\ replies = << >>
  /\ calls = 0 /\ faults = 0

(* Calls that take `&mut self`. *)
Exclusive == {"write", "read", "config", "socket"}

(* Mutant: a configuration reply is received into one byte. *)
CapacityAsked(c) == IF c \in {"single_read", "read", "config"} THEN 1
                    ELSE IF c = "socket" THEN 10 ELSE 64

(* The bytes of the driver's own buffers. *)
Capacity(c) == IF c \in {"single_read", "read"} THEN 1
               ELSE IF c = "socket" THEN 10 ELSE 64

(* recv_raw and recv_raw_timeout, the call that drains, leave the size of  *)
(* the buffer to their callers.                                            *)
Buffers(c) == IF c \in {"raw", "drain"} THEN RawLens ELSE {Capacity(c)}

ReplyLens(c) == IF c \in {"single_read", "read"} THEN {1}
                ELSE IF c = "socket" THEN {10} ELSE ConfigLens

InCall(t) == pc[t] \in {"send", "recv", "clear"}

(* What the borrow of UsbSid allows t to call. *)
MayBorrow(t, c) ==
  \A u \in Threads \ {t} :
    InCall(u) => c \notin Exclusive /\ call[u] \notin Exclusive

----------------------------------------------------------------------------
Begin(t, c) ==
  /\ pc[t] = "idle"
  /\ calls < MaxCalls
  /\ MayBorrow(t, c)
  /\ calls' = calls + 1
  /\ call' = [call EXCEPT ![t] = c]
  /\ pc' = [pc EXCEPT ![t] = CASE c = "drain" -> "recv" [] c = "clear" -> "clear" [] OTHER -> "send"]
  /\ UNCHANGED <<result, lock, halted, wires, faults>>

Issue(t) ==
  /\ Len(commands) < MaxCommands
  /\ commands' = Append(commands, [by |-> t, call |-> call[t]])

(* What follows once send_bytes has come back with Ok. *)
GoOn(t) ==
  pc' = [pc EXCEPT ![t] = CASE call[t] \in OneWay -> "idle"
                            [] call[t] = "raw" -> "owed"
                            [] OTHER -> "recv"]

Send(t) ==
  /\ pc[t] = "send"
  /\ lock = Nobody
  /\ Issue(t)
  /\ GoOn(t)
  /\ UNCHANGED <<call, result, lock, halted, replies, calls, faults>>

(* How much was sent is not tested: a short transfer loses the command.    *)
SendShort(t) ==
  /\ pc[t] = "send"
  /\ lock = Nobody
  /\ faults < MaxFaults
  /\ faults' = faults + 1
  /\ GoOn(t)
  /\ UNCHANGED <<call, result, lock, halted, wires, calls>>

(* The transfer fails before or after the command went out.  The callers   *)
(* of single_read_config and get_socket_config ask for the reply all the   *)
(* same; the others that have a reply return the error.                    *)
SendFails(t) ==
  /\ pc[t] = "send"
  /\ lock = Nobody
  /\ faults < MaxFaults
  /\ faults' = faults + 1
  /\ Issue(t) \/ UNCHANGED commands
  /\ pc' = [pc EXCEPT ![t] = IF call[t] \in {"config", "socket"} THEN "recv" ELSE "idle"]
  /\ result' = IF call[t] \in {"single_read", "read", "raw"}
                 THEN [result EXCEPT ![t] = "error"] ELSE result
  /\ UNCHANGED <<call, lock, halted, replies, calls>>

(* recv_raw, for what send_raw asked. *)
RecvRaw(t) ==
  /\ pc[t] = "owed"
  /\ MayBorrow(t, "raw")
  /\ pc' = [pc EXCEPT ![t] = "recv"]
  /\ UNCHANGED <<call, result, lock, halted, wires, calls, faults>>

LockToRecv(t) ==
  /\ pc[t] = "recv"
  /\ lock = Nobody
  /\ lock' = t
  /\ UNCHANGED <<threads, halted, wires, calls, faults>>

(* The call returns and the guard is dropped.  A failed recv reads as 0,   *)
(* except in recv_raw and read, whose callers are told.                    *)
Return(t, value) ==
  /\ result' = [result EXCEPT ![t] =
       IF value # "failed" THEN value
       ELSE IF call[t] \in {"read", "raw", "drain"} THEN "error" ELSE "zero"]
  /\ pc' = [pc EXCEPT ![t] = "idle"]
  /\ lock' = Nobody
  /\ UNCHANGED <<call, calls>>

(* Mutant: the reply is left where it is. *)
RecvReplyPeeking(t) ==
  /\ lock = t /\ ~halted /\ replies # << >>
  /\ Return(t, IF Head(replies).by = t THEN "own" ELSE "other")
  /\ UNCHANGED <<halted, wires, faults>>

RecvReply(t) ==
  /\ lock = t /\ ~halted /\ replies # << >>
  /\ replies' = Tail(replies)
  /\ \E size \in Buffers(call[t]) :
       LET r == Head(replies)
           fits == r.len <= size
       IN  /\ halted' = ~fits
           /\ Return(t, IF ~fits THEN "failed"
                        ELSE IF r.by = t /\ r.call = call[t] THEN "own" ELSE "other")
  /\ UNCHANGED <<commands, faults>>

RecvHalted(t) ==
  /\ lock = t /\ halted
  /\ Return(t, "failed")
  /\ UNCHANGED <<halted, wires, faults>>

Asked == {i \in DOMAIN commands : commands[i].call \in Questions}

(* Mutant: recv is called again. *)
RecvAgain(t) ==
  /\ lock = t /\ ~halted /\ replies = << >>
  /\ Asked = {}
  /\ UNCHANGED vars

(* The timeout passes, because no reply is coming or because it is late.   *)
RecvTimeout(t) ==
  /\ lock = t /\ ~halted /\ replies = << >>
  /\ \/ Asked = {} /\ UNCHANGED faults
     \/ Asked # {} /\ faults < MaxFaults /\ faults' = faults + 1
  /\ Return(t, "failed")
  /\ UNCHANGED <<halted, wires>>

(* Mutant: the guard is kept. *)
ClearInHaltLocking(t) ==
  /\ pc[t] = "clear"
  /\ lock = Nobody
  /\ lock' = t
  /\ halted' = FALSE
  /\ pc' = [pc EXCEPT ![t] = "idle"]
  /\ UNCHANGED <<call, result, wires, calls, faults>>

ClearInHalt(t) ==
  /\ pc[t] = "clear"
  /\ lock = Nobody
  /\ halted' = FALSE
  /\ pc' = [pc EXCEPT ![t] = "idle"]
  /\ UNCHANGED <<call, result, lock, wires, calls, faults>>

(* The rest of a call that was made. *)
Step(t) ==
  \/ Send(t) \/ SendShort(t) \/ SendFails(t) \/ RecvRaw(t) \/ LockToRecv(t)
  \/ RecvReply(t) \/ RecvHalted(t) \/ RecvTimeout(t) \/ ClearInHalt(t)

(* External: the device takes the oldest command and replies to a question. *)
DeviceStep ==
  /\ commands # << >>
  /\ commands' = Tail(commands)
  /\ LET c == Head(commands)
     IN  IF c.call \in Questions
           THEN \E len \in ReplyLens(c.call) :
                  replies' = Append(replies, [by |-> c.by, call |-> c.call, len |-> len])
           ELSE UNCHANGED replies
  /\ UNCHANGED <<threads, lock, halted, calls, faults>>

Finished ==
  /\ calls = MaxCalls /\ \A t \in Threads : pc[t] = "idle"
  /\ UNCHANGED vars

Next ==
  \/ \E t \in Threads, c \in Calls : Begin(t, c)
  \/ \E t \in Threads : Step(t)
  \/ DeviceStep
  \/ Finished

Spec == Init /\ [][Next]_vars

(* Threads are scheduled, timeouts pass, and the device takes commands.    *)
FairSpec == Spec /\ (\A t \in Threads : WF_vars(Step(t))) /\ WF_vars(DeviceStep)

----------------------------------------------------------------------------
Message == [by : Threads, call : CallNames]
Reply == [by : Threads, call : Questions, len : Nat]

(* The lock's holder is in a recv: no call returns with the guard alive.   *)
TypeOK ==
  /\ pc \in [Threads -> {"idle", "send", "owed", "recv", "clear"}]
  /\ call \in [Threads -> CallNames \cup {"none"}]
  /\ result \in [Threads -> {"none", "own", "other", "zero", "error"}]
  /\ lock # Nobody => lock \in Threads /\ pc[lock] = "recv"
  /\ halted \in BOOLEAN
  /\ commands \in Seq(Message) /\ replies \in Seq(Reply)
  /\ calls \in 0 .. MaxCalls /\ faults \in 0 .. MaxFaults

(* The exchanges between their send and their recv. *)
Awaiting == {t \in Threads : pc[t] \in {"owed", "recv"}}

Outstanding == Cardinality(Asked) + Len(replies)

(* The endpoint works, and the questions on their way and the replies that *)
(* wait are exactly those of the exchange that is going on, if there is    *)
(* one.                                                                    *)
InStep ==
  /\ ~halted
  /\ \/ Awaiting = {} /\ Outstanding = 0
     \/ \E t \in Threads :
          /\ Awaiting = {t}
          /\ Outstanding = IF call[t] = "drain" THEN 0 ELSE 1
          /\ \A i \in Asked : commands[i] = [by |-> t, call |-> call[t]]
          /\ \A i \in DOMAIN replies : replies[i].by = t /\ replies[i].call = call[t]

(* recv_raw is given a buffer that is too short for the reply. *)
RawOverflows ==
  \E t \in Threads : lock = t /\ call[t] = "raw" /\ ~halted /\ halted'

(* As long as no two exchanges overlap, no send fails, no reply is late    *)
(* and no caller of recv_raw asks for less than its reply has, each call   *)
(* gets the answer to its own question and the endpoint stays open; and a  *)
(* driver that was disturbed is as good as new once what was left over is  *)
(* drained and the halt is cleared (device.rs:645-649, "any legal reply    *)
(* fits"; device.rs:607, "drain pending bytes").                           *)
StaysInStep ==
  [][InStep /\ faults' = faults /\ (\A t, u \in Awaiting' : t = u) /\ ~RawOverflows =>
       /\ InStep'
       /\ \A t \in Threads :
            result'[t] # result[t] => result'[t] = "own" \/ call[t] = "drain"]_vars

(* Questions and replies on the wire beyond those somebody waits for. *)
Expecting == {t \in Awaiting : call[t] # "drain"}

LeftOver == Outstanding - Cardinality(Expecting)

(* A call ends and reports a failure, by an error or by a 0. *)
Reported == \E t \in Threads : InCall(t) /\ pc'[t] = "idle" /\ result'[t] \in {"zero", "error"}

(* Whatever the threads do, exchanges keep the wire in balance: a reply is *)
(* left over, to be taken for the answer to a later question, only when a  *)
(* call fails and its caller is told so (by the error of a send that went  *)
(* out all the same or of a recv or, device.rs:638 and 660, by a 0), and   *)
(* one that was left over is made up for only by a question that was not   *)
(* sent or by draining (device.rs:607).                                    *)
LeftOverByFailure ==
  [][/\ LeftOver' > LeftOver => Reported
     /\ LeftOver' < LeftOver =>
          faults' # faults \/ \E t \in Threads : lock = t /\ call[t] = "drain" /\ replies' # replies]_vars

(* Every call returns: the mutex is never kept, a recv that nobody answers *)
(* ends, and a halted endpoint fails instead of blocking.                  *)
CallsReturn == \A t \in Threads : InCall(t) ~> ~InCall(t)
=============================================================================
