--------------------------- MODULE DeviceQueries ---------------------------
(***************************************************************************)
(* Questions to the device and what the driver remembers of the answers    *)
(* (src/device.rs, UsbSid::{set_clock_rate, get_clock_rate, get_num_sids,  *)
(* get_fmopl_sid, get_pcb_version, set_stereo, toggle_stereo,              *)
(* get_socket_config, single_read} and single_read_config).                *)
(*                                                                         *)
(* A question is a command sent and a reply received, each under the       *)
(* transport lock, with the device working in between.  Nothing ties a     *)
(* reply to its question: recv takes the oldest one that waits.  If it is  *)
(* longer than the buffer, recv fails and the IN endpoint is halted; then  *)
(* every recv fails until clear_in_halt.  All calls but single_read ignore *)
(* a failed send; a recv that fails counts as 0.                           *)
(*                                                                         *)
(* The device (external) handles commands in order; it is a record of what *)
(* it would answer.  A clock rate is its index in CLOCK_TABLE, whose rates *)
(* are distinct.  Of a reply, its length and first byte matter.            *)
(***************************************************************************)
EXTENDS Integers, Sequences, FiniteSets

CONSTANTS
  Clocks,      \* indices of CLOCK_TABLE, from 0
  Devices,     \* the devices that may be found when the port is opened
  V13,         \* the PCB version that has stereo
  ConfigLens,  \* bytes of a configuration reply; newer firmware sends more
  MaxCommands, \* bound: commands on their way
  MaxOpens,    \* bound: sessions
  MaxFaults    \* bound: failures, but for one more recv of a halted endpoint

SocketMagic == 55  \* 0x37, the first byte of a socket configuration

ASSUME QueryAssumption ==
  /\ Clocks \subseteq Nat /\ 0 \in Clocks
  /\ Devices \subseteq [clock : Nat, num : Nat \ {0}, fmopl : Nat, pcb : Nat]
  /\ V13 \in Nat \ {0} /\ SocketMagic \notin Clocks
  /\ ConfigLens \subseteq 1 .. 64
  /\ MaxCommands \in Nat /\ MaxOpens \in Nat /\ MaxFaults \in Nat

VARIABLES
  port_is_open,
  clk_retrieved, us_clkrate, cycles_per_sec,         \* clock, -1 for no rate
  num_sids, fmopl_sid, pcb_version, socket_config_retrieved, \* device info
  query, stereo,    \* the question being asked or "none"; is a stereo call waiting for it?
  device, commands, replies, \* external: the device and both directions of the wire
  halted,    \* external: the IN endpoint is halted
  opens,
  faults     \* failed or short sends, and recvs that fail though a reply is coming

clock == <<clk_retrieved, us_clkrate, cycles_per_sec>>
info == <<num_sids, fmopl_sid, pcb_version, socket_config_retrieved>>
control == <<query, stereo>>
vars == <<port_is_open, clock, info, control, device, commands, replies, halted, opens, faults>>

Questions == {"clock", "num", "fmopl", "pcb", "socket", "register"}

Init ==
  /\ port_is_open = FALSE
  /\ clk_retrieved = FALSE /\ us_clkrate = -1 /\ cycles_per_sec = 0
  /\ num_sids = 0 /\ fmopl_sid = -1 /\ pcb_version = -1
  /\ socket_config_retrieved = FALSE
  /\ query = "none" /\ stereo = FALSE
  /\ device \in Devices
  /\ commands = << >> /\ replies = << >> /\ halted = FALSE
  /\ opens = 0 /\ faults = 0

----------------------------------------------------------------------------
(* single_write behind what is on the wire already.  It may fail before or *)
(* after the command went out, or be short, which counts as a success.     *)
SendBehind(sent, command) ==
  \/ /\ commands' = Append(sent, command)
     /\ UNCHANGED faults
  \/ /\ faults < MaxFaults
     /\ faults' = faults + 1
     /\ commands' \in {sent, Append(sent, command)}

Send(command) == Len(commands) < MaxCommands /\ SendBehind(commands, command)

(* How the send went is ignored. *)
Ask(question) ==
  /\ Send([name |-> question, arg |-> 0])
  /\ halted => faults <= MaxFaults
  /\ query' = question

Idle == port_is_open /\ query = "none"

(* init: a connection to the device last used or to another, and           *)
(* get_clock_rate, which asks only the first time.  What the last session  *)
(* left unread may still be there, and so may a halt.  The mute, clear_bus *)
(* and unmute commands have no reply and leave all of this alone.          *)
Open ==
  /\ ~port_is_open
  /\ opens < MaxOpens
  /\ opens' = opens + 1
  /\ port_is_open' = TRUE
  /\ device' \in Devices \cup {device}
  /\ replies' \in {<< >>, replies}
  /\ halted' \in {FALSE, halted}
  /\ IF clk_retrieved
       THEN commands' = << >> /\ UNCHANGED <<query, faults>>
       ELSE /\ SendBehind(<< >>, [name |-> "clock", arg |-> 0])
            /\ halted' => faults <= MaxFaults
            /\ query' = "clock"
  /\ UNCHANGED <<clock, info, stereo>>

(* close clears nothing of what was learned. *)
Close ==
  /\ Idle
  /\ port_is_open' = FALSE
  /\ UNCHANGED <<clock, info, control, device, commands, replies, halted, opens, faults>>

(* clear_in_halt. *)
ClearInHalt ==
  /\ Idle
  /\ halted' = FALSE
  /\ UNCHANGED <<port_is_open, clock, info, control, device, commands, replies, opens, faults>>

(* Mutant: `&&` for `||`. *)
SetClockRateBoth(i) ==
  /\ Idle
  /\ cycles_per_sec' = i
  /\ IF ~clk_retrieved /\ us_clkrate # i
       THEN Send([name |-> "set_clock", arg |-> i])
       ELSE UNCHANGED <<commands, faults>>
  /\ UNCHANGED <<port_is_open, clk_retrieved, us_clkrate, info, control,
                 device, replies, halted, opens>>

SetClockRate(i) ==
  /\ Idle
  /\ cycles_per_sec' = i
  /\ IF ~clk_retrieved \/ us_clkrate # i
       THEN Send([name |-> "set_clock", arg |-> i])
       ELSE UNCHANGED <<commands, faults>>
  /\ UNCHANGED <<port_is_open, clk_retrieved, us_clkrate, info, control,
                 device, replies, halted, opens>>

(* get_num_sids, get_fmopl_sid and get_pcb_version, when nothing is cached. *)
Unknown(question) ==
  \/ question = "num" /\ num_sids = 0
  \/ question = "fmopl" /\ fmopl_sid = -1
  \/ question = "pcb" /\ pcb_version = -1

GetInfo(question) ==
  /\ Idle
  /\ Unknown(question)
  /\ Ask(question)
  /\ UNCHANGED <<port_is_open, clock, info, stereo, device, replies, halted, opens>>

(* Mutant: the version is not tested. *)
StereoCommandAlways(version) == Send([name |-> "stereo", arg |-> 0])

(* set_stereo and toggle_stereo learn the PCB version first. *)
StereoCommand(version) ==
  IF version = V13 THEN Send([name |-> "stereo", arg |-> 0]) ELSE UNCHANGED <<commands, faults>>

ChangeStereo ==
  /\ Idle
  /\ IF Unknown("pcb")
       THEN Ask("pcb") /\ stereo' = TRUE
       ELSE StereoCommand(pcb_version) /\ UNCHANGED <<query, stereo>>
  /\ UNCHANGED <<port_is_open, clock, info, device, replies, halted, opens>>

(* Once it has succeeded, get_socket_config answers None and asks nothing. *)
GetSocketConfig ==
  /\ Idle
  /\ ~socket_config_retrieved
  /\ Ask("socket")
  /\ UNCHANGED <<port_is_open, clock, info, stereo, device, replies, halted, opens>>

(* single_read alone gives up when the send fails; a short one loses the   *)
(* command.                                                                *)
SingleRead ==
  /\ Idle
  /\ Send([name |-> "register", arg |-> 0])
  /\ halted => faults <= MaxFaults
  /\ \/ faults' # faults /\ query' = "none"
     \/ (faults' = faults \/ commands' = commands) /\ query' = "register"
  /\ UNCHANGED <<port_is_open, clock, info, stereo, device, replies, halted, opens>>

----------------------------------------------------------------------------
(* Mutant: the byte is not looked up in the table. *)
LearnClockUnchecked(byte) ==
  /\ clk_retrieved' = TRUE
  /\ us_clkrate' = byte /\ cycles_per_sec' = byte

(* The rest of a question, once recv has come back with a byte, of a reply *)
(* to whichever question.                                                  *)
LearnClock(byte) ==
  /\ clk_retrieved' = TRUE
  /\ IF byte \in Clocks
       THEN us_clkrate' = byte /\ cycles_per_sec' = byte
       ELSE UNCHANGED <<us_clkrate, cycles_per_sec>>

(* Mutant: two of the caches are exchanged. *)
LearnExchanged(byte, isSocketConfig) ==
  /\ IF query = "clock" THEN LearnClock(byte) ELSE UNCHANGED clock
  /\ num_sids' = IF query = "num" THEN byte ELSE num_sids
  /\ fmopl_sid' = IF query = "pcb" THEN byte ELSE fmopl_sid
  /\ pcb_version' = IF query = "fmopl" THEN byte ELSE pcb_version
  /\ socket_config_retrieved' = IF query = "socket" THEN isSocketConfig ELSE socket_config_retrieved
  /\ query' = "none" /\ stereo' = FALSE

Learn(byte, isSocketConfig) ==
  /\ IF query = "clock" THEN LearnClock(byte) ELSE UNCHANGED clock
  /\ num_sids' = IF query = "num" THEN byte ELSE num_sids
  /\ fmopl_sid' = IF query = "fmopl" THEN byte ELSE fmopl_sid
  /\ pcb_version' = IF query = "pcb" THEN byte ELSE pcb_version
  /\ socket_config_retrieved' = IF query = "socket" THEN isSocketConfig ELSE socket_config_retrieved
  /\ query' = "none" /\ stereo' = FALSE

(* The bytes of the buffer that receives, and those of a reply. *)
Capacity(question) ==
  CASE question = "register" -> 1 [] question = "socket" -> 10 [] OTHER -> 64

ReplyLens(question) ==
  CASE question = "register" -> {1} [] question = "socket" -> {10} [] OTHER -> ConfigLens

(* What came of a recv that did not fail. *)
LearnReply(reply) ==
  /\ Learn(reply.byte, reply.to = "socket" /\ reply.len = 10)
  /\ IF stereo THEN StereoCommand(pcb_version') ELSE UNCHANGED <<commands, faults>>

LearnNothing == Learn(0, FALSE) /\ UNCHANGED commands

(* Mutant: the reply is left where it is. *)
RecvReplyPeeking ==
  /\ query # "none" /\ ~halted
  /\ replies # << >>
  /\ IF Head(replies).len <= Capacity(query)
       THEN LearnReply(Head(replies)) /\ UNCHANGED halted
       ELSE LearnNothing /\ halted' = TRUE /\ UNCHANGED faults
  /\ UNCHANGED <<port_is_open, device, replies, opens>>

(* A reply that does not fit is lost. *)
RecvReply ==
  /\ query # "none" /\ ~halted
  /\ replies # << >>
  /\ replies' = Tail(replies)
  /\ IF Head(replies).len <= Capacity(query)
       THEN LearnReply(Head(replies)) /\ UNCHANGED halted
       ELSE LearnNothing /\ halted' = TRUE /\ UNCHANGED faults
  /\ UNCHANGED <<port_is_open, device, opens>>

IsQuestion(command) == command.name \in Questions

NothingComing == replies = << >> /\ \A i \in DOMAIN commands : ~IsQuestion(commands[i])

(* One second without a reply: it comes too late, or never. *)
RecvTimeout ==
  /\ query # "none" /\ ~halted
  /\ replies = << >>
  /\ \/ NothingComing /\ UNCHANGED faults
     \/ faults < MaxFaults /\ faults' = faults + 1
  /\ LearnNothing
  /\ UNCHANGED <<port_is_open, device, replies, halted, opens>>

(* Nothing is received from a halted endpoint. *)
RecvHalted ==
  /\ query # "none" /\ halted
  /\ faults' = IF NothingComing THEN faults ELSE faults + 1
  /\ LearnNothing
  /\ UNCHANGED <<port_is_open, device, replies, halted, opens>>

(* The device takes the next command. *)
Answer(question) ==
  CASE question = "clock"    -> device.clock
    [] question = "num"      -> device.num
    [] question = "fmopl"    -> device.fmopl
    [] question = "pcb"      -> device.pcb
    [] question = "socket"   -> SocketMagic
    [] question = "register" -> 0

DeviceStep ==
  /\ port_is_open
  /\ commands # << >>
  /\ commands' = Tail(commands)
  /\ LET command == Head(commands)
     IN  /\ IF IsQuestion(command)
              THEN \E len \in ReplyLens(command.name) :
                     replies' = Append(replies, [to |-> command.name, len |-> len,
                                                 byte |-> Answer(command.name)])
              ELSE UNCHANGED replies
         /\ device' = IF command.name = "set_clock"
                        THEN [device EXCEPT !.clock = command.arg]
                        ELSE device
  /\ UNCHANGED <<port_is_open, clock, info, control, halted, opens, faults>>

(* The driver is closed for good. *)
LeftClosed == ~port_is_open /\ opens = MaxOpens /\ UNCHANGED vars

Next ==
  \/ Open \/ Close \/ LeftClosed
  \/ \E i \in Clocks : SetClockRate(i)
  \/ \E question \in {"num", "fmopl", "pcb"} : GetInfo(question)
  \/ ChangeStereo \/ GetSocketConfig \/ SingleRead
  \/ ClearInHalt
  \/ RecvReply \/ RecvTimeout \/ RecvHalted
  \/ DeviceStep

Spec == Init /\ [][Next]_vars

----------------------------------------------------------------------------
Byte == Nat

TypeOK ==
  /\ port_is_open \in BOOLEAN /\ clk_retrieved \in BOOLEAN
  /\ us_clkrate \in Clocks \cup {-1} /\ cycles_per_sec \in Clocks
  /\ num_sids \in Byte /\ fmopl_sid \in Byte \cup {-1} /\ pcb_version \in Byte \cup {-1}
  /\ socket_config_retrieved \in BOOLEAN
  /\ query \in Questions \cup {"none"} /\ stereo \in BOOLEAN
  /\ device \in [clock : Nat, num : Byte, fmopl : Byte, pcb : Byte]
  /\ commands \in Seq([name : Questions \cup {"set_clock", "stereo"}, arg : Clocks])
  /\ replies \in Seq([to : Questions, len : 1 .. 64, byte : Byte])
  /\ halted \in BOOLEAN
  /\ opens \in 0 .. MaxOpens /\ faults \in Nat

Asked(sent) == {i \in DOMAIN sent : IsQuestion(sent[i])}

Outstanding == Len(replies) + Cardinality(Asked(commands))

(* Each question takes one reply, whosever: the replies that nobody waits  *)
(* for are never more than the sends and recvs that failed, in all         *)
(* sessions, be it a timeout, a send whose command went out all the same   *)
(* or a recv from an endpoint that a reply too long has halted             *)
(* (device.rs:645-649, 328-329).                                           *)
BacklogBounded ==
  port_is_open => Outstanding <= faults + (IF query = "none" THEN 0 ELSE 1)

(* The first session, as long as no send failed and no reply came late;    *)
(* then no reply is too long either.                                       *)
Undisturbed == opens = 1 /\ faults = 0

(* What is cached is what the connected device would answer                *)
(* (device.rs:504, "Get the PCB hardware version of the device"), in an    *)
(* undisturbed session: close keeps the caches, a timeout fills them with  *)
(* 0, and a late reply with the answer to another question.                *)
CachesTrue ==
  port_is_open /\ Undisturbed =>
    /\ num_sids # 0 => num_sids = device.num
    /\ fmopl_sid # -1 => fmopl_sid = device.fmopl
    /\ pcb_version # -1 => pcb_version = device.pcb

(* Stereo commands go to v1.3 boards only (device.rs:517, "v1.3 PCB only"). *)
StereoOnlyV13 ==
  Undisturbed => \A i \in DOMAIN commands : commands[i].name = "stereo" => device.pcb = V13

(* Once the device has handled all commands it runs at the rate the driver *)
(* computes with (device.rs:405, "Set the CPU clock rate", and 215-217,    *)
(* "cycles_per_sec reflects reality").                                     *)
ClockInSync == Idle /\ commands = << >> => device.clock = cycles_per_sec

(* In an undisturbed session the device and the driver can only disagree   *)
(* about the clock when the driver was set to the rate it had found the    *)
(* device at, or while the device runs at a rate the driver does not know. *)
ClockInSyncUnlessProbed ==
  Idle /\ commands = << >> /\ Undisturbed =>
    device.clock = cycles_per_sec \/ cycles_per_sec = us_clkrate \/ device.clock \notin Clocks
=============================================================================
