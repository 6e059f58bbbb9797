------------------------ MODULE DeviceQueriesProofs ------------------------
(***************************************************************************)
(* What the driver remembers of a device is true in a session in which no  *)
(* send failed and no reply came late, for every device, clock table and   *)
(* order of calls.                                                         *)
(*                                                                         *)
(* CachesTrue is not inductive: it takes that the reply which waits is the *)
(* answer to the question being asked, and fits its buffer.  AskedOnce     *)
(* says so: a question is the last command sent, and once it is answered   *)
(* its answer is the only reply; the endpoint is open.  ClockInv follows a *)
(* rate that was set on its way to the device.                             *)
(***************************************************************************)
EXTENDS DeviceQueries, SequenceTheorems, FiniteSetTheorems, FunctionTheorems, TLAPS

(* Before the first session there is nothing to remember. *)
Pristine ==
  opens = 0 =>
    /\ ~port_is_open
    /\ num_sids = 0 /\ fmopl_sid = -1 /\ pcb_version = -1
    /\ query = "none" /\ ~stereo /\ ~clk_retrieved
    /\ replies = << >> /\ ~halted

AskedOnce ==
  /\ ~halted
  /\ \A i \in DOMAIN commands :
       IsQuestion(commands[i]) =>
         i = Len(commands) /\ commands[i].name = query /\ replies = << >>
  /\ replies # << >> =>
       /\ commands = << >>
       /\ Len(replies) = 1 /\ replies[1].to = query /\ replies[1].byte = Answer(query)
       /\ replies[1].len <= Capacity(query)
  /\ query # "none" =>
       replies # << >> \/ \E i \in DOMAIN commands : IsQuestion(commands[i])

Learned ==
  /\ num_sids # 0 => num_sids = device.num
  /\ fmopl_sid # -1 => fmopl_sid = device.fmopl
  /\ pcb_version # -1 => pcb_version = device.pcb

StereoInv ==
  /\ stereo => query = "pcb"
  /\ \A i \in DOMAIN commands : commands[i].name = "stereo" => device.pcb = V13

(* The commands that are on their way do not set the clock. *)
NoneSets == \A i \in DOMAIN commands : commands[i].name # "set_clock"

(* The last command that sets the clock sets the driver's rate. *)
LastSets ==
  \E i \in DOMAIN commands :
    /\ commands[i].name = "set_clock" /\ commands[i].arg = cycles_per_sec
    /\ \A j \in DOMAIN commands : j > i => commands[j].name # "set_clock"

ClockInv ==
  IF query = "clock" THEN NoneSets
  ELSE \/ cycles_per_sec = us_clkrate
       \/ LastSets
       \/ NoneSets /\ (device.clock = cycles_per_sec \/ device.clock \notin Clocks)

Session == AskedOnce /\ Learned /\ StereoInv /\ ClockInv

IInv == TypeOK /\ Pristine /\ (Undisturbed => Session)
----------------------------------------------------------------------------
Command == [name : Questions \cup {"set_clock", "stereo"}, arg : Clocks]

Reply == [to : Questions, len : 1 .. 64, byte : Nat]

Board == [clock : Nat, num : Nat, fmopl : Nat, pcb : Nat]

LEMMA Named ==
  TypeOK => /\ commands \in Seq(Command) /\ replies \in Seq(Reply) /\ device \in Board
            /\ faults \in Nat /\ MaxFaults \in Nat
BY QueryAssumption DEF TypeOK, Byte, Command, Reply, Board

LEMMA BoardType == Devices \subseteq Board
BY QueryAssumption DEF Board

(* What a command that is sent does to the commands on their way. *)
LEMMA Appended ==
  ASSUME NEW s \in Seq(Command), NEW c \in Command
  PROVE  LET a == Append(s, c)
         IN  /\ a \in Seq(Command) /\ Len(a) = Len(s) + 1 /\ a # s
             /\ DOMAIN s = 1 .. Len(s) /\ DOMAIN a = 1 .. Len(s) + 1 /\ Len(s) \in Nat
             /\ \A i \in 1 .. Len(s) : a[i] = s[i]
             /\ a[Len(s) + 1] = c
BY AppendProperties, LenProperties

LEMMA Removed ==
  ASSUME NEW S, NEW s \in Seq(S), s # << >>
  PROVE  /\ Tail(s) \in Seq(S) /\ Len(Tail(s)) = Len(s) - 1
         /\ Head(s) = s[1] /\ s[1] \in S
         /\ DOMAIN s = 1 .. Len(s) /\ DOMAIN Tail(s) = 1 .. Len(s) - 1
         /\ Len(s) \in Nat \ {0}
         /\ \A i \in 1 .. Len(s) - 1 : Tail(s)[i] = s[i + 1]
<1>1. Tail(s) \in Seq(S) /\ Len(Tail(s)) = Len(s) - 1
  BY HeadTailProperties
<1>2. Len(s) \in Nat \ {0}
  BY EmptySeq
<1> QED BY <1>1, <1>2, HeadTailProperties, LenProperties

LEMMA SendType ==
  ASSUME TypeOK, NEW sent \in Seq(Command), NEW c \in Command, SendBehind(sent, c)
  PROVE  /\ commands' \in Seq(Command) /\ faults' \in Nat
         /\ faults' \in {faults, faults + 1}
         /\ faults' = 0 => faults = 0 /\ commands' = Append(sent, c)
<1>1. Append(sent, c) \in Seq(Command)
  BY Appended
<1>2. CASE commands' = Append(sent, c) /\ UNCHANGED faults
  BY <1>1, <1>2, Named
<1>3. CASE faults < MaxFaults /\ faults' = faults + 1 /\ commands' \in {sent, Append(sent, c)}
  BY <1>1, <1>3, Named
<1> QED BY <1>2, <1>3 DEF SendBehind

(* A reply is as long as its question has it, and fits its buffer. *)
LEMMA LenFits ==
  ASSUME NEW q \in Questions, NEW len \in ReplyLens(q)
  PROVE  len \in 1 .. 64 /\ len <= Capacity(q)
<1>1. CASE q = "register" \/ q = "socket"
  BY <1>1 DEF ReplyLens, Capacity
<1>2. CASE q # "register" /\ q # "socket"
  BY <1>2, QueryAssumption DEF ReplyLens, Capacity
<1> QED BY <1>1, <1>2

LEMMA Sent ==
  ASSUME TypeOK, NEW c \in Command, Send(c), faults' = 0
  PROVE  commands' = Append(commands, c)
BY Named, SendType DEF Send

LEMMA LearnType ==
  ASSUME TypeOK, NEW byte \in Nat, NEW socket \in BOOLEAN, Learn(byte, socket)
  PROVE  /\ clk_retrieved' \in BOOLEAN
         /\ us_clkrate' \in Clocks \cup {-1} /\ cycles_per_sec' \in Clocks
         /\ num_sids' \in Nat /\ fmopl_sid' \in Nat \cup {-1} /\ pcb_version' \in Nat \cup {-1}
         /\ socket_config_retrieved' \in BOOLEAN
         /\ query' = "none" /\ stereo' = FALSE
BY DEF TypeOK, Byte, Learn, LearnClock, clock

LEMMA AnswerType ==
  ASSUME TypeOK, NEW q \in Questions
  PROVE  Answer(q) \in Nat
BY QueryAssumption DEF TypeOK, Byte, Questions, Answer, SocketMagic

LEMMA InitType == Init => TypeOK
<1>1. Init => device \in Board
  BY BoardType DEF Init
<1>2. << >> \in Seq(Command) /\ << >> \in Seq(Reply)
  BY EmptySeq
<1>3. Init => commands \in Seq(Command) /\ replies \in Seq(Reply)
  BY <1>2 DEF Init
<1>4. Init => opens \in 0 .. MaxOpens /\ faults \in Nat
  BY QueryAssumption DEF Init
<1> QED BY <1>1, <1>3, <1>4, QueryAssumption DEF Init, TypeOK, Byte, Board, Command, Reply

LEMMA TypeStep == TypeOK /\ [Next]_vars => TypeOK'
<1> SUFFICES ASSUME TypeOK, [Next]_vars PROVE TypeOK'
  OBVIOUS
<1> USE QueryAssumption
<1>q. \A q \in Questions : [name |-> q, arg |-> 0] \in Command
  BY DEF Command
<1>n. {"num", "fmopl", "pcb", "socket", "register", "clock"} \subseteq Questions
  BY DEF Questions
<1>s. [name |-> "stereo", arg |-> 0] \in Command
  BY DEF Command
<1>1. CASE Open
  <2>1. commands' \in Seq(Command) /\ replies' \in Seq(Reply) /\ faults' \in Nat
    <3>1. << >> \in Seq(Command) /\ << >> \in Seq(Reply)
      BY EmptySeq
    <3>2. CASE clk_retrieved
      BY <1>1, <3>1, <3>2, Named DEF Open
    <3>3. CASE ~clk_retrieved
      BY <1>1, <1>q, <1>n, <3>1, <3>3, Named, SendType DEF Open
    <3> QED BY <3>2, <3>3 DEF TypeOK
  <2>2. device' \in Board
    BY <1>1, Named, BoardType DEF Open
  <2>3. opens' \in 0 .. MaxOpens /\ query' \in {query, "clock"}
    BY <1>1 DEF Open, TypeOK
  <2>4. halted' \in BOOLEAN
    BY <1>1 DEF Open, TypeOK
  <2> QED BY <1>1, <1>n, <2>1, <2>2, <2>3, <2>4
          DEF Open, TypeOK, Byte, Command, Reply, Board, clock, info
<1>2. CASE Close
  BY <1>2 DEF Close, Idle, TypeOK, clock, info, control
<1>3. ASSUME NEW i \in Clocks, SetClockRate(i) PROVE TypeOK'
  <2>1. [name |-> "set_clock", arg |-> i] \in Command
    BY DEF Command
  <2>2. commands' \in Seq(Command) /\ faults' \in Nat
    BY <1>3, <2>1, Named, SendType DEF SetClockRate, Send
  <2> QED BY <1>3, <2>2 DEF SetClockRate, TypeOK, Command, info, control
<1>4. ASSUME NEW q \in Questions, Ask(q)
      PROVE  commands' \in Seq(Command) /\ faults' \in Nat /\ query' \in Questions
  <2>1. Send([name |-> q, arg |-> 0]) /\ query' = q
    BY <1>4 DEF Ask
  <2>2. commands' \in Seq(Command) /\ faults' \in Nat
    BY <2>1, <1>q, Named, SendType DEF Send
  <2> QED BY <2>1, <2>2
<1>5. ASSUME NEW q \in {"num", "fmopl", "pcb"}, GetInfo(q) PROVE TypeOK'
  BY <1>5, <1>4, <1>n DEF GetInfo, TypeOK, Command, clock, info
<1>6. CASE GetSocketConfig
  BY <1>6, <1>4, <1>n DEF GetSocketConfig, TypeOK, Command, clock, info
<1>7. CASE SingleRead
  <2>1. commands' \in Seq(Command) /\ faults' \in Nat
    BY <1>7, <1>q, <1>n, Named, SendType DEF SingleRead, Send
  <2> QED BY <1>7, <1>n, <2>1 DEF SingleRead, TypeOK, Command, clock, info
<1>8. ASSUME NEW version, StereoCommand(version)
      PROVE  commands' \in Seq(Command) /\ faults' \in Nat
  BY <1>8, <1>s, Named, SendType DEF StereoCommand, Send
<1>9. CASE ChangeStereo
  <2>1. CASE Unknown("pcb")
    BY <1>9, <2>1, <1>4, <1>n DEF ChangeStereo, TypeOK, Command, clock, info
  <2>2. CASE ~Unknown("pcb")
    BY <1>9, <2>2, <1>8 DEF ChangeStereo, TypeOK, Command, clock, info
  <2> QED BY <2>1, <2>2
<1>10. CASE RecvReply
  <2>1. replies' \in Seq(Reply) /\ Head(replies).byte \in Nat
    <3>1. replies' = Tail(replies) /\ replies # << >> /\ replies \in Seq(Reply)
      BY <1>10, Named DEF RecvReply
    <3>2. replies' \in Seq(Reply) /\ Head(replies) \in Reply
      BY <3>1, Removed
    <3> QED BY <3>2 DEF Reply
  <2>2. CASE LearnReply(Head(replies)) /\ UNCHANGED halted
    <3>1. commands' \in Seq(Command) /\ faults' \in Nat
      BY <2>2, <1>8, Named DEF LearnReply
    <3>2. Learn(Head(replies).byte, Head(replies).to = "socket" /\ Head(replies).len = 10)
      BY <2>2 DEF LearnReply
    <3> QED BY <1>10, <2>1, <2>2, <3>1, <3>2, LearnType DEF RecvReply, TypeOK, Command, Byte, Reply
  <2>3. CASE LearnNothing /\ halted' = TRUE /\ UNCHANGED faults
    BY <1>10, <2>1, <2>3, LearnType DEF RecvReply, LearnNothing, TypeOK, Byte, Reply
  <2> QED BY <1>10, <2>2, <2>3 DEF RecvReply
<1>11. CASE RecvTimeout \/ RecvHalted
  <2>1. faults' \in Nat
    BY <1>11 DEF RecvTimeout, RecvHalted, TypeOK
  <2> QED BY <1>11, <2>1, LearnType DEF RecvTimeout, RecvHalted, LearnNothing, TypeOK, Byte
<1>12. CASE DeviceStep
  <2> DEFINE c == Head(commands)
  <2>1. commands' \in Seq(Command) /\ c \in Command
    BY <1>12, Removed, Named DEF DeviceStep
  <2>2. replies' \in Seq(Reply)
    <3>1. CASE IsQuestion(c)
      <4>1. PICK len \in ReplyLens(c.name) :
               replies' = Append(replies, [to |-> c.name, len |-> len, byte |-> Answer(c.name)])
        BY <1>12, <3>1 DEF DeviceStep
      <4>2. [to |-> c.name, len |-> len, byte |-> Answer(c.name)] \in Reply
        BY <3>1, AnswerType, LenFits DEF IsQuestion, Reply
      <4> QED BY <4>1, <4>2, Named, AppendProperties
    <3>2. CASE ~IsQuestion(c)
      BY <1>12, <3>2, Named DEF DeviceStep
    <3> QED BY <3>1, <3>2
  <2>3. device' \in Board
    BY <1>12, <2>1, Named DEF DeviceStep, Command, Board
  <2> QED BY <1>12, <2>1, <2>2, <2>3
          DEF DeviceStep, TypeOK, Command, Reply, Board, Byte, clock, info, control
<1>13. CASE UNCHANGED vars
  BY <1>13 DEF TypeOK, vars, clock, info, control
<1>14. CASE ClearInHalt
  BY <1>14 DEF ClearInHalt, TypeOK, clock, info, control
<1> QED BY <1>1, <1>2, <1>3, <1>5, <1>6, <1>7, <1>9, <1>10, <1>11, <1>12, <1>13, <1>14
        DEF Next, LeftClosed

----------------------------------------------------------------------------
(* The steps of an undisturbed session, one lemma for each kind. *)
LEMMA Quiet ==
  ASSUME TypeOK, Session, query = "none"
  PROVE  /\ replies = << >> /\ ~stereo /\ ~halted
         /\ \A i \in DOMAIN commands : ~IsQuestion(commands[i])
<1>1. "none" \notin Questions
  BY DEF Questions
<1>2. ASSUME replies # << >> PROVE FALSE
  <2>1. replies[1] \in Reply
    BY <1>2, Named, Removed
  <2> QED BY <1>1, <1>2, <2>1 DEF Session, AskedOnce, Reply
<1>3. ~stereo
  BY DEF Session, StereoInv
<1> QED BY <1>1, <1>2, <1>3 DEF Session, AskedOnce, IsQuestion

LEMMA QuestionStep ==
  ASSUME TypeOK, Session, query = "none",
         NEW q \in Questions \ {"clock"},
         commands' = Append(commands, [name |-> q, arg |-> 0]), query' = q,
         UNCHANGED <<clock, info, device, replies, halted>>,
         stereo' => stereo \/ q = "pcb"
  PROVE  Session'
<1> DEFINE c == [name |-> q, arg |-> 0]
<1>1. c \in Command /\ commands \in Seq(Command)
  BY Named, QueryAssumption DEF Command
<1>2. /\ DOMAIN commands = 1 .. Len(commands) /\ Len(commands) \in Nat
      /\ DOMAIN commands' = 1 .. Len(commands) + 1 /\ Len(commands') = Len(commands) + 1
      /\ \A i \in 1 .. Len(commands) : commands'[i] = commands[i]
      /\ commands'[Len(commands) + 1] = c
  BY <1>1, Appended
<1>3. q \notin {"none", "clock", "set_clock", "stereo"}
  BY DEF Questions
<1>4. replies = << >> /\ ~stereo /\ ~halted /\ \A i \in DOMAIN commands : ~IsQuestion(commands[i])
  BY Quiet
<1>5. AskedOnce'
  <2>1. \A i \in DOMAIN commands' : IsQuestion(commands'[i]) => i = Len(commands')
    BY <1>2, <1>4 DEF IsQuestion
  <2>2. IsQuestion(commands'[Len(commands')]) /\ commands'[Len(commands')].name = query'
    BY <1>2 DEF IsQuestion
  <2>3. replies' = << >> /\ ~halted' /\ Len(commands') \in DOMAIN commands'
    BY <1>2, <1>4
  <2> QED BY <2>1, <2>2, <2>3 DEF AskedOnce, IsQuestion
<1>6. Learned'
  BY DEF Session, Learned, info
<1>7. StereoInv'
  BY <1>2, <1>3, <1>4 DEF Session, StereoInv
<1>8. ClockInv'
  <2>1. CASE NoneSets
    <3>1. NoneSets'
      BY <1>2, <1>3, <2>1 DEF NoneSets
    <3>2. ~LastSets
      BY <2>1 DEF LastSets, NoneSets
    <3> QED BY <1>3, <3>1, <3>2 DEF Session, ClockInv, clock
  <2>2. CASE LastSets
    BY <1>2, <1>3, <2>2 DEF ClockInv, LastSets, clock
  <2> QED BY <1>3, <2>1, <2>2 DEF Session, ClockInv, clock
<1> QED BY <1>5, <1>6, <1>7, <1>8 DEF Session

LEMMA StereoStep ==
  ASSUME TypeOK, Session, query = "none", replies = << >>,
         device.pcb = V13, UNCHANGED <<clock, info, device, replies, query, stereo, halted>>,
         commands' = Append(commands, [name |-> "stereo", arg |-> 0])
  PROVE  Session'
<1> DEFINE c == [name |-> "stereo", arg |-> 0]
<1>1. c \in Command /\ commands \in Seq(Command)
  BY Named, QueryAssumption DEF Command
<1>2. /\ DOMAIN commands = 1 .. Len(commands) /\ Len(commands) \in Nat
      /\ DOMAIN commands' = 1 .. Len(commands) + 1 /\ Len(commands') = Len(commands) + 1
      /\ \A i \in 1 .. Len(commands) : commands'[i] = commands[i]
      /\ commands'[Len(commands) + 1] = c
  BY <1>1, Appended
<1>3. ~stereo /\ ~halted /\ \A i \in DOMAIN commands : ~IsQuestion(commands[i])
  BY Quiet
<1>4. "stereo" \notin Questions
  BY DEF Questions
<1>5. AskedOnce'
  BY <1>2, <1>3, <1>4 DEF AskedOnce, IsQuestion
<1>6. Learned' /\ StereoInv'
  BY <1>2, <1>3 DEF Session, Learned, StereoInv, info
<1>7. ClockInv'
  <2>1. CASE NoneSets
    <3>1. NoneSets'
      BY <1>2, <2>1 DEF NoneSets
    <3>2. ~LastSets
      BY <2>1 DEF LastSets, NoneSets
    <3> QED BY <3>1, <3>2 DEF Session, ClockInv, clock
  <2>2. CASE LastSets
    BY <1>2, <2>2 DEF ClockInv, LastSets, clock
  <2> QED BY <2>1, <2>2 DEF Session, ClockInv, clock
<1> QED BY <1>5, <1>6, <1>7 DEF Session

LEMMA SetClockStep ==
  ASSUME TypeOK, Session, NEW i \in Clocks, SetClockRate(i), faults = 0, faults' = 0
  PROVE  Session'
<1> DEFINE c == [name |-> "set_clock", arg |-> i]
<1>1. query = "none" /\ UNCHANGED <<us_clkrate, info, device, replies, query, stereo, halted>>
      /\ cycles_per_sec' = i
  BY DEF SetClockRate, Idle, info, control
<1>2. CASE UNCHANGED commands /\ us_clkrate = i
  BY <1>1, <1>2
     DEF Session, AskedOnce, Learned, StereoInv, ClockInv, IsQuestion, Answer, info
<1>3. CASE commands' = Append(commands, c)
  <2>1. c \in Command /\ commands \in Seq(Command)
    BY Named DEF Command
  <2>2. /\ DOMAIN commands = 1 .. Len(commands) /\ Len(commands) \in Nat
        /\ DOMAIN commands' = 1 .. Len(commands) + 1 /\ Len(commands') = Len(commands) + 1
        /\ \A j \in 1 .. Len(commands) : commands'[j] = commands[j]
        /\ commands'[Len(commands) + 1] = c
    BY <1>3, <2>1, Appended
  <2>3. replies = << >> /\ ~stereo /\ ~halted /\ \A j \in DOMAIN commands : ~IsQuestion(commands[j])
    BY <1>1, Quiet
  <2>4. "set_clock" \notin Questions
    BY DEF Questions
  <2>5. AskedOnce'
    BY <1>1, <2>2, <2>3, <2>4 DEF AskedOnce, IsQuestion
  <2>6. Learned' /\ StereoInv'
    BY <1>1, <2>2, <2>3 DEF Session, Learned, StereoInv, info
  <2>7. LastSets'
    <3>1. Len(commands) + 1 \in DOMAIN commands'
          /\ \A j \in DOMAIN commands' : ~(j > Len(commands) + 1)
      BY <2>2
    <3> QED BY <1>1, <2>2, <3>1 DEF LastSets
  <2> QED BY <1>1, <2>5, <2>6, <2>7 DEF Session, ClockInv
<1>4. c \in Command
  BY DEF Command
<1> QED BY <1>2, <1>3, <1>4, Sent DEF SetClockRate

LEMMA OpenStep ==
  ASSUME TypeOK, Pristine, Open, opens' = 1, faults' = 0
  PROVE  Session'
<1> DEFINE c == [name |-> "clock", arg |-> 0]
<1>1. opens = 0 /\ opens \in Nat
  BY DEF Open, TypeOK
<1>2. commands' = <<c>> /\ query' = "clock" /\ replies' = << >> /\ ~stereo' /\ ~halted'
  <2>1. ~clk_retrieved /\ SendBehind(<< >>, c) /\ query' = "clock"
    BY <1>1 DEF Open, Pristine
  <2>2. << >> \in Seq(Command) /\ c \in Command
    BY EmptySeq, QueryAssumption DEF Command, Questions
  <2>3. commands' = <<c>>
    <3>1. commands' = Append(<< >>, c)
      BY <2>1, <2>2, SendType
    <3> QED BY <3>1
  <2>4. replies = << >> /\ ~stereo /\ halted = FALSE
    BY <1>1 DEF Pristine, TypeOK
  <2>5. replies' = << >> /\ ~stereo' /\ ~halted'
    BY <2>4 DEF Open
  <2> QED BY <2>1, <2>3, <2>5
<1>3. "clock" \in Questions
  BY DEF Questions
<1>4. DOMAIN commands' = {1} /\ Len(commands') = 1 /\ commands'[1] = c
  BY <1>2
<1>5. AskedOnce'
  BY <1>2, <1>3, <1>4 DEF AskedOnce, IsQuestion
<1>6. Learned' /\ StereoInv'
  BY <1>1, <1>2, <1>4 DEF Open, Pristine, Learned, StereoInv, info
<1>7. ClockInv'
  BY <1>2, <1>4 DEF ClockInv, NoneSets
<1> QED BY <1>5, <1>6, <1>7 DEF Session

LEMMA AnswerStep ==
  ASSUME TypeOK, Session, RecvReply, faults = 0, faults' = 0
  PROVE  Session'
<1> DEFINE r == replies[1]
<1>1. /\ commands = << >> /\ Len(replies) = 1 /\ r.to = query /\ r.byte = Answer(query)
      /\ query \in Questions
  BY DEF RecvReply, Session, AskedOnce, TypeOK
<1>2. replies' = << >> /\ Head(replies) = r
  <2>1. Tail(replies) \in Seq(Reply) /\ Len(Tail(replies)) = 0 /\ Head(replies) = r
    BY <1>1, Named, Removed DEF RecvReply
  <2> QED BY <2>1, EmptySeq DEF RecvReply
<1>3. LearnReply(r) /\ Learn(r.byte, r.to = "socket" /\ r.len = 10) /\ UNCHANGED <<device, halted>>
  <2>1. r.len <= Capacity(query)
    BY DEF RecvReply, Session, AskedOnce
  <2> QED BY <1>2, <2>1 DEF RecvReply, LearnReply
<1>4. query' = "none" /\ ~stereo'
  BY <1>3 DEF Learn
<1>5. Learned'
  BY <1>1, <1>3 DEF Session, Learned, Learn, Answer
<1>6. /\ \A i \in DOMAIN commands' : commands'[i].name = "stereo"
      /\ commands' # << >> => device.pcb = V13
  <2>1. CASE commands' = commands
    BY <1>1, <2>1
  <2>2. CASE stereo /\ pcb_version' = V13 /\ commands' = Append(commands, [name |-> "stereo", arg |-> 0])
    <3>1. commands' = <<[name |-> "stereo", arg |-> 0]>>
      BY <1>1, <2>2
    <3>2. query = "pcb"
      BY <2>2 DEF Session, StereoInv
    <3>3. device.pcb = V13
      BY <1>1, <1>3, <2>2, <3>2 DEF Learn, Answer
    <3> QED BY <3>1, <3>3
  <2>3. [name |-> "stereo", arg |-> 0] \in Command
    BY QueryAssumption DEF Command
  <2> QED BY <1>3, <2>1, <2>2, <2>3, Sent DEF LearnReply, StereoCommand
<1>7. AskedOnce'
  BY <1>2, <1>3, <1>4, <1>6 DEF Session, AskedOnce, IsQuestion, Questions
<1>8. StereoInv'
  BY <1>3, <1>4, <1>6 DEF StereoInv
<1>9. ClockInv'
  <2>1. NoneSets'
    BY <1>6 DEF NoneSets
  <2>2. CASE query = "clock"
    BY <1>1, <1>3, <1>4, <2>1, <2>2 DEF ClockInv, Learn, LearnClock, Answer
  <2>3. CASE query # "clock"
    <3>1. UNCHANGED clock /\ ~LastSets
      BY <1>1, <1>3, <2>3 DEF Learn, LastSets
    <3> QED BY <1>3, <1>4, <2>1, <2>3, <3>1 DEF Session, ClockInv, clock
  <2> QED BY <2>2, <2>3
<1> QED BY <1>5, <1>7, <1>8, <1>9 DEF Session

LEMMA NoTimeout ==
  ASSUME TypeOK, Session, RecvTimeout \/ RecvHalted, faults = 0, faults' = 0
  PROVE  FALSE
<1>1. RecvTimeout /\ NothingComing
  BY Named DEF RecvTimeout, RecvHalted, Session, AskedOnce
<1> QED BY <1>1 DEF RecvTimeout, NothingComing, Session, AskedOnce

LEMMA DeviceStepKeeps ==
  ASSUME TypeOK, Session, DeviceStep
  PROVE  Session'
<1> DEFINE c == commands[1]
           n == Len(commands)
<1>1. /\ commands' = Tail(commands) /\ Len(commands') = n - 1 /\ Head(commands) = c
      /\ DOMAIN commands = 1 .. n /\ DOMAIN commands' = 1 .. n - 1 /\ n \in Nat \ {0}
      /\ \A i \in 1 .. n - 1 : commands'[i] = commands[i + 1]
      /\ commands' \in Seq(Command) /\ c \in Command
  BY Named, Removed DEF DeviceStep
<1>2. replies = << >> /\ UNCHANGED <<clock, info, query, stereo, halted>>
  BY DEF DeviceStep, Session, AskedOnce, control
<1>3. /\ device'.num = device.num /\ device'.fmopl = device.fmopl /\ device'.pcb = device.pcb
      /\ c.name = "set_clock" => device'.clock = c.arg
      /\ c.name # "set_clock" => device' = device
  BY <1>1, Named DEF DeviceStep, Board
<1>4. AskedOnce'
  <2>1. CASE IsQuestion(c)
    <3>1. n = 1 /\ c.name = query
      BY <1>1, <2>1 DEF Session, AskedOnce
    <3>2. commands' = << >>
      BY <1>1, <3>1, EmptySeq
    <3>3. PICK len \in ReplyLens(c.name) :
             replies' = Append(replies, [to |-> c.name, len |-> len, byte |-> Answer(c.name)])
      BY <1>1, <2>1 DEF DeviceStep
    <3>6. replies' = <<[to |-> c.name, len |-> len, byte |-> Answer(c.name)]>>
      BY <1>2, <3>3
    <3>7. len <= Capacity(query')
      BY <1>2, <2>1, <3>1, LenFits DEF IsQuestion
    <3>4. device' = device
      BY <1>3, <2>1 DEF IsQuestion, Questions
    <3>5. Answer(query)' = Answer(query)
      BY <1>2, <3>4 DEF Answer
    <3> QED BY <1>2, <3>1, <3>2, <3>5, <3>6, <3>7 DEF Session, AskedOnce
  <2>2. CASE ~IsQuestion(c)
    <3>1. replies' = << >>
      BY <1>1, <1>2, <2>2 DEF DeviceStep
    <3>2. \A i \in DOMAIN commands' :
            IsQuestion(commands'[i]) => i = Len(commands') /\ commands'[i].name = query'
      BY <1>1, <1>2 DEF Session, AskedOnce, IsQuestion
    <3>3. query' # "none" => \E i \in DOMAIN commands' : IsQuestion(commands'[i])
      <4>1. SUFFICES ASSUME query # "none" PROVE \E i \in DOMAIN commands' : IsQuestion(commands'[i])
        BY <1>2
      <4>2. PICK i \in 1 .. n : IsQuestion(commands[i])
        BY <1>1, <1>2, <4>1 DEF Session, AskedOnce
      <4>3. i - 1 \in 1 .. n - 1 /\ commands'[i - 1] = commands[i]
        BY <1>1, <2>2, <4>2
      <4> QED BY <1>1, <4>2, <4>3
    <3> QED BY <1>2, <3>1, <3>2, <3>3 DEF Session, AskedOnce, IsQuestion
  <2> QED BY <2>1, <2>2
<1>5. Learned' /\ StereoInv'
  BY <1>1, <1>2, <1>3 DEF Session, Learned, StereoInv, info
<1>6. ClockInv'
  <2>1. CASE NoneSets
    <3>1. NoneSets' /\ c.name # "set_clock"
      BY <1>1, <2>1 DEF NoneSets
    <3>2. ~LastSets
      BY <2>1 DEF LastSets, NoneSets
    <3> QED BY <1>2, <1>3, <3>1, <3>2 DEF Session, ClockInv, clock
  <2>2. CASE LastSets
    <3>1. PICK i \in 1 .. n : /\ commands[i].name = "set_clock" /\ commands[i].arg = cycles_per_sec
                              /\ \A j \in 1 .. n : j > i => commands[j].name # "set_clock"
      BY <1>1, <2>2 DEF LastSets
    <3>2. CASE i = 1
      <4>1. NoneSets'
        BY <1>1, <3>1, <3>2 DEF NoneSets
      <4>2. device'.clock = cycles_per_sec'
        BY <1>2, <1>3, <3>1, <3>2 DEF clock
      <4> QED BY <1>2, <2>2, <3>1, <4>1, <4>2, <1>1 DEF Session, ClockInv, NoneSets
    <3>3. CASE i # 1
      <4>1. i - 1 \in 1 .. n - 1 /\ commands'[i - 1] = commands[i]
        BY <1>1, <3>3
      <4>2. \A j \in 1 .. n - 1 : j > i - 1 => commands'[j].name # "set_clock"
        BY <1>1, <3>1
      <4>3. LastSets'
        BY <1>1, <1>2, <3>1, <4>1, <4>2 DEF LastSets, clock
      <4>4. query # "clock"
        BY <1>1, <3>1 DEF Session, ClockInv, NoneSets
      <4> QED BY <1>2, <4>3, <4>4 DEF ClockInv
    <3> QED BY <3>2, <3>3
  <2> QED BY <1>2, <2>1, <2>2 DEF Session, ClockInv, NoneSets, clock
<1> QED BY <1>4, <1>5, <1>6 DEF Session

----------------------------------------------------------------------------
LEMMA InitIInv == Init => IInv
<1>1. Init => Pristine
  BY DEF Init, Pristine
<1> QED BY <1>1, InitType DEF Init, IInv, Undisturbed

LEMMA SessionStep ==
  ASSUME TypeOK, Pristine, Undisturbed => Session, [Next]_vars, Undisturbed'
  PROVE  Session'
<1>1. CASE Open
  BY <1>1, OpenStep DEF Undisturbed
<1> SUFFICES ASSUME ~Open PROVE Session'
  BY <1>1
<1>2. opens = 1 /\ faults = 0 /\ faults' = 0 /\ opens' = opens
  <2>1. opens' = opens
    BY DEF Next, Close, LeftClosed, SetClockRate, GetInfo, ChangeStereo, GetSocketConfig,
           SingleRead, ClearInHalt, RecvReply, RecvTimeout, RecvHalted, DeviceStep, vars
  <2>2. faults' \in {faults, faults + 1}
    BY DEF Next, Close, LeftClosed, SetClockRate, GetInfo, ChangeStereo, GetSocketConfig,
           SingleRead, ClearInHalt, RecvReply, RecvTimeout, RecvHalted, DeviceStep, vars, Ask,
           StereoCommand, Send, SendBehind, LearnReply, LearnNothing
  <2> QED BY <2>1, <2>2, Named DEF Undisturbed
<1>3. Session
  BY <1>2 DEF Undisturbed
<1>4. ASSUME UNCHANGED <<clock, info, control, device, commands, replies, halted>>
      PROVE  Session'
  BY <1>3, <1>4
     DEF Session, AskedOnce, Learned, StereoInv, ClockInv, NoneSets, LastSets, Answer,
         clock, info, control
<1>5. CASE Close \/ LeftClosed \/ UNCHANGED vars
  BY <1>4, <1>5 DEF Close, LeftClosed, vars
<1>6. ASSUME NEW i \in Clocks, SetClockRate(i) PROVE Session'
  BY <1>2, <1>3, <1>6, SetClockStep
<1>7. ASSUME NEW q \in Questions, Ask(q)
      PROVE  commands' = Append(commands, [name |-> q, arg |-> 0]) /\ query' = q
  <2>1. [name |-> q, arg |-> 0] \in Command
    BY QueryAssumption DEF Command
  <2> QED BY <1>2, <1>7, <2>1, Sent DEF Ask
<1>8. ASSUME NEW q \in {"num", "fmopl", "pcb"}, GetInfo(q) PROVE Session'
  <2>1. q \in Questions \ {"clock"}
    BY DEF Questions
  <2> QED BY <1>3, <1>7, <1>8, <2>1, QuestionStep DEF GetInfo, Idle
<1>9. CASE GetSocketConfig
  <2>1. "socket" \in Questions \ {"clock"}
    BY DEF Questions
  <2> QED BY <1>3, <1>7, <1>9, <2>1, QuestionStep DEF GetSocketConfig, Idle
<1>10. CASE SingleRead
  <2>1. "register" \in Questions \ {"clock"}
    BY DEF Questions
  <2>2. commands' = Append(commands, [name |-> "register", arg |-> 0])
    <3>1. [name |-> "register", arg |-> 0] \in Command
      BY <2>1, QueryAssumption DEF Command
    <3> QED BY <1>2, <1>10, <3>1, Sent DEF SingleRead
  <2>3. query' = "register"
    BY <1>2, <1>10 DEF SingleRead
  <2> QED BY <1>3, <1>10, <2>1, <2>2, <2>3, QuestionStep DEF SingleRead, Idle
<1>11. CASE ChangeStereo
  <2>1. CASE Unknown("pcb")
    <3>1. "pcb" \in Questions \ {"clock"}
      BY DEF Questions
    <3> QED BY <1>3, <1>7, <1>11, <2>1, <3>1, QuestionStep DEF ChangeStereo, Idle
  <2>2. CASE ~Unknown("pcb") /\ pcb_version = V13
    <3>1. device.pcb = V13
      BY <1>3, <2>2 DEF Unknown, Session, Learned
    <3>2. commands' = Append(commands, [name |-> "stereo", arg |-> 0])
      <4>1. [name |-> "stereo", arg |-> 0] \in Command
        BY QueryAssumption DEF Command
      <4> QED BY <1>2, <1>11, <2>2, <4>1, Sent DEF ChangeStereo, StereoCommand
    <3> QED BY <1>3, <1>11, <2>2, <3>1, <3>2, StereoStep, Quiet DEF ChangeStereo, Idle
  <2>3. CASE ~Unknown("pcb") /\ pcb_version # V13
    BY <1>4, <1>11, <2>3 DEF ChangeStereo, StereoCommand, control
  <2> QED BY <2>1, <2>2, <2>3
<1>12. CASE RecvReply
  BY <1>2, <1>3, <1>12, AnswerStep
<1>13. CASE RecvTimeout \/ RecvHalted
  BY <1>2, <1>3, <1>13, NoTimeout
<1>14. CASE DeviceStep
  BY <1>3, <1>14, DeviceStepKeeps
<1>15. CASE ClearInHalt
  <2>1. UNCHANGED <<clock, info, control, device, commands, replies, halted>>
    BY <1>3, <1>15 DEF ClearInHalt, Session, AskedOnce, TypeOK
  <2> QED BY <1>4, <2>1
<1> QED BY <1>5, <1>6, <1>8, <1>9, <1>10, <1>11, <1>12, <1>13, <1>14, <1>15 DEF Next

LEMMA PristineStep ==
  ASSUME TypeOK, Pristine, [Next]_vars PROVE Pristine'
<1>1. CASE Open
  BY <1>1 DEF Open, Pristine, TypeOK
<1>2. CASE ~Open
  <2>1. UNCHANGED <<opens, port_is_open>> \/ Close
    BY <1>2 DEF Next, LeftClosed, SetClockRate, GetInfo, ChangeStereo, GetSocketConfig,
                SingleRead, ClearInHalt, RecvReply, RecvTimeout, RecvHalted, DeviceStep, vars
  <2>2. opens = 0 => UNCHANGED vars
    BY <1>2 DEF Next, Close, LeftClosed, SetClockRate, GetInfo, ChangeStereo, GetSocketConfig,
                SingleRead, ClearInHalt, RecvReply, RecvTimeout, RecvHalted, DeviceStep, Idle, Pristine
  <2> QED BY <2>1, <2>2 DEF Pristine, Close, vars, clock, info, control
<1> QED BY <1>1, <1>2

THEOREM IInvHolds == Spec => []IInv
<1>1. IInv /\ [Next]_vars => IInv'
  BY TypeStep, PristineStep, SessionStep DEF IInv
<1> QED BY <1>1, InitIInv, PTL DEF Spec

(* What is remembered and what is under way stays in its type. *)
THEOREM TypeCorrect == Spec => []TypeOK
<1>1. IInv => TypeOK
  BY DEF IInv
<1> QED BY <1>1, IInvHolds, PTL

(* The caches hold what the device would answer, in an undisturbed session *)
(* (get_num_sids, get_fmopl_sid and get_pcb_version).                      *)
THEOREM CachesAreTrue == Spec => []CachesTrue
<1>1. IInv => CachesTrue
  BY DEF IInv, Session, Learned, CachesTrue
<1> QED BY <1>1, IInvHolds, PTL

(* set_stereo and toggle_stereo command v1.3 boards only, in an            *)
(* undisturbed session.                                                    *)
THEOREM StereoIsSafe == Spec => []StereoOnlyV13
<1>1. IInv => StereoOnlyV13
  BY DEF IInv, Session, StereoInv, StereoOnlyV13
<1> QED BY <1>1, IInvHolds, PTL

(* set_clock_rate and get_clock_rate leave the device and the driver at    *)
(* the same rate, but for the rate that was found at the start, in an      *)
(* undisturbed session.                                                    *)
THEOREM ClocksAgree == Spec => []ClockInSyncUnlessProbed
<1>1. IInv => ClockInSyncUnlessProbed
  BY DEF IInv, Session, ClockInv, LastSets, Idle, ClockInSyncUnlessProbed
<1> QED BY <1>1, IInvHolds, PTL
----------------------------------------------------------------------------
(* Counting: the questions among the commands that are on their way.       *)
LEMMA AskedFinite ==
  ASSUME NEW s \in Seq(Command)
  PROVE  IsFiniteSet(Asked(s)) /\ Cardinality(Asked(s)) \in Nat
<1>1. DOMAIN s = 1 .. Len(s) /\ Len(s) \in Nat
  BY LenProperties
<1>2. IsFiniteSet(1 .. Len(s)) /\ Asked(s) \subseteq 1 .. Len(s)
  BY <1>1, FS_Interval DEF Asked
<1>3. IsFiniteSet(Asked(s))
  BY <1>2, FS_Subset
<1> QED BY <1>3, FS_CardinalityType

LEMMA AskedEmpty == Cardinality(Asked(<< >>)) = 0
<1>1. Asked(<< >>) = {}
  BY DEF Asked
<1> QED BY <1>1, FS_EmptySet

LEMMA AskedAppended ==
  ASSUME NEW s \in Seq(Command), NEW c \in Command
  PROVE  Cardinality(Asked(Append(s, c))) = Cardinality(Asked(s)) + (IF IsQuestion(c) THEN 1 ELSE 0)
<1> DEFINE a == Append(s, c)
           n == Len(s) + 1
<1>1. /\ DOMAIN s = 1 .. Len(s) /\ DOMAIN a = 1 .. n /\ Len(s) \in Nat
      /\ \A i \in 1 .. Len(s) : a[i] = s[i]
      /\ a[n] = c
  BY Appended
<1>2. 1 .. n = (1 .. Len(s)) \cup {n} /\ n \notin 1 .. Len(s)
  BY <1>1
<1>3. CASE IsQuestion(c)
  <2>1. Asked(a) = Asked(s) \cup {n} /\ n \notin Asked(s)
    BY <1>1, <1>2, <1>3 DEF Asked
  <2> QED BY <1>3, <2>1, AskedFinite, FS_AddElement
<1>4. CASE ~IsQuestion(c)
  <2>1. Asked(a) = Asked(s)
    BY <1>1, <1>2, <1>4 DEF Asked
  <2> QED BY <1>4, <2>1, AskedFinite
<1> QED BY <1>3, <1>4

LEMMA AskedRemoved ==
  ASSUME NEW s \in Seq(Command), s # << >>
  PROVE  Cardinality(Asked(Tail(s))) = Cardinality(Asked(s)) - (IF IsQuestion(s[1]) THEN 1 ELSE 0)
<1> DEFINE t == Tail(s)
           rest == Asked(s) \ {1}
           f == [i \in Asked(t) |-> i + 1]
<1>1. /\ DOMAIN s = 1 .. Len(s) /\ DOMAIN t = 1 .. Len(s) - 1 /\ Len(s) \in Nat \ {0}
      /\ \A i \in 1 .. Len(s) - 1 : t[i] = s[i + 1]
      /\ t \in Seq(Command)
  BY Removed
<1>2. \A i \in Asked(t) : i \in Int /\ f[i] = i + 1 /\ f[i] \in rest
  BY <1>1 DEF Asked
<1>3. ASSUME NEW j \in rest PROVE j - 1 \in Asked(t) /\ f[j - 1] = j
  <2>1. j \in 2 .. Len(s) /\ IsQuestion(s[j])
    BY <1>1, <1>3 DEF Asked
  <2>2. j - 1 \in 1 .. Len(s) - 1 /\ t[j - 1] = s[j]
    BY <1>1, <2>1
  <2>3. j - 1 \in Asked(t)
    BY <1>1, <2>1, <2>2 DEF Asked
  <2> QED BY <2>1, <2>3
<1>4. f \in Bijection(Asked(t), rest)
  <2>1. f \in [Asked(t) -> rest]
    BY <1>2
  <2>2. f \in Injection(Asked(t), rest)
    BY <1>2, <2>1, Fun_IsInj
  <2>3. f \in Surjection(Asked(t), rest)
    BY <1>3, <2>1, Fun_IsSurj
  <2> QED BY <2>2, <2>3 DEF Bijection
<1>5. ExistsBijection(Asked(t), rest)
  BY <1>4, Zenon DEF ExistsBijection
<1>6. Cardinality(Asked(t)) = Cardinality(rest)
  BY <1>1, <1>5, AskedFinite, FS_Bijection
<1>7. 1 \in Asked(s) <=> IsQuestion(s[1])
  BY <1>1 DEF Asked
<1>8. IsFiniteSet(Asked(s)) /\ Cardinality(Asked(s)) \in Nat
  BY AskedFinite
<1>9. Cardinality(rest) = IF 1 \in Asked(s) THEN Cardinality(Asked(s)) - 1 ELSE Cardinality(Asked(s))
  BY <1>8, FS_RemoveElement
<1> HIDE DEF rest
<1>10. CASE IsQuestion(s[1])
  BY <1>6, <1>7, <1>8, <1>9, <1>10
<1>11. CASE ~IsQuestion(s[1])
  BY <1>6, <1>7, <1>8, <1>9, <1>11
<1> QED BY <1>10, <1>11

(* Of the replies that wait and the questions on their way to the device,  *)
(* one belongs to the question being asked; each other one was left by a   *)
(* failure.                                                                *)
Backlog ==
  /\ Outstanding <= faults + (IF query = "none" THEN 0 ELSE 1)
  /\ ~port_is_open => query = "none"
LEMMA SendCounts ==
  ASSUME TypeOK, NEW sent \in Seq(Command), NEW c \in Command, SendBehind(sent, c)
  PROVE  LET asked == Cardinality(Asked(sent))
             one == IF IsQuestion(c) THEN 1 ELSE 0
         IN  /\ Cardinality(Asked(commands')) \in Nat /\ asked \in Nat /\ faults' \in Nat
             /\ \/ faults' = faults /\ Cardinality(Asked(commands')) = asked + one
                \/ faults' = faults + 1 /\ Cardinality(Asked(commands')) \in {asked, asked + one}
<1>1. /\ Cardinality(Asked(commands')) \in Nat /\ Cardinality(Asked(sent)) \in Nat
      /\ faults' \in Nat
  BY SendType, Named, AskedFinite
<1>2. CASE commands' = Append(sent, c) /\ UNCHANGED faults
  BY <1>1, <1>2, Named, AskedAppended
<1>3. CASE faults < MaxFaults /\ faults' = faults + 1 /\ commands' \in {sent, Append(sent, c)}
  BY <1>1, <1>3, AskedAppended
<1> QED BY <1>2, <1>3 DEF SendBehind

LEMMA BacklogStep ==
  ASSUME TypeOK, TypeOK', Backlog, [Next]_vars
  PROVE  Backlog'
<1> DEFINE asked == Cardinality(Asked(commands))
<1>1. /\ asked \in Nat /\ asked' \in Nat /\ Len(replies) \in Nat /\ Len(replies') \in Nat
      /\ faults \in Nat /\ faults' \in Nat
      /\ commands \in Seq(Command) /\ replies \in Seq(Reply)
  <2>1. /\ commands' \in Seq(Command) /\ replies' \in Seq(Reply) /\ faults' \in Nat
    BY QueryAssumption DEF TypeOK, Byte, Command, Reply
  <2> QED BY <2>1, Named, AskedFinite, LenProperties
<1>2. /\ Len(replies) + asked <= faults + (IF query = "none" THEN 0 ELSE 1)
      /\ ~port_is_open => query = "none"
  BY DEF Backlog, Outstanding
<1>3. SUFFICES /\ Len(replies') + asked' <= faults' + (IF query' = "none" THEN 0 ELSE 1)
               /\ ~port_is_open' => query' = "none"
  BY DEF Backlog, Outstanding
<1>n. "none" \notin Questions /\ {"num", "fmopl", "pcb", "socket", "register", "clock"} \subseteq Questions
  BY DEF Questions
<1>q. \A q \in Questions : [name |-> q, arg |-> 0] \in Command /\ IsQuestion([name |-> q, arg |-> 0])
  BY QueryAssumption DEF Command, IsQuestion
<1> HIDE DEF asked
<1>4. CASE Open
  <2>1. Len(replies') <= Len(replies) /\ port_is_open' /\ query = "none"
    <3>1. Len(<< >>) = 0
      OBVIOUS
    <3> QED BY <1>1, <1>2, <1>4, <3>1 DEF Open
  <2>2. CASE clk_retrieved
    <3>1. asked' = 0 /\ query' = query /\ faults' = faults
      BY <1>4, <2>2, AskedEmpty DEF Open, asked
    <3> QED BY <1>1, <1>2, <2>1, <3>1
  <2>3. CASE ~clk_retrieved
    <3> DEFINE c == [name |-> "clock", arg |-> 0]
    <3>1. << >> \in Seq(Command) /\ c \in Command /\ SendBehind(<< >>, c) /\ query' # "none"
      BY <1>4, <1>n, <1>q, <2>3, EmptySeq DEF Open
    <3>2. asked' <= 1 /\ faults <= faults'
      <4> HIDE DEF c
      <4>1. /\ \/ faults' = faults \/ faults' = faults + 1
            /\ \/ asked' = Cardinality(Asked(<< >>))
               \/ asked' = Cardinality(Asked(<< >>)) + (IF IsQuestion(c) THEN 1 ELSE 0)
        BY <3>1, SendCounts DEF asked
      <4> QED BY <1>1, <4>1, AskedEmpty
    <3> QED BY <1>1, <1>2, <2>1, <3>1, <3>2
  <2> QED BY <2>2, <2>3
<1>5. CASE Close
  BY <1>1, <1>2, <1>5 DEF Close, Idle, control, asked
<1>6. CASE UNCHANGED vars
  BY <1>1, <1>2, <1>6 DEF vars, control, asked
<1>7. ASSUME NEW c \in Command, Send(c)
      PROVE  /\ faults' \in {faults, faults + 1} /\ asked' <= asked + 1
             /\ ~IsQuestion(c) => asked' = asked
             /\ commands' = commands => asked' = asked
  <2>1. SendBehind(commands, c)
    BY <1>7 DEF Send
  <2> QED BY <1>1, <2>1, SendCounts DEF asked
<1>8. ASSUME NEW i \in Clocks, SetClockRate(i)
      PROVE  /\ Len(replies') + asked' <= faults' + (IF query' = "none" THEN 0 ELSE 1)
             /\ ~port_is_open' => query' = "none"
  <2>1. [name |-> "set_clock", arg |-> i] \in Command /\ ~IsQuestion([name |-> "set_clock", arg |-> i])
    BY DEF Command, IsQuestion, Questions
  <2>2. asked' = asked /\ faults' \in {faults, faults + 1}
    BY <1>7, <1>8, <2>1 DEF SetClockRate, asked
  <2> QED BY <1>1, <1>2, <1>8, <2>2 DEF SetClockRate, Idle, control
<1>9. ASSUME NEW q \in Questions, Ask(q)
      PROVE  query' # "none" /\ asked' <= asked + 1 /\ faults <= faults'
  <2> DEFINE c == [name |-> q, arg |-> 0]
  <2>1. c \in Command /\ Send(c) /\ query' = q
    BY <1>9, <1>q DEF Ask
  <2> HIDE DEF c
  <2>2. asked' <= asked + 1 /\ faults <= faults'
    BY <1>1, <1>7, <2>1
  <2> QED BY <1>n, <2>1, <2>2
<1>10. ASSUME NEW q \in Questions, Ask(q), Idle, UNCHANGED <<port_is_open, replies>>
       PROVE  /\ Len(replies') + asked' <= faults' + (IF query' = "none" THEN 0 ELSE 1)
              /\ ~port_is_open' => query' = "none"
  BY <1>1, <1>2, <1>9, <1>10 DEF Idle
<1>11. ASSUME NEW q \in {"num", "fmopl", "pcb"}, GetInfo(q)
       PROVE  /\ Len(replies') + asked' <= faults' + (IF query' = "none" THEN 0 ELSE 1)
              /\ ~port_is_open' => query' = "none"
  BY <1>10, <1>11, <1>n DEF GetInfo
<1>12. CASE GetSocketConfig
  BY <1>10, <1>12, <1>n DEF GetSocketConfig
<1>13. ASSUME NEW version, StereoCommand(version)
       PROVE  asked' = asked /\ faults' \in {faults, faults + 1}
  <2>1. [name |-> "stereo", arg |-> 0] \in Command /\ ~IsQuestion([name |-> "stereo", arg |-> 0])
    BY QueryAssumption DEF Command, IsQuestion, Questions
  <2> QED BY <1>7, <1>13, <2>1 DEF StereoCommand, asked
<1>14. CASE ChangeStereo
  <2>1. CASE Unknown("pcb")
    BY <1>10, <1>14, <1>n, <2>1 DEF ChangeStereo
  <2>2. CASE ~Unknown("pcb")
    BY <1>1, <1>2, <1>13, <1>14, <2>2 DEF ChangeStereo
  <2> QED BY <2>1, <2>2
<1>15. CASE SingleRead
  <2> DEFINE c == [name |-> "register", arg |-> 0]
  <2>1. c \in Command /\ IsQuestion(c) /\ Send(c)
    BY <1>15, <1>n, <1>q DEF SingleRead
  <2>2. query = "none" /\ port_is_open' /\ replies' = replies
    BY <1>15 DEF SingleRead, Idle
  <2>3. asked' <= asked + 1 /\ faults <= faults' /\ (faults' # faults => faults' = faults + 1)
    BY <1>1, <1>7, <2>1
  <2>4. faults' # faults \/ query' # "none"
    BY <1>15 DEF SingleRead
  <2> QED BY <1>1, <1>2, <2>2, <2>3, <2>4
<1>16. CASE RecvReply
  <2>1. Len(replies') = Len(replies) - 1 /\ query # "none" /\ query' = "none"
    BY <1>1, <1>16, Removed DEF RecvReply, LearnReply, LearnNothing, Learn
  <2>2. asked' = asked /\ faults' \in {faults, faults + 1}
    BY <1>13, <1>16 DEF RecvReply, LearnReply, LearnNothing, asked
  <2> QED BY <1>1, <1>2, <2>1, <2>2
<1>17. CASE RecvTimeout \/ RecvHalted
  <2>1. /\ faults' = faults + 1 \/ (faults' = faults /\ NothingComing)
        /\ query # "none" /\ UNCHANGED <<port_is_open, replies>> /\ LearnNothing
    BY <1>17 DEF RecvTimeout, RecvHalted
  <2>4. asked' = asked /\ query' = "none"
    BY <2>1 DEF LearnNothing, Learn, asked
  <2>2. CASE NothingComing
    <3>1. Asked(commands) = {} /\ Len(replies) = 0
      BY <2>2 DEF NothingComing, Asked
    <3>2. asked = 0
      BY <3>1, FS_EmptySet DEF asked
    <3>3. Len(replies') + asked' = 0 /\ 0 <= faults'
      BY <1>1, <2>1, <2>4, <3>1, <3>2
    <3>4. query' = "none"
      BY <2>4
    <3> QED BY <1>1, <3>3, <3>4
  <2>3. CASE faults' = faults + 1
    BY <1>1, <1>2, <2>1, <2>3, <2>4
  <2> QED BY <2>1, <2>2, <2>3
<1>18. CASE DeviceStep
  <2> DEFINE c == commands[1]
  <2>1. /\ Head(commands) = c /\ UNCHANGED <<port_is_open, query, faults>>
        /\ asked' = asked - (IF IsQuestion(c) THEN 1 ELSE 0)
    <3>1. commands # << >> /\ commands' = Tail(commands)
      BY <1>18 DEF DeviceStep
    <3>2. Head(commands) = c
      BY <1>1, <3>1, Removed
    <3>3. asked' = asked - (IF IsQuestion(c) THEN 1 ELSE 0)
      BY <1>1, <3>1, AskedRemoved DEF asked
    <3> QED BY <1>18, <3>2, <3>3 DEF DeviceStep, control
  <2>2. Len(replies') = Len(replies) + (IF IsQuestion(c) THEN 1 ELSE 0)
    <3>1. CASE IsQuestion(c)
      <4>1. PICK len \in ReplyLens(c.name) :
               replies' = Append(replies, [to |-> c.name, len |-> len, byte |-> Answer(c.name)])
        BY <1>18, <2>1, <3>1 DEF DeviceStep
      <4>2. [to |-> c.name, len |-> len, byte |-> Answer(c.name)] \in Reply
        BY <3>1, AnswerType, LenFits DEF IsQuestion, Reply
      <4>3. Len(replies') = Len(replies) + 1
        BY <1>1, <4>1, <4>2, AppendProperties
      <4> QED BY <3>1, <4>3
    <3>2. CASE ~IsQuestion(c)
      BY <1>1, <1>18, <2>1, <3>2 DEF DeviceStep
    <3> QED BY <3>1, <3>2
  <2>3. Len(replies') + asked' = Len(replies) + asked
    BY <1>1, <2>1, <2>2
  <2> QED BY <1>2, <2>1, <2>3
<1>19. CASE ClearInHalt
  BY <1>1, <1>2, <1>19 DEF ClearInHalt, control, asked
<1> QED BY <1>4, <1>5, <1>6, <1>8, <1>11, <1>12, <1>14, <1>15, <1>16, <1>17, <1>18, <1>19
        DEF Next, LeftClosed

(* recv takes the oldest reply, and every question takes one: each reply   *)
(* that nobody waits for any more is the trace of another failed send or   *)
(* recv, whatever the calls and the lengths of the replies, in every       *)
(* session.                                                                *)
THEOREM BacklogIsBounded == Spec => []BacklogBounded
<1>1. Init => Backlog
  <2>1. Len(<< >>) = 0
    OBVIOUS
  <2> QED BY <2>1, AskedEmpty DEF Init, Backlog, Outstanding
<1>2. TypeOK /\ TypeOK' /\ Backlog /\ [Next]_vars => Backlog'
  BY BacklogStep
<1>3. Backlog => BacklogBounded
  BY DEF Backlog, BacklogBounded
<1> QED BY <1>1, <1>2, <1>3, TypeCorrect, PTL DEF Spec
=============================================================================
