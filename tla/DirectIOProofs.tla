--------------------------- MODULE DirectIOProofs ---------------------------
(***************************************************************************)
(* Proofs about DirectIO, for any number of threads, calls and faults.     *)
(*                                                                         *)
(* TypeOK is not inductive: that a call which awaits a reply is one that   *)
(* has a reply must be known to type the command it sends (CallInv).  That *)
(* a reply fits the buffer of the call it answers (LengthInv) is what      *)
(* keeps the endpoint open while each call gets the answer to its own      *)
(* question.                                                               *)
(***************************************************************************)
EXTENDS DirectIO, SequenceTheorems, FiniteSetTheorems, FunctionTheorems, TLAPS

CallInv ==
  \A t \in Threads :
    /\ pc[t] = "send" => call[t] \in OneWay \cup Questions
    /\ pc[t] = "owed" => call[t] = "raw"
    /\ pc[t] = "recv" => call[t] \in Questions \cup {"drain"}

LengthInv == \A i \in DOMAIN replies : replies[i].len <= Capacity(replies[i].call)

IInv == TypeOK /\ CallInv /\ LengthInv

----------------------------------------------------------------------------
LEMMA InitIInv == Init => IInv
<1>1. << >> \in Seq(Message) /\ << >> \in Seq(Reply)
  BY EmptySeq
<1>2. Init => commands \in Seq(Message) /\ replies \in Seq(Reply) /\ DOMAIN replies = {}
  BY <1>1 DEF Init
<1>3. Init => calls \in 0 .. MaxCalls /\ faults \in 0 .. MaxFaults
  BY DirectIOAssumption DEF Init
<1> QED BY <1>2, <1>3 DEF Init, IInv, TypeOK, CallInv, LengthInv

LEMMA Removed ==
  ASSUME NEW S, NEW s \in Seq(S), s # << >>
  PROVE  /\ Tail(s) \in Seq(S) /\ Len(Tail(s)) = Len(s) - 1
         /\ Head(s) = s[1] /\ s[1] \in S
         /\ DOMAIN s = 1 .. Len(s) /\ DOMAIN Tail(s) = 1 .. Len(s) - 1
         /\ Len(s) \in Nat \ {0}
         /\ \A i \in 1 .. Len(s) - 1 : Tail(s)[i] = s[i + 1]
<1>1. Tail(s) \in Seq(S) /\ Len(Tail(s)) = Len(s) - 1
  BY HeadTailProperties
<1>2. Len(s) \in Nat \ {0}
  BY EmptySeq
<1> QED BY <1>1, <1>2, HeadTailProperties, LenProperties

LEMMA Appended ==
  ASSUME NEW S, NEW s \in Seq(S), NEW e \in S
  PROVE  LET a == Append(s, e)
         IN  /\ a \in Seq(S) /\ Len(a) = Len(s) + 1
             /\ DOMAIN s = 1 .. Len(s) /\ DOMAIN a = 1 .. Len(s) + 1 /\ Len(s) \in Nat
             /\ \A i \in 1 .. Len(s) : a[i] = s[i]
             /\ a[Len(s) + 1] = e
BY AppendProperties, LenProperties

(* What a call that returns leaves alone or keeps in its type. *)
LEMMA ReturnKeeps ==
  ASSUME IInv, NEW t \in Threads, NEW value \in {"own", "other", "failed"}, Return(t, value)
  PROVE  /\ pc' \in [Threads -> {"idle", "send", "owed", "recv", "clear"}]
         /\ call' \in [Threads -> CallNames \cup {"none"}]
         /\ result' \in [Threads -> {"none", "own", "other", "zero", "error"}]
         /\ lock' = Nobody /\ calls' \in 0 .. MaxCalls
         /\ CallInv'
BY DEF IInv, TypeOK, CallInv, Return

(* A recv that took a reply returns. *)
LEMMA ReplyReturns ==
  ASSUME NEW t \in Threads, RecvReply(t)
  PROVE  (\E value \in {"own", "other", "failed"} : Return(t, value)) /\ halted' \in BOOLEAN
<1>1. PICK size \in Buffers(call[t]) :
         /\ halted' = ~(Head(replies).len <= size)
         /\ Return(t, IF ~(Head(replies).len <= size) THEN "failed"
                      ELSE IF Head(replies).by = t /\ Head(replies).call = call[t] THEN "own" ELSE "other")
  BY DEF RecvReply
<1> QED BY <1>1

LEMMA IssueKeeps ==
  ASSUME IInv, NEW t \in Threads, pc[t] = "send", Issue(t)
  PROVE  /\ [by |-> t, call |-> call[t]] \in Message
         /\ commands' = Append(commands, [by |-> t, call |-> call[t]])
         /\ commands' \in Seq(Message)
<1>1. [by |-> t, call |-> call[t]] \in Message
  BY DEF IInv, CallInv, Message, CallNames
<1> QED BY <1>1, AppendProperties DEF Issue, IInv, TypeOK

LEMMA StepKeeps ==
  ASSUME IInv, NEW t \in Threads, Step(t)
  PROVE  IInv'
<1> USE DirectIOAssumption
<1>1. CASE Send(t)
  <2>1. commands' \in Seq(Message)
    BY <1>1, IssueKeeps DEF Send
  <2>2. pc' \in [Threads -> {"idle", "send", "owed", "recv", "clear"}] /\ lock' = Nobody
    BY <1>1 DEF Send, GoOn, IInv, TypeOK
  <2>3. CallInv'
    BY <1>1 DEF Send, GoOn, IInv, TypeOK, CallInv
  <2> QED BY <1>1, <2>1, <2>2, <2>3 DEF Send, IInv, TypeOK, LengthInv
<1>2. CASE SendFails(t)
  <2>1. commands' \in Seq(Message)
    BY <1>2, IssueKeeps DEF SendFails, IInv, TypeOK
  <2>2. /\ pc' \in [Threads -> {"idle", "send", "owed", "recv", "clear"}] /\ lock' = Nobody
        /\ result' \in [Threads -> {"none", "own", "other", "zero", "error"}]
        /\ faults' \in 0 .. MaxFaults
    BY <1>2 DEF SendFails, IInv, TypeOK
  <2>3. CallInv'
    BY <1>2 DEF SendFails, IInv, TypeOK, CallInv, Questions
  <2> QED BY <1>2, <2>1, <2>2, <2>3 DEF SendFails, IInv, TypeOK, LengthInv
<1>3. CASE RecvRaw(t)
  BY <1>3 DEF RecvRaw, IInv, TypeOK, CallInv, LengthInv, wires, Questions
<1>4. CASE LockToRecv(t)
  BY <1>4 DEF LockToRecv, IInv, TypeOK, CallInv, LengthInv, wires, threads
<1>5. CASE RecvReply(t)
  <2>1. replies' \in Seq(Reply)
    BY <1>5, HeadTailProperties DEF RecvReply, IInv, TypeOK
  <2>2. (\E value \in {"own", "other", "failed"} : Return(t, value)) /\ halted' \in BOOLEAN
    BY <1>5, ReplyReturns
  <2>3. PICK value \in {"own", "other", "failed"} : Return(t, value)
    BY <2>2
  <2>4. LengthInv'
    <3>1. replies' = Tail(replies) /\ replies # << >> /\ replies \in Seq(Reply)
      BY <1>5 DEF RecvReply, IInv, TypeOK
    <3> QED BY <3>1, Removed DEF IInv, LengthInv, Capacity
  <2> QED BY <1>5, <2>1, <2>2, <2>3, <2>4, ReturnKeeps DEF RecvReply, IInv, TypeOK
<1>6. CASE RecvHalted(t)
  BY <1>6, ReturnKeeps DEF RecvHalted, IInv, TypeOK, LengthInv, wires
<1>7. CASE RecvTimeout(t)
  <2>1. faults' \in 0 .. MaxFaults
    BY <1>7 DEF RecvTimeout, IInv, TypeOK
  <2> QED BY <1>7, <2>1, ReturnKeeps DEF RecvTimeout, IInv, TypeOK, LengthInv, wires
<1>8. CASE ClearInHalt(t)
  BY <1>8 DEF ClearInHalt, IInv, TypeOK, CallInv, LengthInv, wires
<1>9. CASE SendShort(t)
  <2>1. /\ pc' \in [Threads -> {"idle", "send", "owed", "recv", "clear"}] /\ lock' = Nobody
        /\ faults' \in 0 .. MaxFaults
    BY <1>9 DEF SendShort, GoOn, IInv, TypeOK
  <2>2. CallInv'
    BY <1>9 DEF SendShort, GoOn, IInv, TypeOK, CallInv
  <2> QED BY <1>9, <2>1, <2>2 DEF SendShort, IInv, TypeOK, LengthInv, wires
<1> QED BY <1>1, <1>2, <1>3, <1>4, <1>5, <1>6, <1>7, <1>8, <1>9 DEF Step

LEMMA DeviceKeeps ==
  ASSUME IInv, DeviceStep
  PROVE  IInv'
<1> DEFINE c == Head(commands)
<1>1. commands' \in Seq(Message) /\ c \in Message
  BY HeadTailProperties DEF DeviceStep, IInv, TypeOK
<1>2. replies' \in Seq(Reply) /\ LengthInv'
  <2>1. CASE c.call \in Questions
    <3>1. PICK len \in ReplyLens(c.call) :
            replies' = Append(replies, [by |-> c.by, call |-> c.call, len |-> len])
      BY <2>1 DEF DeviceStep
    <3>2. len \in Nat /\ len <= Capacity(c.call)
      BY DirectIOAssumption DEF ReplyLens, Capacity
    <3>3. [by |-> c.by, call |-> c.call, len |-> len] \in Reply /\ replies \in Seq(Reply)
      BY <1>1, <2>1, <3>2 DEF Message, Reply, IInv, TypeOK
    <3>4. replies' \in Seq(Reply)
      BY <3>1, <3>3, AppendProperties
    <3>5. LengthInv'
      BY <3>1, <3>2, <3>3, Appended DEF IInv, LengthInv, Capacity
    <3> QED BY <3>4, <3>5
  <2>2. CASE c.call \notin Questions
    BY <2>2 DEF DeviceStep, IInv, TypeOK, LengthInv
  <2> QED BY <2>1, <2>2
<1> QED BY <1>1, <1>2 DEF DeviceStep, IInv, TypeOK, CallInv, threads

LEMMA NextKeeps == IInv /\ [Next]_vars => IInv'
<1> SUFFICES ASSUME IInv, [Next]_vars PROVE IInv'
  OBVIOUS
<1>1. ASSUME NEW t \in Threads, NEW c \in Calls, Begin(t, c) PROVE IInv'
  <2>1. c \in CallNames /\ calls' \in 0 .. MaxCalls
    BY <1>1, DirectIOAssumption DEF Begin, IInv, TypeOK
  <2>2. c \notin {"drain", "clear"} => c \in OneWay \cup Questions
    BY <2>1 DEF CallNames
  <2>3. CallInv'
    BY <1>1, <2>1, <2>2 DEF Begin, IInv, TypeOK, CallInv
  <2> QED BY <1>1, <2>1, <2>3 DEF Begin, IInv, TypeOK, LengthInv, wires
<1>2. CASE UNCHANGED vars
  BY <1>2 DEF IInv, TypeOK, CallInv, LengthInv, vars, threads, wires
<1> QED BY <1>1, <1>2, StepKeeps, DeviceKeeps DEF Next, Finished

LEMMA Inductive == Spec => []IInv
BY InitIInv, NextKeeps, PTL DEF Spec

(* No call of single_read, recv_raw and the others returns with the        *)
(* transport still locked, and every thread stays in a known place.        *)
THEOREM TypeCorrect == Spec => []TypeOK
<1>1. IInv => TypeOK
  BY DEF IInv
<1> QED BY <1>1, Inductive, PTL

----------------------------------------------------------------------------
(* InStep without counting: nobody waits and nothing is on the wire, or    *)
(* one thread waits, for the one question or the one reply there is.       *)
Waits(u) == pc[u] \in {"owed", "recv"}

Question(i) == commands[i].call \in Questions

NoQuestion == \A i \in DOMAIN commands : ~Question(i)

Still == (\A u \in Threads : ~Waits(u)) /\ NoQuestion /\ replies = << >>

OneQuestion(t) ==
  /\ replies = << >>
  /\ \E i \in DOMAIN commands :
       /\ commands[i] = [by |-> t, call |-> call[t]] /\ Question(i)
       /\ \A j \in DOMAIN commands : Question(j) => j = i

OneReply(t) ==
  /\ NoQuestion
  /\ Len(replies) = 1 /\ replies[1].by = t /\ replies[1].call = call[t]

Exchange(t) ==
  /\ \A u \in Threads : Waits(u) <=> u = t
  /\ IF call[t] = "drain" THEN NoQuestion /\ replies = << >>
                          ELSE OneQuestion(t) \/ OneReply(t)

Balanced == ~halted /\ (Still \/ \E t \in Threads : Exchange(t))

LEMMA AskedFinite ==
  ASSUME TypeOK
  PROVE  /\ IsFiniteSet(Asked) /\ Cardinality(Asked) \in Nat
         /\ Len(replies) \in Nat /\ DOMAIN replies = 1 .. Len(replies)
         /\ Len(replies) = 0 <=> replies = << >>
         /\ Cardinality(Asked) = 0 <=> NoQuestion
         /\ Cardinality(Asked) = 1 <=> \E i : Asked = {i}
<1>1. DOMAIN commands = 1 .. Len(commands) /\ Len(commands) \in Nat
  BY LenProperties DEF TypeOK
<1>2. IsFiniteSet(DOMAIN commands)
  BY <1>1, FS_Interval
<1>3. Asked \in SUBSET DOMAIN commands
  BY DEF Asked
<1>4. IsFiniteSet(Asked)
  BY <1>2, <1>3, FS_Subset
<1>5. Cardinality(Asked) \in Nat
  BY <1>4, FS_CardinalityType
<1>6. Asked = {} <=> NoQuestion
  BY DEF Asked, NoQuestion, Question
<1>7. Len(replies) \in Nat /\ DOMAIN replies = 1 .. Len(replies) /\ (Len(replies) = 0 <=> replies = << >>)
  BY LenProperties, EmptySeq DEF TypeOK
<1> QED BY <1>4, <1>5, <1>6, <1>7, FS_EmptySet, FS_Singleton

LEMMA Plain == TypeOK => (InStep <=> Balanced)
<1> SUFFICES ASSUME TypeOK PROVE InStep <=> Balanced
  OBVIOUS
<1>1. Awaiting = {} <=> \A u \in Threads : ~Waits(u)
  BY DEF Awaiting, Waits
<1>2. \A t \in Threads : Awaiting = {t} <=> \A u \in Threads : Waits(u) <=> u = t
  BY DEF Awaiting, Waits
<1>3. Outstanding = 0 <=> NoQuestion /\ replies = << >>
  BY AskedFinite DEF Outstanding
<1>4. Outstanding = 1 <=> \/ replies = << >> /\ \E i : Asked = {i}
                          \/ NoQuestion /\ Len(replies) = 1
  <2>1. ASSUME NEW m \in Nat, NEW n \in Nat
        PROVE  m + n = 1 <=> (n = 0 /\ m = 1) \/ (m = 0 /\ n = 1)
    OBVIOUS
  <2>2. Outstanding = 1 <=> \/ Len(replies) = 0 /\ Cardinality(Asked) = 1
                            \/ Cardinality(Asked) = 0 /\ Len(replies) = 1
    BY <2>1, AskedFinite DEF Outstanding
  <2> QED BY <2>2, AskedFinite
<1>5. ASSUME NEW t \in Threads
      PROVE  (/\ Outstanding = 1
              /\ \A i \in Asked : commands[i] = [by |-> t, call |-> call[t]]
              /\ \A i \in DOMAIN replies : replies[i].by = t /\ replies[i].call = call[t])
             <=> OneQuestion(t) \/ OneReply(t)
  <2>1. DOMAIN replies = 1 .. Len(replies) /\ (replies = << >> <=> Len(replies) = 0)
    BY AskedFinite
  <2>2. (replies = << >> /\ (\E i : Asked = {i})
           /\ \A i \in Asked : commands[i] = [by |-> t, call |-> call[t]])
        <=> OneQuestion(t)
    <3>1. \A i : i \in Asked <=> i \in DOMAIN commands /\ Question(i)
      BY DEF Asked, Question
    <3>2. ASSUME replies = << >>, NEW i, Asked = {i},
                 \A j \in Asked : commands[j] = [by |-> t, call |-> call[t]]
          PROVE  OneQuestion(t)
      BY <3>1, <3>2 DEF OneQuestion
    <3>3. ASSUME OneQuestion(t)
          PROVE  /\ replies = << >> /\ \E i : Asked = {i}
                 /\ \A i \in Asked : commands[i] = [by |-> t, call |-> call[t]]
      <4>1. PICK i \in DOMAIN commands :
               /\ commands[i] = [by |-> t, call |-> call[t]] /\ Question(i)
               /\ \A j \in DOMAIN commands : Question(j) => j = i
        BY <3>3 DEF OneQuestion
      <4>2. Asked = {i}
        BY <3>1, <4>1
      <4> QED BY <3>3, <4>1, <4>2 DEF OneQuestion
    <3> QED BY <3>2, <3>3
  <2>3. NoQuestion <=> Asked = {}
    BY DEF NoQuestion, Asked, Question
  <2>4. (NoQuestion /\ Len(replies) = 1
           /\ \A i \in DOMAIN replies : replies[i].by = t /\ replies[i].call = call[t])
        <=> OneReply(t)
    BY <2>1 DEF OneReply
  <2>5. replies = << >> => \A i \in DOMAIN replies : FALSE
    BY <2>1
  <2>6. NoQuestion => \A i \in Asked : FALSE
    BY <2>3
  <2> DEFINE Q == \A i \in Asked : commands[i] = [by |-> t, call |-> call[t]]
             R == \A i \in DOMAIN replies : replies[i].by = t /\ replies[i].call = call[t]
             S == \E i : Asked = {i}
  <2>7. (replies = << >> => R) /\ (NoQuestion => Q)
    BY <2>5, <2>6
  <2>8. (replies = << >> /\ S /\ Q <=> OneQuestion(t)) /\ (NoQuestion /\ Len(replies) = 1 /\ R <=> OneReply(t))
    BY <2>2, <2>4
  <2>9. Outstanding = 1 <=> (replies = << >> /\ S) \/ (NoQuestion /\ Len(replies) = 1)
    BY <1>4
  <2> HIDE DEF Q, R, S
  <2>10. Outstanding = 1 /\ Q /\ R <=> OneQuestion(t) \/ OneReply(t)
    BY <2>7, <2>8, <2>9
  <2> QED BY <2>10 DEF Q, R
<1>6. ASSUME NEW t \in Threads, call[t] = "drain"
      PROVE  (/\ Outstanding = 0
              /\ \A i \in Asked : commands[i] = [by |-> t, call |-> call[t]]
              /\ \A i \in DOMAIN replies : replies[i].by = t /\ replies[i].call = call[t])
             <=> NoQuestion /\ replies = << >>
  BY <1>3, AskedFinite DEF NoQuestion, Asked, Question
<1> QED BY <1>1, <1>2, <1>3, <1>5, <1>6 DEF InStep, Balanced, Still, Exchange


(* What no more than one waiting thread says of the one that waits.        *)
Alone == \A t, u \in Awaiting : t = u

(* A thread that waits takes part in the exchange there is. *)
LEMMA InExchange ==
  ASSUME Balanced, NEW t \in Threads, Waits(t)
  PROVE  Exchange(t)
BY DEF Balanced, Still, Exchange, Waits

(* A thread that begins to wait is the only one: nothing was on the wire.  *)
LEMMA FirstToWait ==
  ASSUME Balanced, Alone', NEW t \in Threads, ~Waits(t), Waits(t)',
         \A u \in Threads \ {t} : Waits(u)' <=> Waits(u)
  PROVE  Still /\ \A u \in Threads : Waits(u)' <=> u = t
<1>1. \A u \in Threads : Waits(u) => Exchange(u)
  BY InExchange
<1>2. \A u \in Threads : Waits(u)' => u = t
  BY DEF Alone, Awaiting, Waits
<1>3. \A u \in Threads : ~Waits(u)
  BY <1>2
<1> QED BY <1>2, <1>3 DEF Balanced, Exchange

(* Steps that leave the wire and those who wait as they were. *)
LEMMA NothingMoves ==
  ASSUME TypeOK, Balanced, UNCHANGED <<wires, halted>>,
         \A u \in Threads : /\ Waits(u)' <=> Waits(u)
                            /\ Waits(u) => call'[u] = call[u]
  PROVE  Balanced'
<1>1. CASE Still
  BY <1>1 DEF Balanced, Still, NoQuestion, Question, wires
<1>2. ASSUME NEW t \in Threads, Exchange(t) PROVE Exchange(t)'
  <2>1. call'[t] = call[t]
    BY <1>2 DEF Exchange
  <2>2. OneQuestion(t)' <=> OneQuestion(t)
    BY <2>1 DEF OneQuestion, Question, wires
  <2>3. OneReply(t)' <=> OneReply(t)
    BY <2>1 DEF OneReply, NoQuestion, Question, wires
  <2>4. NoQuestion' <=> NoQuestion
    BY DEF NoQuestion, Question, wires
  <2> QED BY <1>2, <2>1, <2>2, <2>3, <2>4 DEF Exchange, wires
<1> QED BY <1>1, <1>2 DEF Balanced

(* The exchange of t is over. *)
LEMMA Ended ==
  ASSUME IInv, NEW t \in Threads, Exchange(t), NEW value, Return(t, value),
         ~halted', NoQuestion', replies' = << >>
  PROVE  Balanced'
<1>1. \A u \in Threads : ~Waits(u)'
  BY DEF Exchange, Waits, Return, IInv, TypeOK
<1> QED BY <1>1 DEF Balanced, Still


OwnAnswers == \A t \in Threads : result'[t] # result[t] => result'[t] = "own" \/ call[t] = "drain"

LEMMA ReplyStays ==
  ASSUME IInv, Balanced, NEW t \in Threads, RecvReply(t), ~RawOverflows
  PROVE  Balanced' /\ OwnAnswers
<1>1. Exchange(t)
  <2>1. Waits(t)
    BY DirectIOAssumption DEF RecvReply, IInv, TypeOK, Waits
  <2> QED BY <2>1, InExchange
<1>2. OneReply(t)
  BY <1>1 DEF Exchange, OneQuestion, RecvReply
<1>3. replies # << >> /\ replies \in Seq(Reply) /\ Head(replies) = replies[1] /\ Len(replies) = 1
  BY <1>2, Removed DEF RecvReply, IInv, TypeOK, OneReply
<1>4. Head(replies).len <= Capacity(call[t])
  BY <1>2, <1>3, LenProperties DEF OneReply, IInv, LengthInv
<1>5. ~halted' /\ Return(t, "own") /\ replies' = Tail(replies) /\ commands' = commands
  <2>1. call[t] # "drain"
    BY <1>1, <1>3 DEF Exchange
  <2>2. lock = t /\ ~halted /\ replies' = Tail(replies) /\ commands' = commands
    BY DEF RecvReply
  <2>3. PICK size \in Buffers(call[t]) :
           /\ halted' = ~(Head(replies).len <= size)
           /\ Return(t, IF ~(Head(replies).len <= size) THEN "failed"
                        ELSE IF Head(replies).by = t /\ Head(replies).call = call[t] THEN "own" ELSE "other")
    BY DEF RecvReply
  <2>4. ~halted'
    <3>1. CASE call[t] = "raw"
      BY <2>2, <3>1 DEF RawOverflows
    <3>2. CASE call[t] # "raw"
      BY <1>4, <2>1, <2>3, <3>2 DEF Buffers
    <3> QED BY <3>1, <3>2
  <2> QED BY <1>2, <1>3, <2>2, <2>3, <2>4 DEF OneReply
<1>6. replies' = << >>
  <2>1. Tail(replies) \in Seq(Reply) /\ Len(Tail(replies)) = 0
    BY <1>3, Removed
  <2> QED BY <1>5, <2>1, EmptySeq
<1>7. NoQuestion'
  BY <1>2, <1>5 DEF OneReply, NoQuestion, Question
<1>8. OwnAnswers
  BY <1>5 DEF Return, OwnAnswers, IInv, TypeOK
<1> QED BY <1>1, <1>5, <1>6, <1>7, <1>8, Ended

LEMMA TimeoutStays ==
  ASSUME IInv, Balanced, NEW t \in Threads, RecvTimeout(t), faults' = faults
  PROVE  Balanced' /\ OwnAnswers
<1>1. Exchange(t)
  <2>1. Waits(t)
    BY DirectIOAssumption DEF RecvTimeout, IInv, TypeOK, Waits
  <2> QED BY <2>1, InExchange
<1>2. Asked = {} /\ replies = << >>
  BY DEF RecvTimeout, IInv, TypeOK
<1>3. call[t] = "drain"
  <2>1. ~OneQuestion(t)
    BY <1>2 DEF OneQuestion, Asked, Question
  <2>2. ~OneReply(t)
    BY <1>2, EmptySeq DEF OneReply
  <2> QED BY <1>1, <2>1, <2>2 DEF Exchange
<1>4. Return(t, "failed") /\ UNCHANGED <<halted, wires>>
  BY DEF RecvTimeout
<1>5. NoQuestion' /\ replies' = << >> /\ ~halted'
  BY <1>2, <1>4 DEF NoQuestion, Question, Asked, wires, Balanced
<1>6. OwnAnswers
  BY <1>3, <1>4 DEF Return, OwnAnswers, IInv, TypeOK
<1> QED BY <1>1, <1>4, <1>5, <1>6, Ended

LEMMA SendStays ==
  ASSUME IInv, Balanced, Alone', NEW t \in Threads, Send(t)
  PROVE  Balanced'
<1>0. PICK n \in Nat : n = Len(commands)
  BY LenProperties DEF IInv, TypeOK
<1> DEFINE m == [by |-> t, call |-> call[t]]
<1>1. m \in Message /\ commands' = Append(commands, m)
  BY IssueKeeps DEF Send
<1>2. /\ commands' = Append(commands, m)
      /\ DOMAIN commands = 1 .. n /\ DOMAIN commands' = 1 .. n + 1
      /\ (\A i \in 1 .. n : commands'[i] = commands[i]) /\ commands'[n + 1] = m
  BY <1>1, <1>0, Appended DEF IInv, TypeOK
<1>3. /\ \A i \in 1 .. n : Question(i)' <=> Question(i)
      /\ Question(n + 1)' <=> call[t] \in Questions
  BY <1>2 DEF Question
<1>4. /\ UNCHANGED <<call, replies, halted>> /\ ~Waits(t)
      /\ \A u \in Threads \ {t} : Waits(u)' <=> Waits(u)
  BY DEF Send, GoOn, Waits, IInv, TypeOK
<1>5. CASE call[t] \in OneWay
  <2>1. ~Waits(t)' /\ call[t] \notin Questions
    BY <1>5 DEF Send, GoOn, Waits, IInv, TypeOK, OneWay, Questions
  <2>2. NoQuestion' <=> NoQuestion
    BY <1>2, <1>3, <2>1 DEF NoQuestion
  <2>3. CASE Still
    BY <1>4, <2>1, <2>2, <2>3 DEF Balanced, Still
  <2>4. ASSUME NEW u \in Threads, Exchange(u) PROVE Exchange(u)'
    <3>1. OneQuestion(u) => OneQuestion(u)'
      <4>1. SUFFICES ASSUME OneQuestion(u) PROVE OneQuestion(u)'
        OBVIOUS
      <4>2. PICK i \in 1 .. n :
               /\ commands[i] = [by |-> u, call |-> call[u]] /\ Question(i)
               /\ \A j \in 1 .. n : Question(j) => j = i
        BY <1>2, <4>1 DEF OneQuestion
      <4>3. i \in 1 .. n + 1 /\ \A j \in 1 .. n + 1 : Question(j)' => j = i
        BY <1>2, <1>3, <2>1, <4>2
      <4> QED BY <1>2, <1>3, <1>4, <4>1, <4>2, <4>3 DEF OneQuestion
    <3>2. OneReply(u) => OneReply(u)'
      BY <1>4, <2>2 DEF OneReply
    <3> QED BY <1>4, <2>1, <2>2, <2>4, <3>1, <3>2 DEF Exchange
  <2> QED BY <1>4, <2>3, <2>4 DEF Balanced
<1>6. CASE call[t] \notin OneWay
  <2>1. Waits(t)' /\ call[t] \in Questions /\ call[t] # "drain"
    BY <1>6 DEF Send, GoOn, Waits, IInv, TypeOK, CallInv, Questions
  <2>2. Still /\ \A u \in Threads : Waits(u)' <=> u = t
    BY <1>4, <2>1, FirstToWait
  <2>3. OneQuestion(t)'
    BY <1>2, <1>3, <1>4, <2>1, <2>2 DEF OneQuestion, Still, NoQuestion
  <2> QED BY <1>4, <2>1, <2>2, <2>3 DEF Exchange, Balanced
<1> QED BY <1>5, <1>6


LEMMA BeginStays ==
  ASSUME IInv, Balanced, Alone', NEW t \in Threads, NEW c \in Calls, Begin(t, c)
  PROVE  Balanced'
<1>1. /\ ~Waits(t) /\ UNCHANGED <<wires, halted>>
      /\ \A u \in Threads \ {t} : (Waits(u)' <=> Waits(u)) /\ call'[u] = call[u]
  BY DEF Begin, Waits, IInv, TypeOK
<1>2. CASE c = "drain"
  <2>1. Waits(t)' /\ call'[t] = "drain"
    BY <1>2 DEF Begin, Waits, IInv, TypeOK
  <2>2. Still /\ \A u \in Threads : Waits(u)' <=> u = t
    BY <1>1, <2>1, FirstToWait
  <2>3. NoQuestion' /\ replies' = << >> /\ ~halted'
    BY <1>1, <2>2 DEF Still, NoQuestion, Question, wires, Balanced
  <2> QED BY <2>1, <2>2, <2>3 DEF Balanced, Exchange
<1>3. CASE c # "drain"
  <2>1. ~Waits(t)'
    BY <1>3 DEF Begin, Waits, IInv, TypeOK
  <2> QED BY <1>1, <2>1, NothingMoves DEF IInv
<1> QED BY <1>2, <1>3

LEMMA DeviceStays ==
  ASSUME IInv, Balanced, DeviceStep
  PROVE  Balanced'
<1>0. PICK n \in Nat : n = Len(commands)
  BY LenProperties DEF IInv, TypeOK
<1> DEFINE c == Head(commands)
<1>1. /\ n # 0 /\ commands' = Tail(commands) /\ c = commands[1] /\ c \in Message
      /\ DOMAIN commands = 1 .. n /\ DOMAIN commands' = 1 .. n - 1
      /\ \A i \in 1 .. n - 1 : commands'[i] = commands[i + 1]
  BY <1>0, Removed DEF DeviceStep, IInv, TypeOK
<1>2. /\ UNCHANGED <<call, halted>> /\ ~halted
      /\ \A u \in Threads : Waits(u)' <=> Waits(u)
  BY DEF DeviceStep, threads, Waits, Balanced
<1>3. \A i \in 1 .. n - 1 : Question(i)' <=> Question(i + 1)
  BY <1>1 DEF Question
<1>4. NoQuestion => NoQuestion'
  BY <1>1, <1>3 DEF NoQuestion
<1>5. CASE c.call \notin Questions
  <2>1. replies' = replies /\ ~Question(1)
    BY <1>1, <1>5 DEF DeviceStep, Question
  <2>2. Still => Still'
    BY <1>2, <1>4, <2>1 DEF Still
  <2>3. ASSUME NEW u \in Threads, Exchange(u) PROVE Exchange(u)'
    <3>1. ASSUME OneQuestion(u) PROVE OneQuestion(u)'
      <4>1. PICK i \in 1 .. n :
               /\ commands[i] = [by |-> u, call |-> call[u]] /\ Question(i)
               /\ \A j \in 1 .. n : Question(j) => j = i
        BY <1>1, <3>1 DEF OneQuestion
      <4>2. PICK k \in 1 .. n - 1 : i = k + 1
        <5>1. i # 1
          BY <2>1, <4>1
        <5> QED BY <5>1
      <4>3. /\ commands'[k] = [by |-> u, call |-> call[u]] /\ Question(k)'
            /\ \A j \in 1 .. n - 1 : Question(j)' => j = k
        BY <1>1, <1>3, <4>1, <4>2
      <4> QED BY <1>1, <1>2, <2>1, <3>1, <4>3 DEF OneQuestion
    <3>2. OneReply(u) => OneReply(u)'
      BY <1>2, <1>4, <2>1 DEF OneReply
    <3> QED BY <1>2, <1>4, <2>1, <2>3, <3>1, <3>2 DEF Exchange
  <2> QED BY <1>2, <2>2, <2>3 DEF Balanced
<1>6. CASE c.call \in Questions
  <2>1. Question(1) /\ ~NoQuestion
    BY <1>1, <1>6 DEF Question, NoQuestion
  <2>2. PICK u \in Threads : Exchange(u)
    BY <2>1 DEF Balanced, Still
  <2>3. OneQuestion(u) /\ call[u] # "drain"
    BY <2>1, <2>2 DEF Exchange, OneReply
  <2>4. /\ replies = << >> /\ c = [by |-> u, call |-> call[u]]
        /\ \A j \in 1 .. n : Question(j) => j = 1
    <3>1. PICK i \in 1 .. n :
             /\ commands[i] = [by |-> u, call |-> call[u]]
             /\ \A j \in 1 .. n : Question(j) => j = i
      BY <1>1, <2>3 DEF OneQuestion
    <3>2. i = 1
      BY <1>1, <2>1, <3>1
    <3> QED BY <1>1, <2>3, <3>1, <3>2 DEF OneQuestion
  <2>5. NoQuestion'
    BY <1>1, <1>3, <2>4 DEF NoQuestion
  <2>6. PICK len \in ReplyLens(c.call) :
          replies' = Append(replies, [by |-> c.by, call |-> c.call, len |-> len])
    BY <1>6 DEF DeviceStep
  <2>7. Len(replies') = 1 /\ replies'[1].by = u /\ replies'[1].call = call[u]
    BY <2>4, <2>6
  <2> QED BY <1>2, <2>2, <2>3, <2>5, <2>7 DEF Balanced, Exchange, OneReply
<1> QED BY <1>5, <1>6

LEMMA StepStays ==
  ASSUME IInv, Balanced, Alone', faults' = faults, ~RawOverflows, NEW t \in Threads, Step(t)
  PROVE  Balanced' /\ OwnAnswers
<1> USE DirectIOAssumption
<1>1. CASE Send(t)
  BY <1>1, SendStays DEF Send, OwnAnswers
<1>2. ~SendFails(t) /\ ~SendShort(t)
  BY DEF SendFails, SendShort, IInv, TypeOK
<1>3. CASE RecvRaw(t)
  <2>1. \A u \in Threads : Waits(u)' <=> Waits(u)
    BY <1>3 DEF RecvRaw, Waits, IInv, TypeOK
  <2> QED BY <1>3, <2>1, NothingMoves DEF RecvRaw, OwnAnswers, IInv
<1>4. CASE LockToRecv(t)
  <2>1. \A u \in Threads : Waits(u)' <=> Waits(u)
    BY <1>4 DEF LockToRecv, threads, Waits
  <2> QED BY <1>4, <2>1, NothingMoves DEF LockToRecv, threads, OwnAnswers, IInv
<1>5. CASE RecvReply(t)
  BY <1>5, ReplyStays
<1>6. ~RecvHalted(t)
  BY DEF RecvHalted, Balanced
<1>7. CASE RecvTimeout(t)
  BY <1>7, TimeoutStays
<1>8. CASE ClearInHalt(t)
  <2>1. (\A u \in Threads : Waits(u)' <=> Waits(u)) /\ halted' = halted
    BY <1>8 DEF ClearInHalt, Waits, IInv, TypeOK, Balanced
  <2> QED BY <1>8, <2>1, NothingMoves DEF ClearInHalt, OwnAnswers, IInv
<1> QED BY <1>1, <1>2, <1>3, <1>4, <1>5, <1>6, <1>7, <1>8 DEF Step

LEMMA NextStays ==
  IInv /\ [Next]_vars /\ Balanced /\ faults' = faults /\ Alone' /\ ~RawOverflows
    => Balanced' /\ OwnAnswers
<1> SUFFICES ASSUME IInv, [Next]_vars, Balanced, faults' = faults, Alone', ~RawOverflows
             PROVE  Balanced' /\ OwnAnswers
  OBVIOUS
<1>1. ASSUME NEW t \in Threads, NEW c \in Calls, Begin(t, c) PROVE Balanced' /\ OwnAnswers
  BY <1>1, BeginStays DEF Begin, OwnAnswers
<1>2. CASE DeviceStep
  BY <1>2, DeviceStays DEF DeviceStep, threads, OwnAnswers
<1>3. CASE UNCHANGED vars
  <2>1. \A u \in Threads : Waits(u)' <=> Waits(u)
    BY <1>3 DEF vars, threads, Waits
  <2> QED BY <1>3, <2>1, NothingMoves DEF vars, threads, OwnAnswers, IInv
<1> QED BY <1>1, <1>2, <1>3, StepStays DEF Next, Finished

(* While exchanges do not overlap, nothing fails and recv_raw is not asked *)
(* for too little, each call gets the answer to its own question and the   *)
(* endpoint stays open, whatever the calls, however many threads make them *)
(* one after the other.                                                    *)
THEOREM InStepStays == Spec => StaysInStep
<1> DEFINE Kept == InStep /\ faults' = faults /\ (\A t, u \in Awaiting' : t = u) /\ ~RawOverflows
                     => InStep' /\ \A t \in Threads : result'[t] # result[t] => result'[t] = "own" \/ call[t] = "drain"
<1>1. IInv => (InStep <=> Balanced)
  BY Plain DEF IInv
<1>2. IInv' => (InStep' <=> Balanced')
  BY <1>1, PTL
<1>3. IInv /\ [Next]_vars => Kept
  BY <1>1, <1>2, NextKeeps, NextStays DEF Alone, OwnAnswers
<1>4. IInv /\ [Next]_vars => [Kept]_vars
  BY <1>3
<1> QED BY <1>4, Inductive, PTL DEF Spec, StaysInStep

----------------------------------------------------------------------------
(* Counting: the questions on their way, and the threads that expect a     *)
(* reply, one step later.                                                  *)
LEMMA AskedGrows ==
  ASSUME TypeOK, NEW m \in Message, commands' = Append(commands, m)
  PROVE  Cardinality(Asked') = Cardinality(Asked) + (IF m.call \in Questions THEN 1 ELSE 0)
<1> DEFINE n == Len(commands) + 1
<1>1. /\ DOMAIN commands = 1 .. Len(commands) /\ DOMAIN commands' = 1 .. n /\ Len(commands) \in Nat
      /\ \A i \in 1 .. Len(commands) : commands'[i] = commands[i]
      /\ commands'[n] = m
  BY Appended DEF TypeOK
<1>2. 1 .. n = (1 .. Len(commands)) \cup {n} /\ n \notin 1 .. Len(commands)
  BY <1>1
<1>3. IsFiniteSet(Asked) /\ Cardinality(Asked) \in Nat
  BY AskedFinite
<1>4. CASE m.call \in Questions
  <2>1. Asked' = Asked \cup {n} /\ n \notin Asked
    BY <1>1, <1>2, <1>4 DEF Asked
  <2>2. Cardinality(Asked \cup {n}) = Cardinality(Asked) + 1
    BY <1>3, <2>1, FS_AddElement
  <2> QED BY <1>4, <2>1, <2>2
<1>5. CASE m.call \notin Questions
  <2>1. Asked' = Asked
    BY <1>1, <1>2, <1>5 DEF Asked
  <2> QED BY <1>3, <1>5, <2>1
<1> QED BY <1>4, <1>5

AskedIsFinite == IsFiniteSet(Asked)

LEMMA AskedFiniteNext == TypeOK' => AskedIsFinite'
<1>1. TypeOK => AskedIsFinite
  BY AskedFinite DEF AskedIsFinite
<1> QED BY <1>1, PTL

LEMMA AskedShrinks ==
  ASSUME TypeOK, TypeOK', commands # << >>, commands' = Tail(commands)
  PROVE  Cardinality(Asked') = Cardinality(Asked) - (IF Head(commands).call \in Questions THEN 1 ELSE 0)
<1> DEFINE n == Len(commands)
           rest == Asked \ {1}
           f == [i \in Asked' |-> i + 1]
<1>1. /\ DOMAIN commands = 1 .. n /\ DOMAIN commands' = 1 .. n - 1 /\ n \in Nat \ {0}
      /\ \A i \in 1 .. n - 1 : commands'[i] = commands[i + 1]
      /\ Head(commands) = commands[1]
  BY Removed DEF TypeOK
<1>2. IsFiniteSet(Asked) /\ Cardinality(Asked) \in Nat /\ IsFiniteSet(Asked')
  BY AskedFinite, AskedFiniteNext DEF AskedIsFinite
<1>3. \A i \in Asked' : i \in Int /\ f[i] = i + 1 /\ f[i] \in rest
  BY <1>1 DEF Asked
<1>4. ASSUME NEW j \in rest PROVE j - 1 \in Asked' /\ f[j - 1] = j
  <2>1. j \in 2 .. n /\ commands[j].call \in Questions
    BY <1>1, <1>4 DEF Asked
  <2>2. j - 1 \in 1 .. n - 1 /\ commands'[j - 1] = commands[j]
    BY <1>1, <2>1
  <2>3. j - 1 \in Asked'
    BY <1>1, <2>1, <2>2 DEF Asked
  <2> QED BY <2>1, <2>3
<1>5. f \in Bijection(Asked', rest)
  <2>1. f \in [Asked' -> rest]
    BY <1>3
  <2>2. f \in Injection(Asked', rest)
    BY <1>3, <2>1, Fun_IsInj
  <2>3. f \in Surjection(Asked', rest)
    BY <1>4, <2>1, Fun_IsSurj
  <2> QED BY <2>2, <2>3 DEF Bijection
<1>6. ExistsBijection(Asked', rest)
  BY <1>5, Zenon DEF ExistsBijection
<1>7. Cardinality(Asked') = Cardinality(rest)
  BY <1>2, <1>6, FS_Bijection
<1>8. 1 \in Asked <=> Head(commands).call \in Questions
  BY <1>1 DEF Asked
<1>9. Cardinality(rest) = IF 1 \in Asked THEN Cardinality(Asked) - 1 ELSE Cardinality(Asked)
  BY <1>2, FS_RemoveElement
<1> HIDE DEF rest
<1>10. CASE Head(commands).call \in Questions
  BY <1>2, <1>7, <1>8, <1>9, <1>10
<1>11. CASE Head(commands).call \notin Questions
  BY <1>2, <1>7, <1>8, <1>9, <1>11
<1> QED BY <1>10, <1>11

LEMMA ExpectingFinite == IsFiniteSet(Expecting) /\ Cardinality(Expecting) \in Nat
<1>1. Expecting \in SUBSET Threads
  BY DEF Expecting, Awaiting
<1>2. IsFiniteSet(Expecting)
  BY <1>1, DirectIOAssumption, FS_Subset
<1> QED BY <1>2, FS_CardinalityType

LEMMA ExpectsMore ==
  ASSUME NEW t, t \notin Expecting, Expecting' = Expecting \cup {t}
  PROVE  Cardinality(Expecting') = Cardinality(Expecting) + 1
BY ExpectingFinite, FS_AddElement

(* A recv that returns is expected no longer, unless it was for whatever   *)
(* might be there.                                                         *)
LEMMA ExpectsLess ==
  ASSUME IInv, NEW t \in Threads, lock = t, NEW value, Return(t, value)
  PROVE  /\ InCall(t) /\ pc'[t] = "idle"
         /\ value = "failed" => result'[t] \in {"zero", "error"}
         /\ Cardinality(Expecting') =
              Cardinality(Expecting) - (IF call[t] = "drain" THEN 0 ELSE 1)
<1>1. pc[t] = "recv" /\ pc'[t] = "idle" /\ (value = "failed" => result'[t] \in {"zero", "error"})
  BY DirectIOAssumption DEF IInv, TypeOK, Return
<1>2. Expecting' = Expecting \ {t} /\ (t \in Expecting <=> call[t] # "drain")
  BY <1>1 DEF Return, Expecting, Awaiting, IInv, TypeOK
<1>3. Cardinality(Expecting \ {t}) =
        IF t \in Expecting THEN Cardinality(Expecting) - 1 ELSE Cardinality(Expecting)
  BY ExpectingFinite, FS_RemoveElement
<1>4. Cardinality(Expecting') = Cardinality(Expecting) - (IF call[t] = "drain" THEN 0 ELSE 1)
  BY <1>2, <1>3, ExpectingFinite
<1> QED BY <1>1, <1>4 DEF InCall

----------------------------------------------------------------------------
(* The wire and those who expect a reply, by what kind of step it is.      *)
MadeUpFor ==
  faults' # faults \/ \E t \in Threads : lock = t /\ call[t] = "drain" /\ replies' # replies

Balance == (LeftOver' > LeftOver => Reported) /\ (LeftOver' < LeftOver => MadeUpFor)

Counted ==
  /\ Cardinality(Asked) \in Nat /\ Cardinality(Expecting) \in Nat /\ Len(replies) \in Nat
  /\ LeftOver = Cardinality(Asked) + Len(replies) - Cardinality(Expecting)

LEMMA Counts == (TypeOK => Counted) /\ (TypeOK' => Counted')
<1>1. TypeOK => Counted
  BY AskedFinite, ExpectingFinite DEF Counted, LeftOver, Outstanding
<1> QED BY <1>1, PTL

LEMMA StepBalances ==
  ASSUME IInv, IInv', NEW t \in Threads, Step(t)
  PROVE  Balance
<1> DEFINE asked == Cardinality(Asked)
           expecting == Cardinality(Expecting)
<1>1. /\ asked \in Nat /\ expecting \in Nat /\ Len(replies) \in Nat
      /\ LeftOver = asked + Len(replies) - expecting
  BY Counts DEF IInv, Counted
<1>2. /\ asked' \in Nat /\ expecting' \in Nat /\ Len(replies') \in Nat
      /\ LeftOver' = asked' + Len(replies') - expecting'
  BY Counts DEF IInv, Counted
<1>3. ASSUME UNCHANGED wires PROVE asked' = asked /\ replies' = replies
  BY <1>3 DEF Asked, wires
<1> HIDE DEF asked, expecting
<1>4. ASSUME pc[t] = "send", Issue(t), UNCHANGED replies
      PROVE  /\ asked' = asked + (IF call[t] \in Questions THEN 1 ELSE 0)
             /\ replies' = replies
  BY <1>4, IssueKeeps, AskedGrows DEF IInv, asked
<1>5. ASSUME pc[t] = "send", UNCHANGED call,
             pc' = [pc EXCEPT ![t] = pc'[t]]
      PROVE  expecting' = expecting + (IF pc'[t] \in {"owed", "recv"} THEN 1 ELSE 0)
  <2>1. t \notin Expecting /\ call[t] # "drain"
    BY <1>5 DEF Expecting, Awaiting, IInv, CallInv, OneWay, Questions
  <2>2. CASE pc'[t] \in {"owed", "recv"}
    <3>1. Expecting' = Expecting \cup {t}
      BY <1>5, <2>1, <2>2 DEF Expecting, Awaiting, IInv, TypeOK
    <3> QED BY <2>1, <2>2, <3>1, ExpectsMore DEF expecting
  <2>3. CASE pc'[t] \notin {"owed", "recv"}
    <3>1. Expecting' = Expecting
      BY <1>5, <2>1, <2>3 DEF Expecting, Awaiting, IInv, TypeOK
    <3> QED BY <1>1, <2>3, <3>1 DEF expecting
  <2> QED BY <2>2, <2>3
<1>6. ASSUME pc[t] = "send", GoOn(t), UNCHANGED call
       PROVE  expecting' = expecting + (IF call[t] \in Questions THEN 1 ELSE 0)
  <2>1. /\ pc' = [pc EXCEPT ![t] = pc'[t]]
        /\ pc'[t] \in {"owed", "recv"} <=> call[t] \in Questions
    BY <1>6 DEF GoOn, IInv, TypeOK, CallInv, OneWay, Questions
  <2> QED BY <1>5, <1>6, <2>1
<1>7. CASE Send(t)
  <2> DEFINE one == IF call[t] \in Questions THEN 1 ELSE 0
  <2>1. asked' = asked + one /\ expecting' = expecting + one /\ replies' = replies /\ one \in Nat
    BY <1>4, <1>6, <1>7 DEF Send
  <2> HIDE DEF one
  <2>2. LeftOver' = LeftOver
    BY <1>1, <1>2, <2>1
  <2> QED BY <1>1, <2>2 DEF Balance
<1>8. CASE SendShort(t)
  <2>1. asked' = asked /\ replies' = replies /\ faults' # faults
    BY <1>3, <1>8 DEF SendShort, IInv, TypeOK
  <2>2. expecting' >= expecting
    BY <1>1, <1>6, <1>8 DEF SendShort
  <2>3. ~(LeftOver' > LeftOver)
    BY <1>1, <1>2, <2>1, <2>2
  <2> QED BY <2>1, <2>3 DEF Balance, MadeUpFor
<1>9. CASE SendFails(t)
  <2>1. /\ pc[t] = "send" /\ faults' # faults /\ pc' = [pc EXCEPT ![t] = pc'[t]]
        /\ UNCHANGED <<call, replies>>
        /\ pc'[t] = IF call[t] \in {"config", "socket"} THEN "recv" ELSE "idle"
    BY <1>9 DEF SendFails, IInv, TypeOK
  <2>2. asked' \in {asked, asked + (IF call[t] \in Questions THEN 1 ELSE 0)}
    <3>1. CASE UNCHANGED commands
      BY <3>1 DEF Asked, asked
    <3> QED BY <1>4, <1>9, <2>1, <3>1 DEF SendFails
  <2>3. CASE call[t] \in {"config", "socket"}
    <3>1. expecting' = expecting + 1 /\ asked' <= asked + 1
      BY <1>1, <1>5, <2>1, <2>2, <2>3
    <3>2. ~(LeftOver' > LeftOver)
      BY <1>1, <1>2, <2>1, <3>1
    <3> QED BY <2>1, <3>2 DEF Balance, MadeUpFor
  <2>4. CASE call[t] \in {"single_read", "read", "raw"}
    <3>1. Reported
      BY <1>9, <2>1, <2>4 DEF Reported, InCall, SendFails, IInv, TypeOK
    <3> QED BY <2>1, <3>1 DEF Balance, MadeUpFor
  <2>5. CASE call[t] \in OneWay
    <3>1. expecting' = expecting /\ asked' = asked
      BY <1>1, <1>5, <2>1, <2>2, <2>5 DEF OneWay, Questions
    <3>2. LeftOver' = LeftOver
      BY <1>1, <1>2, <2>1, <3>1
    <3> QED BY <1>1, <3>2 DEF Balance
  <2> QED BY <2>1, <2>3, <2>4, <2>5 DEF IInv, CallInv, Questions
<1>10. ASSUME UNCHANGED wires, Expecting' = Expecting PROVE Balance
  <2>1. LeftOver' = LeftOver
    BY <1>1, <1>2, <1>3, <1>10 DEF expecting
  <2> QED BY <1>1, <2>1 DEF Balance
<1>11. CASE RecvRaw(t)
  BY <1>10, <1>11 DEF RecvRaw, Expecting, Awaiting, IInv, TypeOK
<1>12. CASE LockToRecv(t)
  BY <1>10, <1>12 DEF LockToRecv, Expecting, Awaiting, threads
<1>13. CASE ClearInHalt(t)
  BY <1>10, <1>13 DEF ClearInHalt, Expecting, Awaiting, IInv, TypeOK
<1>14. CASE RecvReply(t)
  <2>1. PICK value \in {"own", "other", "failed"} : Return(t, value)
    BY <1>14, ReplyReturns
  <2>2. lock = t /\ expecting' = expecting - (IF call[t] = "drain" THEN 0 ELSE 1)
    BY <1>14, <2>1, ExpectsLess DEF RecvReply, expecting
  <2>3. asked' = asked /\ Len(replies') = Len(replies) - 1
    BY <1>14, Removed DEF RecvReply, IInv, TypeOK, Asked, asked
  <2>4. CASE call[t] = "drain"
    <3>1. MadeUpFor
      BY <1>1, <2>2, <2>3, <2>4 DEF MadeUpFor
    <3>2. ~(LeftOver' > LeftOver)
      BY <1>1, <1>2, <2>2, <2>3, <2>4
    <3> QED BY <3>1, <3>2 DEF Balance
  <2>5. CASE call[t] # "drain"
    <3>1. LeftOver' = LeftOver
      BY <1>1, <1>2, <2>2, <2>3, <2>5
    <3> QED BY <1>1, <3>1 DEF Balance
  <2> QED BY <2>4, <2>5
<1>15. ASSUME lock = t, Return(t, "failed"), UNCHANGED wires PROVE Balance
  <2>1. Reported /\ expecting' = expecting - (IF call[t] = "drain" THEN 0 ELSE 1)
    BY <1>15, ExpectsLess DEF Reported, expecting
  <2>2. ~(LeftOver' < LeftOver)
    BY <1>1, <1>2, <1>3, <1>15, <2>1
  <2> QED BY <2>1, <2>2 DEF Balance
<1>16. CASE RecvHalted(t)
  BY <1>15, <1>16 DEF RecvHalted
<1>17. CASE RecvTimeout(t)
  BY <1>15, <1>17 DEF RecvTimeout
<1> QED BY <1>7, <1>8, <1>9, <1>11, <1>12, <1>13, <1>14, <1>16, <1>17 DEF Step

LEMMA QuietBalances ==
  ASSUME TypeOK, UNCHANGED wires, Expecting' = Expecting
  PROVE  Balance
<1>1. LeftOver' = LeftOver /\ LeftOver \in Int
  BY AskedFinite, ExpectingFinite DEF wires, LeftOver, Outstanding, Asked
<1> QED BY <1>1 DEF Balance

LEMMA DeviceBalances ==
  ASSUME IInv, IInv', DeviceStep
  PROVE  Balance
<1> DEFINE c == Head(commands)
<1>1. /\ Cardinality(Asked) \in Nat /\ Len(replies) \in Nat
      /\ Cardinality(Expecting) \in Nat /\ Expecting' = Expecting
  BY AskedFinite, ExpectingFinite DEF IInv, DeviceStep, threads, Expecting, Awaiting
<1>2. Cardinality(Asked') = Cardinality(Asked) - (IF c.call \in Questions THEN 1 ELSE 0)
  BY AskedShrinks DEF DeviceStep, IInv
<1>3. Len(replies') = Len(replies) + (IF c.call \in Questions THEN 1 ELSE 0)
  <2>1. CASE c.call \in Questions
    <3>1. PICK len \in ReplyLens(c.call) :
            replies' = Append(replies, [by |-> c.by, call |-> c.call, len |-> len])
      BY <2>1 DEF DeviceStep
    <3>2. Len(replies') = Len(replies) + 1
      <4>1. replies \in Seq(Reply)
        BY DEF IInv, TypeOK
      <4>2. len \in Nat /\ c \in Message
        BY DirectIOAssumption, Removed DEF ReplyLens, DeviceStep, IInv, TypeOK
      <4>3. [by |-> c.by, call |-> c.call, len |-> len] \in Reply
        BY <2>1, <4>2 DEF Message, Reply
      <4> QED BY <3>1, <4>1, <4>3, AppendProperties
    <3> QED BY <2>1, <3>2
  <2>2. CASE c.call \notin Questions
    BY <1>1, <2>2 DEF DeviceStep
  <2> QED BY <2>1, <2>2
<1>4. LeftOver' = LeftOver /\ LeftOver \in Int
  BY <1>1, <1>2, <1>3 DEF LeftOver, Outstanding
<1> QED BY <1>4 DEF Balance

LEMMA NextBalances == IInv /\ IInv' /\ [Next]_vars => Balance
<1> SUFFICES ASSUME IInv, IInv', [Next]_vars PROVE Balance
  OBVIOUS
<1>1. ASSUME NEW t \in Threads, NEW c \in Calls, Begin(t, c) PROVE Balance
  <2>1. Expecting' = Expecting
    BY <1>1 DEF Begin, Expecting, Awaiting, IInv, TypeOK
  <2> QED BY <1>1, <2>1, QuietBalances DEF Begin, IInv
<1>2. CASE UNCHANGED vars
  BY <1>2, QuietBalances DEF IInv, vars, threads, Expecting, Awaiting
<1> QED BY <1>1, <1>2, StepBalances, DeviceBalances DEF Next, Finished

(* A reply is left on the wire for a later question only by a call that    *)
(* says it failed, and made up for only by a failed send or a drain,       *)
(* however many threads exchange questions and replies, and however their  *)
(* steps are interleaved.                                                  *)
THEOREM LeftOversAccounted == Spec => LeftOverByFailure
<1>1. IInv /\ IInv' /\ [Next]_vars => [Balance]_vars
  BY NextBalances
<1> QED BY <1>1, Inductive, PTL DEF Spec, LeftOverByFailure, Balance, MadeUpFor
=============================================================================
