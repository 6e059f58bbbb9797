-------------------------- MODULE LifecycleProofs --------------------------
(***************************************************************************)
(* The ring never has two consumers and is never reconfigured under one,   *)
(* the driver's mode tells whether a thread drains, and what is closed or  *)
(* freed holds no device: for every order of calls, every size, every      *)
(* spawn that fails and everything that happens on the bus.                *)
(*                                                                         *)
(* OneConsumer speaks of the threads inside their loop.  What makes it     *)
(* inductive is WriterInv: there is at most one thread at all, it is the   *)
(* one the handle names, and between calls it exists only while the run    *)
(* flag is set; so a call that finds the flag clear, or that has joined,   *)
(* finds no thread.  ModeInv says that a thread and the mode come together *)
(* and that the one way to be threaded without a thread, or to keep a      *)
(* connection without an open port, is a spawn that failed, which left the *)
(* count raised.                                                           *)
(***************************************************************************)
EXTENDS Lifecycle, FiniteSetTheorems, TLAPS

WriterInv ==
  /\ \A v, w \in writers : v = w
  /\ \A w \in writers : /\ w.id = thread_handle
                        /\ w.ring = ring /\ w.connection = connection
                        /\ w.state = "leaving" => ~run_thread
  /\ writers # {} => port_is_open /\ thread_count >= 1
  /\ cpc = "idle" => (writers # {} => run_thread) /\ (writers = {} => thread_handle = 0)
  /\ cpc = "count" => writers = {} /\ thread_handle = 0
  /\ cpc \in {"join", "count"} => port_is_open /\ ~run_thread
  /\ cpc = "freed" => ~port_is_open
  /\ cpc \in {"idle", "freed"} <=> after = "none"

CountInv ==
  /\ port_is_open => connection # 0
  /\ thread_count <= spawns

ModeInv ==
  /\ writers # {} => threaded /\ with_cycles /\ \A w \in writers : w.cycles
  /\ cpc = "idle" /\ port_is_open /\ threaded => writers # {} \/ thread_count >= 1
  /\ ~port_is_open => thread_count >= 1 \/ (connection = 0 /\ held = {})
  /\ cpc = "freed" => connection = 0 /\ held = {}

IInv == TypeOK /\ WriterInv /\ CountInv /\ ModeInv

(* Without a thread there is no consumer. *)
LEMMA NoWriterNoConsumer == writers = {} => RingIsExclusive
BY DEF RingIsExclusive, Running

LEMMA ClampedType ==
  ASSUME NEW size \in Nat, NEW diff \in Nat
  PROVE  Clamped(size, diff) \in Config
BY LifecycleAssumption DEF Clamped, Config, AtLeast

(* What init finds is a device on the bus, through one of the backends.    *)
LEMMA FoundType ==
  ASSUME NEW up, tty \in [Picos -> Port], NEW o \in Found(bus, tty, held, up)
  PROVE  /\ o.tty \in [Picos -> Port]
         /\ o.device # Nobody => <<o.device, o.via>> \in Picos \X {"usb", "serial"}
<1>1. ASSUME NEW u \in UsbOpen(bus, tty, held, up)
      PROVE  u.tty \in [Picos -> Port] /\ (u.device # Nobody => u.device \in Picos)
  BY <1>1 DEF UsbOpen, UsbOpenable, Port
<1>2. ASSUME NEW t \in [Picos -> Port], NEW d \in SerialOpen(bus, t, held, up), d # Nobody
      PROVE  d \in Picos
  BY <1>2 DEF SerialOpen, SerialPorts
<1> QED BY <1>1, <1>2 DEF Found

LEMMA InitIInv == Init => IInv
<1> SUFFICES ASSUME Init PROVE IInv
  OBVIOUS
<1>1. ring \in Config
  BY ClampedType, LifecycleAssumption DEF Init, Defaults
<1>2. /\ 0 \in 0 .. MaxOpens /\ 0 \in 0 .. MaxSpawns
      /\ ring_size \in Nat /\ diff_size \in Nat
  BY LifecycleAssumption DEF Init
<1>3. TypeOK
  BY <1>1, <1>2 DEF Init, TypeOK
<1>4. WriterInv /\ CountInv /\ ModeInv
  BY DEF Init, WriterInv, CountInv, ModeInv
<1> QED BY <1>3, <1>4 DEF IInv

(* init_thread keeps the invariant when it finds no thread. *)
LEMMA InitThreadStep ==
  ASSUME IInv, NEW c \in 1 .. MaxOpens, InitThread(c), connection' = c,
         writers = {}, thread_handle = 0,
         cpc' = "idle", after' = "none",
         ret' = "ok" => port_is_open', port_is_open' \in BOOLEAN,
         opens' \in 0 .. MaxOpens,
         bus' = bus, tty' \in [Picos -> Port], held' \subseteq Picos \X {"usb", "serial"},
         UNCHANGED sizes
  PROVE  IInv'
<1> DEFINE w == [id |-> spawns', state |-> "running", connection |-> c,
                 cycles |-> TRUE, ring |-> ring']
<1>1. /\ spawns' = spawns + 1 /\ spawns' \in 1 .. MaxSpawns
      /\ threaded' = TRUE /\ with_cycles' = TRUE /\ run_thread' = TRUE
      /\ thread_count' = thread_count + 1 /\ thread_count' \in 1 .. spawns'
  BY LifecycleAssumption DEF InitThread, IInv, TypeOK, CountInv
<1>2. ring' \in Config
  BY ClampedType DEF InitThread, IInv, TypeOK
<1>3. \/ writers' = {w} /\ thread_handle' = spawns' /\ ret' = "ok"
      \/ writers' = {} /\ thread_handle' = 0 /\ ret' = "thread"
  BY DEF InitThread
<1>4. TypeOK'
  <2>1. w \in [id : 1 .. MaxSpawns, state : {"running", "draining", "leaving"},
               connection : 0 .. MaxOpens, cycles : BOOLEAN, ring : Config]
    BY <1>1, <1>2
  <2>2. thread_count' \in 0 .. MaxSpawns /\ spawns' \in 0 .. MaxSpawns
    BY <1>1, LifecycleAssumption
  <2>3. connection' \in 0 .. MaxOpens
    OBVIOUS
  <2> QED BY <1>1, <1>2, <1>3, <2>1, <2>2, <2>3, LifecycleAssumption DEF IInv, TypeOK, sizes
<1>5. WriterInv'
  <2>1. CASE writers' = {w} /\ thread_handle' = spawns' /\ ret' = "ok"
    <3>1. w.id = spawns' /\ w.ring = ring' /\ w.connection = connection' /\ w.state = "running"
      OBVIOUS
    <3> HIDE DEF w
    <3> QED BY <1>1, <2>1, <3>1 DEF WriterInv
  <2>2. CASE writers' = {} /\ thread_handle' = 0
    BY <1>1, <2>2 DEF WriterInv
  <2> QED BY <1>3, <2>1, <2>2
<1>6. CountInv'
  BY <1>1 DEF CountInv
<1>7. ModeInv'
  <2>1. w.cycles
    OBVIOUS
  <2> HIDE DEF w
  <2> QED BY <1>1, <1>3, <2>1 DEF ModeInv
<1> QED BY <1>4, <1>5, <1>6, <1>7 DEF IInv

LEMMA ClientStep ==
  ASSUME IInv, Client
  PROVE  IInv'
<1>1. ASSUME NEW up, InitNotFound(up) PROVE IInv'
  <2>1. writers = {} /\ tty' \in [Picos -> Port]
    BY <1>1, FoundType DEF InitNotFound, InitCall, IInv, TypeOK, WriterInv
  <2> QED BY <1>1, <2>1
          DEF InitNotFound, InitCall, IInv, TypeOK, WriterInv, CountInv, ModeInv, thread, sizes, control
<1>2. ASSUME NEW t \in BOOLEAN, NEW c \in BOOLEAN, NEW up, InitOpen(t, c, up)
      PROVE  IInv'
  <2>1. /\ writers = {} /\ thread_handle = 0 /\ cpc = "idle" /\ after = "none"
        /\ opens' \in 1 .. MaxOpens /\ connection' = opens'
    BY <1>2, LifecycleAssumption DEF InitOpen, InitCall, IInv, TypeOK, WriterInv
  <2>4. bus' = bus /\ tty' \in [Picos -> Port] /\ held' \subseteq Picos \X {"usb", "serial"}
    BY <1>2, FoundType DEF InitOpen, IInv, TypeOK
  <2>2. CASE t
    <3>1. InitThread(connection')
      BY <1>2, <2>2 DEF InitOpen
    <3>2. /\ ret' = "ok" => port_is_open'
          /\ port_is_open' \in BOOLEAN
          /\ cpc' = "idle" /\ after' = "none"
          /\ UNCHANGED sizes
      BY <1>2, <2>1 DEF InitOpen, control
    <3>3. connection' \in 1 .. MaxOpens /\ opens' \in 0 .. MaxOpens
      BY <2>1
    <3> QED BY <2>1, <2>4, <3>1, <3>2, <3>3, InitThreadStep
  <2>3. CASE ~t
    <3>1. /\ threaded' = FALSE /\ with_cycles' = c /\ ret' = "ok" /\ port_is_open' = TRUE
          /\ UNCHANGED <<thread, ring, sizes, control>>
      BY <1>2, <2>3 DEF InitOpen
    <3>2. connection' \in 0 .. MaxOpens /\ connection' # 0 /\ opens' \in 0 .. MaxOpens
      BY <2>1
    <3>3. TypeOK'
      BY <2>4, <3>1, <3>2 DEF IInv, TypeOK, thread, sizes, control
    <3>4. WriterInv' /\ CountInv' /\ ModeInv'
      BY <2>1, <3>1, <3>2 DEF IInv, WriterInv, CountInv, ModeInv, thread, control
    <3> QED BY <3>3, <3>4 DEF IInv
  <2> QED BY <2>2, <2>3
<1>3. CASE EnableThread
  <2>1. CASE run_thread
    BY <1>3, <2>1
    DEF EnableThread, IInv, TypeOK, WriterInv, CountInv, ModeInv, device, thread, sizes, control, usb
  <2>2. CASE ~run_thread
    <3>1. /\ writers = {} /\ thread_handle = 0 /\ cpc = "idle" /\ after = "none"
          /\ connection \in 1 .. MaxOpens
      BY <1>3, <2>2, LifecycleAssumption DEF EnableThread, IInv, TypeOK, WriterInv, CountInv
    <3> QED BY <1>3, <2>2, <3>1, InitThreadStep DEF EnableThread, control, usb, IInv, TypeOK
  <2> QED BY <2>1, <2>2
<1>4. ASSUME NEW call \in {"close", "free", "disable", "restart"}, StopBegin(call)
      PROVE  IInv'
  <2>1. TypeOK'
    BY <1>4 DEF StopBegin, IInv, TypeOK, device, sizes, usb
  <2>2. /\ cpc' = "join" /\ after' # "none" /\ run_thread' = FALSE /\ port_is_open
        /\ UNCHANGED <<device, thread_count, thread_handle, writers, spawns, ring>>
    BY <1>4 DEF StopBegin
  <2>3. WriterInv' /\ CountInv' /\ ModeInv'
    BY <2>2 DEF IInv, WriterInv, CountInv, ModeInv, device
  <2> QED BY <2>1, <2>3 DEF IInv
<1>5. CASE CloseUnthreaded \/ Free
  <2>1. /\ writers = {} /\ cpc = "idle" /\ connection' = 0 /\ held' = {} /\ port_is_open' = FALSE
        /\ cpc' \in {"idle", "freed"}
        /\ UNCHANGED <<threaded, with_cycles, thread, sizes, ring, opens, usb, after, ret>>
    BY <1>5 DEF CloseUnthreaded, Free, Closed, IInv, WriterInv, control
  <2>2. connection' \in 0 .. MaxOpens
    BY <2>1, LifecycleAssumption
  <2>3. TypeOK'
    BY <2>1, <2>2 DEF IInv, TypeOK, thread, sizes, usb
  <2>4. WriterInv' /\ CountInv' /\ ModeInv'
    BY <2>1 DEF IInv, WriterInv, CountInv, ModeInv, thread
  <2> QED BY <2>3, <2>4 DEF IInv
<1>12. CASE Create
  <2>1. /\ writers = {} /\ after = "none"
        /\ ring' \in Config /\ 0 \in 0 .. MaxOpens /\ 0 \in 0 .. MaxSpawns
        /\ DefaultRingSize \in Nat /\ DefaultDiffSize \in Nat
    BY <1>12, ClampedType, LifecycleAssumption DEF Create, Defaults, IInv, WriterInv
  <2>2. TypeOK'
    BY <1>12, <2>1 DEF Create, IInv, TypeOK, usb
  <2>3. WriterInv' /\ CountInv' /\ ModeInv'
    BY <1>12, <2>1 DEF Create, IInv, TypeOK, WriterInv, CountInv, ModeInv
  <2> QED BY <2>2, <2>3 DEF IInv
<1>6. CASE RestartUnthreaded
  <2>1. /\ writers = {} /\ thread_handle = 0 /\ cpc = "idle" /\ after = "none"
        /\ connection \in 1 .. MaxOpens /\ InitThread(connection)
    BY <1>6, LifecycleAssumption
    DEF RestartUnthreaded, IInv, TypeOK, WriterInv, CountInv
  <2> QED BY <1>6, <2>1, InitThreadStep
          DEF RestartUnthreaded, control, usb, IInv, TypeOK
<1>7. CASE RestartRingBuffer
  <2>1. ring' \in Config /\ (writers # {} => ring' = ring)
    BY <1>7, NoWriterNoConsumer, ClampedType, LifecycleAssumption
    DEF RestartRingBuffer, Reinit, Defaults, IInv, TypeOK, WriterInv, RingIsExclusive, Running
  <2> QED BY <1>7, <2>1
          DEF RestartRingBuffer, IInv, TypeOK, WriterInv, CountInv, ModeInv, device, thread, sizes,
              control, usb
<1>8. ASSUME NEW size \in RingSizes, SetBufferSize(size)
      PROVE  IInv'
  <2>1. ring' \in Config /\ (writers # {} => ring' = ring)
    BY <1>8, LifecycleAssumption
    DEF SetBufferSize, Reinit, AtLeast, IInv, TypeOK, Config, WriterInv, RingIsExclusive, Running
  <2> QED BY <1>8, <2>1, LifecycleAssumption
          DEF SetBufferSize, IInv, TypeOK, WriterInv, CountInv, ModeInv, device, thread, control, usb
<1>9. ASSUME NEW diff \in DiffSizes, SetDiffSize(diff)
      PROVE  IInv'
  <2>1. ring' \in Config /\ (writers # {} => ring' = ring)
    BY <1>9, LifecycleAssumption
    DEF SetDiffSize, Reinit, AtLeast, IInv, TypeOK, Config, WriterInv, RingIsExclusive, Running
  <2> QED BY <1>9, <2>1, LifecycleAssumption
          DEF SetDiffSize, IInv, TypeOK, WriterInv, CountInv, ModeInv, device, thread, control, usb
<1>10. CASE JoinThread
  <2>1. writers = {}
    BY <1>10 DEF JoinThread, IInv, WriterInv
  <2> QED BY <1>10, <2>1, LifecycleAssumption
          DEF JoinThread, IInv, TypeOK, WriterInv, CountInv, ModeInv, device, sizes, usb
<1>11. CASE StopEnd
  <2>1. /\ writers = {} /\ thread_handle = 0 /\ port_is_open /\ ~run_thread
        /\ connection \in 1 .. MaxOpens
    BY <1>11, LifecycleAssumption DEF StopEnd, IInv, TypeOK, WriterInv, CountInv
  <2>2. CASE after = "restart"
    <3>1. InitThread(connection)
      BY <1>11, <2>2 DEF StopEnd
    <3> QED BY <1>11, <2>1, <2>2, <3>1, InitThreadStep DEF StopEnd, usb, IInv, TypeOK
  <2>3. CASE after # "restart"
    <3>1. ring' \in Config
      BY <1>11, <2>1, <2>3, NoWriterNoConsumer, ClampedType, LifecycleAssumption
      DEF StopEnd, Unthreaded, Reinit, Defaults
    <3>2. /\ after' = "none"
          /\ threaded' = FALSE /\ with_cycles' = FALSE
          /\ \/ /\ connection' = 0 /\ held' = {} /\ port_is_open' = FALSE
                /\ cpc' \in {"idle", "freed"}
             \/ UNCHANGED <<port_is_open, connection, held>> /\ cpc' = "idle"
          /\ UNCHANGED <<thread, ret, sizes, opens, usb>>
      BY <1>11, <2>3 DEF StopEnd, Unthreaded, Closed
    <3>3. connection' \in 0 .. MaxOpens
      <4>1. CASE connection' = 0
        BY <4>1, LifecycleAssumption
      <4>2. CASE connection' = connection
        BY <2>1, <4>2
      <4> QED BY <3>2, <4>1, <4>2
    <3>4. TypeOK'
      BY <3>1, <3>2, <3>3 DEF IInv, TypeOK, thread, sizes, usb
    <3>5. WriterInv' /\ CountInv' /\ ModeInv'
      BY <2>1, <3>2 DEF IInv, WriterInv, CountInv, ModeInv, thread
    <3> QED BY <3>4, <3>5 DEF IInv
  <2> QED BY <2>2, <2>3
<1> QED BY <1>1, <1>2, <1>3, <1>4, <1>5, <1>6, <1>7, <1>8, <1>9, <1>10, <1>11, <1>12
        DEF Client, Stopping

LEMMA WriterStep ==
  ASSUME IInv, NEW w \in writers,
         LeaveLoop(w) \/ EndThread(w) \/ BeginDrain(w) \/ EndDrain(w)
  PROVE  IInv'
<1> USE LifecycleAssumption
<1>1. writers = {w} /\ w.id = thread_handle /\ w.ring = ring /\ w.connection = connection
  BY DEF IInv, WriterInv
<1>2. ASSUME NEW state \in {"running", "draining", "leaving"}, Becomes(w, state),
             state = "leaving" => ~run_thread
      PROVE  IInv'
  <2> DEFINE next == [w EXCEPT !.state = state]
  <2>1. /\ writers' = {next} /\ next.id = w.id /\ next.ring = w.ring
        /\ next.connection = w.connection /\ next.state = state /\ next.cycles = w.cycles
        /\ next \in [id : 1 .. MaxSpawns, state : {"running", "draining", "leaving"},
                     connection : 0 .. MaxOpens, cycles : BOOLEAN, ring : Config]
    BY <1>1, <1>2 DEF Becomes, IInv, TypeOK
  <2> HIDE DEF next
  <2>2. TypeOK'
    BY <1>2, <2>1 DEF Becomes, IInv, TypeOK, device, sizes, control, usb
  <2>3. WriterInv' /\ CountInv' /\ ModeInv'
    BY <1>1, <1>2, <2>1 DEF Becomes, IInv, TypeOK, WriterInv, CountInv, ModeInv, device, sizes, control
  <2> QED BY <2>2, <2>3 DEF IInv
<1>3. CASE EndThread(w)
  <2>1. writers' = {} /\ ~run_thread /\ cpc # "idle" /\ thread_count' \in 0 .. MaxSpawns
    BY <1>1, <1>3 DEF EndThread, IInv, TypeOK, WriterInv
  <2>2. TypeOK'
    BY <1>3, <2>1 DEF EndThread, IInv, TypeOK, device, sizes, control, usb
  <2>3. WriterInv' /\ CountInv' /\ ModeInv'
    BY <1>3, <2>1 DEF EndThread, IInv, TypeOK, WriterInv, CountInv, ModeInv, device, sizes, control
  <2> QED BY <2>2, <2>3 DEF IInv
<1> QED BY <1>2, <1>3 DEF LeaveLoop, BeginDrain, EndDrain

LEMMA EnvironmentStep ==
  ASSUME IInv, NEW d \in Picos, PortChange(d) \/ \E c \in Condition : BusChange(d, c)
  PROVE  IInv'
<1>1. /\ bus' \in [Picos -> Condition] /\ tty' \in [Picos -> Port] /\ held' \subseteq held
      /\ UNCHANGED <<port_is_open, threaded, with_cycles, connection, thread, sizes, ring,
                     opens, control, ret>>
  BY DEF BusChange, PortChange, IInv, TypeOK, Port, device
<1>2. TypeOK'
  BY <1>1 DEF IInv, TypeOK, thread, sizes, control
<1>3. WriterInv' /\ CountInv' /\ ModeInv'
  BY <1>1 DEF IInv, WriterInv, CountInv, ModeInv, thread, control
<1> QED BY <1>2, <1>3 DEF IInv

LEMMA NextIInv == IInv /\ [Next]_vars => IInv'
<1> SUFFICES ASSUME IInv, [Next]_vars PROVE IInv'
  OBVIOUS
<1>1. CASE UNCHANGED vars
  BY <1>1 DEF vars, device, thread, sizes, control, usb, IInv, TypeOK, WriterInv, CountInv, ModeInv
<1> QED BY <1>1, ClientStep, WriterStep, EnvironmentStep DEF Next, WriterExit, WriterDrain, YieldNow, Environment

LEMMA Inductive == Spec => []IInv
BY InitIInv, NextIInv, PTL DEF Spec

(* Flags, counts, handles and the thread set stay in their types.          *)
THEOREM TypeCorrect == Spec => []TypeOK
<1>1. IInv => TypeOK
  BY DEF IInv
<1> QED BY <1>1, Inductive, PTL

(* At most one consumer, and the ring is not reconfigured under it.        *)
THEOREM SingleConsumer == Spec => []OneConsumer
<1>1. IInv => OneConsumer
  BY DEF IInv, WriterInv, OneConsumer, Running
<1> QED BY <1>1, Inductive, PTL

(* init_thread's expect() never panics and it always has a connection.     *)
THEOREM ExclusiveStart == Spec => StartsExclusive
<1>1. IInv /\ IInv' /\ [Next]_vars => [spawns' # spawns => writers = {} /\ connection' # 0]_vars
  <2> SUFFICES ASSUME IInv, IInv', [Next]_vars, spawns' # spawns
               PROVE  writers = {} /\ connection' # 0
    OBVIOUS
  <2>1. \/ \E t, c \in BOOLEAN, up \in SUBSET Backends : InitOpen(t, c, up)
        \/ EnableThread
        \/ RestartUnthreaded
        \/ StopEnd
    BY DEF Next, Client, Stopping, WriterExit, WriterDrain, YieldNow, Environment, BusChange,
           PortChange, BeginDrain, EndDrain, Becomes, vars, device,
           thread, sizes, control, InitNotFound, StopBegin, CloseUnthreaded, Free, Create,
           RestartRingBuffer, SetBufferSize, SetDiffSize, JoinThread, LeaveLoop, EndThread
  <2>2. writers = {}
    BY <2>1 DEF IInv, WriterInv, InitOpen, InitCall, EnableThread, RestartUnthreaded, StopEnd, thread
  <2>3. connection' # 0
    BY <2>1, LifecycleAssumption
    DEF IInv, TypeOK, WriterInv, CountInv, InitOpen, EnableThread, RestartUnthreaded, StopEnd,
        Closed, thread
  <2> QED BY <2>2, <2>3
<1> QED BY <1>1, Inductive, PTL DEF Spec, StartsExclusive

(* Between calls a ring write is taken exactly when a thread drains it     *)
(* with that record length, and a direct write only if no thread sends.    *)
THEOREM ModeIsTrue == Spec => []ThreadsAgree
<1>1. IInv => ThreadsAgree
  <2> SUFFICES ASSUME IInv, cpc = "idle", ~Leaked
               PROVE  /\ \A cycled \in BOOLEAN : AcceptsRing(cycled) =>
                           \E w \in Running : w.cycles = cycled /\ w.connection = connection
                      /\ AcceptsDirect => writers = {}
    BY DEF ThreadsAgree
  <2>1. ASSUME NEW cycled \in BOOLEAN, AcceptsRing(cycled)
        PROVE  \E w \in Running : w.cycles = cycled /\ w.connection = connection
    <3>1. writers # {}
      <4> SUFFICES ASSUME writers = {} PROVE FALSE
        OBVIOUS
      <4>1. Cardinality(writers) = 0
        BY FS_EmptySet
      <4>2. thread_count >= 1
        BY <2>1 DEF AcceptsRing, IInv, ModeInv
      <4> QED BY <4>1, <4>2 DEF IInv, TypeOK, Leaked
    <3>2. PICK w \in writers : TRUE
      BY <3>1
    <3>3. w.state # "leaving" /\ w.connection = connection /\ w.cycles = cycled
      BY <2>1, <3>2 DEF AcceptsRing, IInv, TypeOK, WriterInv, ModeInv
    <3> QED BY <3>2, <3>3 DEF Running
  <2>2. AcceptsDirect => writers = {}
    BY DEF AcceptsDirect, IInv, ModeInv
  <2> QED BY <2>1, <2>2
<1> QED BY <1>1, Inductive, PTL

(* A closed driver occupies no device, unless a spawn failed in init.      *)
THEOREM ClosedReleases == Spec => []ReleasedWhenClosed
<1>1. IInv => ReleasedWhenClosed
  <2> SUFFICES ASSUME IInv, ~port_is_open, ~Leaked PROVE connection = 0 /\ held = {}
    BY DEF ReleasedWhenClosed
  <2>1. writers = {} /\ Cardinality(writers) = 0
    BY FS_EmptySet DEF IInv, WriterInv
  <2> QED BY <2>1 DEF IInv, TypeOK, ModeInv, Leaked
<1> QED BY <1>1, Inductive, PTL

(* A freed driver leaves no thread and no connection, whatever failed.     *)
THEOREM FreedLeavesNothing == Spec => []FreedIsQuiet
<1>1. IInv => FreedIsQuiet
  BY DEF IInv, WriterInv, ModeInv, FreedIsQuiet
<1> QED BY <1>1, Inductive, PTL

(* A backend that fails, with nothing of ours in the way, reaches no       *)
(* device, or one that does not work.                                      *)
LEMMA UsbFails ==
  ASSUME TypeOK, NEW up, "usb" \in up, NEW u \in UsbOpen(bus, tty, {}, up), u.device = Nobody,
         \E d \in Picos : Reaches("usb", d)
  PROVE  \E d \in Picos : Reaches("usb", d) /\ ~Works("usb", d)
<1>1. UsbOpenable(bus, up) # {}
  BY DEF UsbOpenable, Reaches
<1>2. PICK d \in UsbOpenable(bus, up) : u.device = IF SetsUp(bus, {}, d) THEN d ELSE Nobody
  BY <1>1 DEF UsbOpen
<1>3. d \in Picos /\ Reaches("usb", d)
  BY <1>2 DEF UsbOpenable, Reaches
<1>4. bus[d] # "ready"
  BY <1>2, <1>3, LifecycleAssumption DEF SetsUp
<1> QED BY <1>3, <1>4 DEF Works

LEMMA SerialFails ==
  ASSUME NEW up, "serial" \in up, tty' \in [Picos -> Port], Nobody \in SerialOpen(bus, tty', {}, up),
         \E d \in Picos : Reaches("serial", d)
  PROVE  \E d \in Picos : Reaches("serial", d) /\ ~Works("serial", d)
<1>1. SerialPorts(tty', up) # {}
  BY DEF SerialPorts, Reaches
<1>2. PICK d \in SerialPorts(tty', up) : d = Nobody \/ tty'[d] = "shut" \/ bus[d] = "flaky"
  BY <1>1 DEF SerialOpen
<1>3. d \in Picos /\ Reaches("serial", d)
  BY <1>2 DEF SerialPorts, Reaches
<1> QED BY <1>2, <1>3, LifecycleAssumption DEF Works

(* init finds a device through any backend that can list the devices and   *)
(* reaches only such as work, whichever backends the crate was built with  *)
(* and however many devices the user may not open.                         *)
THEOREM NotFoundJustified == Spec => NotFoundIsJustified
<1>1. TypeOK /\ [Next]_vars => [NothingHidden]_vars
  <2> SUFFICES ASSUME TypeOK, NEW up \in SUBSET Backends, held = {}, InitNotFound(up), NEW b \in up,
                      \E d \in Picos : Reaches(b, d)
               PROVE  \E d \in Picos : Reaches(b, d) /\ ~Works(b, d)
    BY DEF NothingHidden, Excused
  <2>1. PICK o \in Found(bus, tty, {}, up) : o.device = Nobody /\ tty' = o.tty
    BY DEF InitNotFound
  <2>2. PICK u \in UsbOpen(bus, tty, {}, up) :
          u.device = Nobody /\ Nobody \in SerialOpen(bus, u.tty, {}, up) /\ tty' = u.tty
    BY <2>1 DEF Found
  <2>3. tty' \in [Picos -> Port]
    BY <2>1, FoundType DEF TypeOK
  <2>4. b \in {"usb", "serial"}
    BY LifecycleAssumption
  <2> QED BY <2>2, <2>3, <2>4, UsbFails, SerialFails
<1> QED BY <1>1, TypeCorrect, PTL DEF Spec, NotFoundIsJustified
=============================================================================
