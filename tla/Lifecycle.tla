----------------------------- MODULE Lifecycle -----------------------------
(***************************************************************************)
(* Creating and freeing a driver, opening and closing the device and       *)
(* starting and stopping the writer thread (src/device.rs, UsbSid::{new,   *)
(* init, close, enable_thread, disable_thread, restart_thread,             *)
(* restart_ring_buffer, set_buffer_size, set_diff_size}, Drop and the      *)
(* private init_thread and stop_thread; src/ffi.rs, create_USBSID and      *)
(* close_USBSID).  How a device is found is Opening's subject.             *)
(*                                                                         *)
(* One client thread makes the calls: they take `&mut self`.  A call is    *)
(* one step up to the points where it waits for the writer thread.  Of a   *)
(* writer thread only its life is modelled, what it does meanwhile is      *)
(* WriterThread's subject.  A thread and a connection are known by the     *)
(* number of the spawn and of the open that made them; 0 stands for None.  *)
(***************************************************************************)
EXTENDS RingIndex, Opening

CONSTANTS
  MinRingSize, MinDiffSize, DefaultRingSize, DefaultDiffSize, \* constants.rs
  RingSizes, DiffSizes, \* sizes the client asks for
  SpawnMayFail,         \* can the system refuse to start a thread?
  MaxOpens, MaxSpawns   \* bounds

ASSUME LifecycleAssumption ==
  /\ MinRingSize \in Nat /\ MinDiffSize \in Nat
  /\ DefaultRingSize \in Nat /\ DefaultDiffSize \in Nat
  /\ RingSizes \subseteq Nat /\ DiffSizes \subseteq Nat
  /\ SpawnMayFail \in BOOLEAN
  /\ Backends \subseteq {"usb", "serial"} /\ Detaches \in BOOLEAN
  /\ Nobody \notin Picos
  /\ MaxOpens \in Nat /\ MaxSpawns \in Nat

VARIABLES
  port_is_open, threaded, with_cycles, \* UsbSid
  connection,            \* transport: the connection it holds, or 0
  held,                  \* the interfaces or the port that connection occupies
  run_thread, thread_count, thread_handle,
  ring_size, diff_size,  \* UsbSid: the sizes asked for
  ring,                  \* the RingBuffer's own [size, diff]
  writers,               \* the threads that exist: [id, state, connection, cycles, ring]
  opens, spawns,         \* connections opened and threads asked for so far
  cpc, after,            \* client: where it is in stop_thread, and for which call
  ret,                   \* what the last call returned
  bus, tty               \* external: what is plugged in, and the serial ports

device == <<port_is_open, threaded, with_cycles, connection, held>>
thread == <<run_thread, thread_count, thread_handle, writers, spawns>>
sizes == <<ring_size, diff_size>>
control == <<cpc, after>>
usb == <<bus, tty>>
vars == <<device, thread, sizes, ring, opens, control, ret, usb>>

Clamped(size, diff) ==
  [size |-> AtLeast(size, MinRingSize), diff |-> AtLeast(diff, MinDiffSize)]

Defaults == Clamped(DefaultRingSize, DefaultDiffSize)

Init ==
  /\ port_is_open = FALSE /\ threaded = FALSE /\ with_cycles = FALSE
  /\ connection = 0 /\ held = {}
  /\ run_thread = FALSE /\ thread_count = 0 /\ thread_handle = 0
  /\ ring_size = DefaultRingSize /\ diff_size = DefaultDiffSize
  /\ ring = Defaults
  /\ cpc = "idle" /\ after = "none" /\ ret = "ok"
  /\ writers = {} /\ opens = 0 /\ spawns = 0
  /\ bus \in [Picos -> Condition]
  /\ tty \in [Picos -> Port]
  /\ \A d \in Picos : bus[d] \in {"absent", "claimed"} => tty[d] = "none"

(* A writer thread inside its loop holds a clone of the ring's Arc. *)
Running == {w \in writers : w.state # "leaving"}

(* Mutant: the ring is reinitialised whether or not a thread shares it. *)
RingAlwaysExclusive == TRUE

(* Arc::get_mut succeeds. *)
RingIsExclusive == Running = {}

Reinit(config) == IF RingIsExclusive THEN ring' = config ELSE UNCHANGED ring

----------------------------------------------------------------------------
(* Mutant: the new thread is not counted. *)
InitThreadUncounted(c) ==
  /\ spawns < MaxSpawns
  /\ spawns' = spawns + 1
  /\ threaded' = TRUE /\ with_cycles' = TRUE
  /\ ring' = Clamped(ring_size, diff_size)
  /\ run_thread' = TRUE
  /\ writers' = writers \cup
       {[id |-> spawns', state |-> "running", connection |-> c, cycles |-> with_cycles', ring |-> ring']}
  /\ thread_handle' = spawns'
  /\ ret' = "ok"
  /\ UNCHANGED thread_count

(* init_thread, for the connection c: the ring is reinitialised with the   *)
(* sizes asked for, cycles are turned on whatever the caller set, the flag *)
(* and the count are set, and only then is the thread spawned; an error    *)
(* returns before the handle is stored.                                    *)
InitThread(c) ==
  /\ spawns < MaxSpawns
  /\ spawns' = spawns + 1
  /\ threaded' = TRUE /\ with_cycles' = TRUE
  /\ ring' = Clamped(ring_size, diff_size)
  /\ run_thread' = TRUE
  /\ thread_count' = thread_count + 1
  /\ \/ /\ writers' = writers \cup
             {[id |-> spawns', state |-> "running", connection |-> c,
               cycles |-> with_cycles', ring |-> ring']}
        /\ thread_handle' = spawns'
        /\ ret' = "ok"
     \/ /\ SpawnMayFail
        /\ ret' = "thread"
        /\ UNCHANGED <<writers, thread_handle>>

(* init.  What the backends say of their failures is only logged: every    *)
(* failure to open a device is DeviceNotFound.                             *)
InitCall == cpc = "idle" /\ ~port_is_open

InitNotFound(up) ==
  /\ InitCall
  /\ ret' = "not_found"
  /\ UNCHANGED <<port_is_open, connection, held, thread, sizes, ring, opens, control, bus>>
  /\ \E t, c \in BOOLEAN : threaded' = t /\ with_cycles' = c
  /\ \E o \in Found(bus, tty, held, up) : o.device = Nobody /\ tty' = o.tty

(* A connection left over from a failed init is replaced and so dropped.   *)
InitOpen(t, c, up) ==
  /\ InitCall
  /\ opens < MaxOpens
  /\ opens' = opens + 1
  /\ connection' = opens'
  /\ \E o \in Found(bus, tty, held, up) :
       /\ o.device # Nobody
       /\ held' = {<<o.device, o.via>>}
       /\ tty' = o.tty
  /\ IF t THEN InitThread(connection')
          ELSE /\ threaded' = FALSE /\ with_cycles' = c
               /\ ret' = "ok"
               /\ UNCHANGED <<thread, ring>>
  /\ port_is_open' = (ret' = "ok")
  /\ UNCHANGED <<sizes, control, bus>>

EnableThread ==
  /\ cpc = "idle" /\ port_is_open
  /\ IF run_thread
       THEN /\ ret' = "ok"
            /\ UNCHANGED <<device, thread, ring>>
       ELSE /\ InitThread(connection)
            /\ UNCHANGED <<port_is_open, connection, held>>
  /\ UNCHANGED <<sizes, opens, usb, control>>

(* Mutant: close keeps the transport. *)
ClosedKeeping == port_is_open' = FALSE /\ UNCHANGED <<connection, held>>

(* What the calls that stop the thread do once it is stopped. *)
Closed == connection' = 0 /\ held' = {} /\ port_is_open' = FALSE

(* Mutant: the mode is kept. *)
UnthreadedKeeping == Reinit(Defaults) /\ UNCHANGED <<threaded, with_cycles>>

Unthreaded == Reinit(Defaults) /\ threaded' = FALSE /\ with_cycles' = FALSE

(* stop_thread, up to the join.  It does nothing if the flag is clear.     *)
StopBegin(call) ==
  /\ cpc = "idle" /\ port_is_open
  /\ call = "restart" => spawns < MaxSpawns
  /\ run_thread
  /\ run_thread' = FALSE
  /\ cpc' = "join" /\ after' = call
  /\ UNCHANGED <<device, thread_count, thread_handle, writers, spawns, sizes, ring,
                 opens, usb, ret>>

JoinThread ==
  /\ cpc = "join"
  /\ ~ \E w \in writers : w.id = thread_handle
  /\ thread_handle' = 0
  /\ cpc' = "count"
  /\ UNCHANGED <<device, run_thread, thread_count, writers, spawns, sizes, ring,
                 opens, usb, after, ret>>

(* The yield loop. *)
YieldNow == cpc = "count" /\ thread_count > 0 /\ UNCHANGED vars

(* The yield loop ends, and the call that stopped the thread goes on.      *)
StopEnd ==
  /\ cpc = "count"
  /\ thread_count = 0
  /\ cpc' = (IF after = "free" THEN "freed" ELSE "idle") /\ after' = "none"
  /\ \/ /\ after \in {"close", "free"}
        /\ Closed /\ Unthreaded
        /\ UNCHANGED <<thread, ret>>
     \/ /\ after = "disable"
        /\ Unthreaded
        /\ UNCHANGED <<port_is_open, connection, held, thread, ret>>
     \/ /\ after = "restart"
        /\ InitThread(connection)
        /\ UNCHANGED <<port_is_open, connection, held>>
  /\ UNCHANGED <<sizes, opens, usb>>

CloseUnthreaded ==
  /\ cpc = "idle" /\ port_is_open
  /\ ~run_thread
  /\ Closed
  /\ UNCHANGED <<threaded, with_cycles, thread, sizes, ring, opens, usb, control, ret>>

(* Mutant: drop leaves a transport that never came to be open. *)
FreeOpenOnly ==
  /\ cpc = "idle" /\ (port_is_open => ~run_thread)
  /\ cpc' = "freed"
  /\ IF port_is_open THEN Closed ELSE UNCHANGED <<port_is_open, connection, held>>
  /\ UNCHANGED <<threaded, with_cycles, thread, sizes, ring, opens, usb, after, ret>>

(* Drop, from Rust or from close_USBSID: close, which does nothing unless  *)
(* the port is open, and then the fields, with the transport, are dropped. *)
(* With a thread to stop it is StopBegin("free").                          *)
Free ==
  /\ cpc = "idle" /\ (port_is_open => ~run_thread)
  /\ cpc' = "freed"
  /\ Closed
  /\ UNCHANGED <<threaded, with_cycles, thread, sizes, ring, opens, usb, after, ret>>

(* create_USBSID: another driver, in the same system. *)
Create ==
  /\ cpc = "freed"
  /\ port_is_open' = FALSE /\ threaded' = FALSE /\ with_cycles' = FALSE
  /\ connection' = 0 /\ held' = {}
  /\ run_thread' = FALSE /\ thread_count' = 0 /\ thread_handle' = 0
  /\ ring_size' = DefaultRingSize /\ diff_size' = DefaultDiffSize
  /\ ring' = Defaults
  /\ cpc' = "idle" /\ ret' = "ok"
  /\ UNCHANGED <<writers, spawns, opens, usb, after>>

(* Mutant: restart_thread does not ask whether the port is open. *)
RestartWhenClosed ==
  /\ cpc = "idle"
  /\ ~run_thread
  /\ InitThread(connection)
  /\ UNCHANGED <<port_is_open, connection, held, sizes, opens, usb, control>>

RestartUnthreaded ==
  /\ cpc = "idle" /\ port_is_open
  /\ ~run_thread
  /\ InitThread(connection)
  /\ UNCHANGED <<port_is_open, connection, held, sizes, opens, usb, control>>

(* restart_ring_buffer: a no-op while the writer runs. *)
RestartRingBuffer ==
  /\ cpc = "idle" /\ port_is_open
  /\ Reinit(Defaults)
  /\ UNCHANGED <<device, thread, sizes, opens, usb, control, ret>>

(* set_buffer_size and set_diff_size: remembered for the next start of the *)
(* thread, and applied to the ring only if no writer runs.                 *)
SetBufferSize(size) ==
  /\ cpc = "idle"
  /\ ring_size' = size
  /\ Reinit([ring EXCEPT !.size = AtLeast(size, MinRingSize)])
  /\ UNCHANGED <<device, thread, diff_size, opens, usb, control, ret>>

SetDiffSize(diff) ==
  /\ cpc = "idle"
  /\ diff_size' = diff
  /\ Reinit([ring EXCEPT !.diff = AtLeast(diff, MinDiffSize)])
  /\ UNCHANGED <<device, thread, ring_size, opens, usb, control, ret>>

Stopping == JoinThread \/ StopEnd

Client ==
  \/ \E up \in SUBSET Backends : InitNotFound(up)
  \/ \E t, c \in BOOLEAN, up \in SUBSET Backends : InitOpen(t, c, up)
  \/ EnableThread
  \/ \E call \in {"close", "free", "disable", "restart"} : StopBegin(call)
  \/ CloseUnthreaded
  \/ Free \/ Create
  \/ RestartUnthreaded
  \/ RestartRingBuffer
  \/ \E size \in RingSizes : SetBufferSize(size)
  \/ \E diff \in DiffSizes : SetDiffSize(diff)
  \/ Stopping

----------------------------------------------------------------------------
Becomes(w, state) ==
  /\ writers' = (writers \ {w}) \cup {[w EXCEPT !.state = state]}
  /\ UNCHANGED <<device, run_thread, thread_count, thread_handle, spawns, sizes, ring,
                 opens, usb, control, ret>>

(* A writer thread: it leaves its loop, dropping what it shares, when it   *)
(* sees the flag clear, then lowers the count and ends.                    *)
LeaveLoop(w) ==
  /\ w.state = "running"
  /\ ~run_thread
  /\ Becomes(w, "leaving")

(* The drain for a flush goes on until the ring is empty, whatever the     *)
(* flag says meanwhile.                                                    *)
BeginDrain(w) ==
  /\ w.state = "running"
  /\ Becomes(w, "draining")

(* The drain comes to its end, and the loop tests the flag again. *)
EndDrain(w) ==
  /\ w.state = "draining"
  /\ Becomes(w, IF run_thread THEN "running" ELSE "leaving")

(* Mutant: the count is not lowered. *)
EndThreadUncounted(w) ==
  /\ w.state = "leaving"
  /\ writers' = writers \ {w}
  /\ UNCHANGED <<device, run_thread, thread_count, thread_handle, spawns, sizes, ring,
                 opens, usb, control, ret>>

EndThread(w) ==
  /\ w.state = "leaving"
  /\ thread_count' = thread_count - 1
  /\ writers' = writers \ {w}
  /\ UNCHANGED <<device, run_thread, thread_handle, spawns, sizes, ring,
                 opens, usb, control, ret>>

WriterExit == \E w \in writers : LeaveLoop(w) \/ EndThread(w)

WriterDrain == \E w \in writers : BeginDrain(w) \/ EndDrain(w)

(* External: a device is plugged in or out, another program takes it or    *)
(* lets it go, its permissions or its health change.                       *)
BusChange(d, c) ==
  /\ bus[d] # c
  /\ bus' = [bus EXCEPT ![d] = c]
  /\ held' = IF c = "absent" THEN held \ {<<d, "usb">>, <<d, "serial">>} ELSE held
  /\ tty' = IF c \in {"absent", "claimed"} THEN [tty EXCEPT ![d] = "none"]
            ELSE IF bus[d] = "absent" THEN [tty EXCEPT ![d] = "free"] ELSE tty
  /\ UNCHANGED <<port_is_open, threaded, with_cycles, connection, thread, sizes, ring,
                 opens, control, ret>>

(* External: another program opens or closes a device's serial port, or    *)
(* its permissions change.                                                 *)
PortChange(d) ==
  /\ tty[d] # "none"
  /\ tty' = [tty EXCEPT ![d] = IF tty[d] = "free" THEN "shut" ELSE "free"]
  /\ UNCHANGED <<device, thread, sizes, ring, opens, control, ret, bus>>

Environment == \E d \in Picos : PortChange(d) \/ \E c \in Condition : BusChange(d, c)

Next == Client \/ YieldNow \/ WriterExit \/ WriterDrain \/ Environment

Spec == Init /\ [][Next]_vars

(* Threads are scheduled, and stop_thread goes on when it can.  Nothing    *)
(* says that a drain ends.                                                 *)
FairSpec == Spec /\ WF_vars(WriterExit) /\ WF_vars(Stopping)

----------------------------------------------------------------------------
Config == [size : Nat, diff : Nat]

TypeOK ==
  /\ port_is_open \in BOOLEAN /\ threaded \in BOOLEAN /\ with_cycles \in BOOLEAN
  /\ connection \in 0 .. MaxOpens /\ opens \in 0 .. MaxOpens
  /\ run_thread \in BOOLEAN
  /\ thread_count \in 0 .. MaxSpawns
  /\ thread_handle \in 0 .. MaxSpawns /\ spawns \in 0 .. MaxSpawns
  /\ ring_size \in Nat /\ diff_size \in Nat
  /\ ring \in Config
  /\ writers \subseteq [id : 1 .. MaxSpawns, state : {"running", "draining", "leaving"},
                        connection : 0 .. MaxOpens, cycles : BOOLEAN, ring : Config]
  /\ cpc \in {"idle", "join", "count", "freed"}
  /\ after \in {"none", "close", "free", "disable", "restart"}
  /\ ret \in {"ok", "not_found", "thread"}
  /\ bus \in [Picos -> Condition] /\ tty \in [Picos -> Port]
  /\ held \subseteq Picos \X {"usb", "serial"}

(* The ring has one consumer at most, it drains the current connection's   *)
(* ring, and the ring keeps the capacity and threshold that consumer       *)
(* started with: whatever the order of init, enable, disable, restart,     *)
(* close and the size calls, and whichever spawns fail.                    *)
OneConsumer ==
  /\ \A v, w \in Running : v = w
  /\ \A w \in Running : w.ring = ring /\ w.connection = connection

(* init_thread finds the ring unshared, as its expect() claims             *)
(* (device.rs:1007-1009, "ring has no other refs before thread start"),    *)
(* and has a connection to give to the thread.                             *)
StartsExclusive ==
  [][spawns' # spawns => writers = {} /\ connection' # 0]_vars

(* A spawn failed and left the count raised, which it stays for ever.      *)
Leaked == thread_count > Cardinality(writers)

(* write_ring (cycled = FALSE) and write_ring_cycled (TRUE) take a record. *)
AcceptsRing(cycled) == port_is_open /\ threaded /\ with_cycles = cycled

(* write, write_cycled, write_buffer and read go to the device directly. *)
AcceptsDirect == port_is_open /\ ~threaded

(* Between calls the driver's idea of its mode is the truth: it takes ring *)
(* writes if and only if a thread drains them, with the record length that *)
(* thread expects, and direct writes only if none can interleave; unless a *)
(* spawn has failed.                                                       *)
ThreadsAgree ==
  cpc = "idle" /\ ~Leaked =>
    /\ \A cycled \in BOOLEAN :
         AcceptsRing(cycled) => \E w \in Running : w.cycles = cycled /\ w.connection = connection
    /\ AcceptsDirect => writers = {}

(* A closed driver occupies nothing, so that a later init can open the     *)
(* device again (device.rs:256, "release all resources"); unless the spawn *)
(* failed in init.                                                         *)
ReleasedWhenClosed == ~port_is_open /\ ~Leaked => connection = 0 /\ held = {}

(* A freed driver leaves no thread and no open device behind, even if a    *)
(* spawn had failed in init (ffi.rs:70, "Close the driver and free the     *)
(* heap allocation").                                                      *)
FreedIsQuiet == cpc = "freed" => writers = {} /\ connection = 0 /\ held = {}

(* A backend reaches a device, and the device works through it. *)
Reaches(b, d) == IF b = "usb" THEN bus[d] \notin {"absent", "denied"} ELSE tty'[d] # "none"

Works(b, d) == IF b = "usb" THEN bus[d] = "ready" ELSE tty'[d] = "free" /\ bus[d] # "flaky"

Excused(b) ==
  \/ \A d \in Picos : ~Reaches(b, d)
  \/ \E d \in Picos : Reaches(b, d) /\ ~Works(b, d)

NothingHidden ==
  \A up \in SUBSET Backends : held = {} /\ InitNotFound(up) => \A b \in up : Excused(b)

(* init says that no device was found only if each backend that could list *)
(* the devices reaches none, or reaches one that is in use, not permitted  *)
(* or broken and that may have come first in the scan.  A device that may  *)
(* not be opened never hides one that works (transport.rs:87-89): if a     *)
(* backend reaches only devices that work, one of them is opened.          *)
NotFoundIsJustified == [][NothingHidden]_vars

(* No drain of a flush goes on for ever. *)
DrainsEnd == []<>(\A w \in writers : w.state # "draining")

(* The calls that stop the writer return, unless a spawn has failed, and   *)
(* if drains end: one that steps over the write cursor does not look at    *)
(* the run flag (device.rs:1338-1342), and the join waits for it.          *)
StopTerminates ==
  DrainsEnd => (cpc \in {"join", "count"} /\ ~Leaked ~> cpc \in {"idle", "freed"})
=============================================================================
