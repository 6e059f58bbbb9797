# Verification of usbsid-pico

TLA+ models, TLC runs and TLAPS proofs for the `usbsid-pico` driver, a Rust
library that sends SID register writes to a USBSID-Pico board. Paths below are
relative to the repository; line numbers are those of the commit the models
were written from. `PROJECT.json` is the index: components, runs, the source
lines of every definition, findings, hazards and theorems.

## 1. Inventory

| Component | State it keeps | Operations | Interacts with |
|---|---|---|---|
| Ring buffer (`ringbuffer.rs`) | storage, `read_pos`, `write_pos`, `ring_size`, `diff_size` | `put`, `get`, `is_full`, `is_empty`, `has_data`, `diff`, `reset`, `set_*`, `reinit*` | producer: client thread; consumer: writer thread; no lock |
| Threaded writes, client side (`device.rs` 315-326, 737-864) | `SharedState` {`flush`, `flush_done`} under a mutex, a condvar | `write_ring`, `write_ring_cycled`, `write_ring_cycled_batch`, `set_flush`, `flush`, `reset` | ring, mutex, condvar |
| Writer thread, Linux and Windows (`device.rs` 1270-1434) | `thread_buf`, `buffer_pos`, `flushing`, shared `writer_errors` | rounds of: take the flush request, drain, send packets, answer | ring, mutex, transport lock, run flag |
| Writer thread, macOS (`device.rs` 1096-1266) | the same, a channel, an I/O thread | the same, packets through the channel | the same |
| Lifecycle (`device.rs` 131-265, 823-905, 999-1076, `ffi.rs` 33-85) | `port_is_open`, `threaded`, `with_cycles`, `run_thread`, `thread_count`, `thread_handle`, `transport`, requested sizes | `new`, `init`, `close`, `Drop`, `enable_thread`, `disable_thread`, `restart_thread`, `restart_ring_buffer`, `set_buffer_size`, `set_diff_size` | thread spawn and join, `Arc::get_mut` on the ring, the backends' `open` |
| Device queries and clock (`device.rs` 410-567, 623-663) | `clk_retrieved`, `us_clkrate`, `cycles_per_sec`, `num_sids`, `fmopl_sid`, `pcb_version`, `socket_config_retrieved` | `set_clock_rate`, `get_clock_rate`, `get_num_sids`, `get_fmopl_sid`, `get_pcb_version`, `set_stereo`, `toggle_stereo`, `get_socket_config`, `single_read` | transport; the device's replies |
| Direct I/O and commands (`device.rs` 305-399, 574-729, 936-962) | none; between the calls, the transport's lock and the IN endpoint | `pause`, `mute`, ..., `single_write`, `write`, `write_cycled`, `read`, `single_read`, `send_raw`, `recv_raw`, `clear_in_halt` | transport lock, shared with the writer thread |
| Transport (`transport.rs`) | an open USB or serial handle, what it claimed | `send`, `recv`, `recv_timeout`, `clear_in_halt`, opening | the operating system |
| Protocol (`constants.rs`) | none | header bytes, `CLOCK_TABLE`, sizes, `sid_address` | |
| C interface (`ffi.rs`, `USBSID-Pico.h`) | none (a boxed `UsbSid`) | one function per method | |
| Timing (`device.rs` 914-929), errors, crate root, examples, `build.rs` | `last_time`, never read | | |

Where the difficulty lies:

* **Concurrency.** Two threads share the ring without a lock and flags with one.
  A record is several `put` calls, a drain several `get` calls, and `get` does
  not look at the write cursor: the tests that precede it must still hold when
  the last byte of a record is taken.
* **Ordering.** Records collected below the packet limit, the packets of a
  drain and the packets around a flush must leave in order; a flush is asked
  for with one flag and answered with another. On macOS a channel and a third
  thread come in between. Two threads that ask the device share one stream of
  replies.
* **Failure.** A send may fail, fail after the data went out, or write less
  than asked; a thread may fail to start; a reply may come after its timeout, or be longer
  than the buffer, which halts the endpoint; a device may be plugged in but not
  be usable.
* **Stopping.** `close` joins a thread that may be draining, and waits for a
  counter; on macOS the joined thread joins another one first.
* **Boundaries.** The wrap, the one free slot, `abs_diff` of the cursors, the
  packet limit, sizes that are no multiple of a record.
* **Staleness.** What was learned from a device outlives the connection to it.

What makes each component correct: the ring is a bounded FIFO without data
races; threaded writing is a pipe of whole records, each sent once and in order,
in which a completed flush has sent everything; the ring has one consumer, which
exists exactly when the driver says so, and stopping it ends; an answer belongs
to its question and to the connected device; exchanges that do not overlap stay
in step; a closed or freed driver occupies nothing. The hazards in `PROJECT.json` list
where each of these could break.

## 2. Modules

| Module | Models | Uses |
|---|---|---|
| `RingIndex` | the cursor arithmetic of the ring, as pure operators | |
| `RingBuffer` | the ring at the grain of its memory accesses | `RingIndex` |
| `ByteFifo` | abstract: a bounded byte queue | |
| `WriterThread` | client thread, writer thread, ring, flush protocol, transport outcomes | `RingIndex` |
| `MacWriter` | the macOS writer, its channel and its I/O thread, with the client, ring and flags of `WriterThread` | `WriterThread` |
| `RecordPipe` | abstract: a pipe of records with flush and close, implemented by both writers | |
| `Opening` | how a device is found: scan, claim, set-up, fall-back to the serial port | |
| `Lifecycle` | a driver's life from `new` to `drop`: connection, thread, spawn failures, ring reconfiguration, the bus | `RingIndex`, `Opening` |
| `DeviceQueries` | queries, caches, clock, the device (external) | |
| `DirectIO` | synchronous calls by several threads: transport lock, borrows, replies, halts | |
| `RingIndexProofs`, `RingBufferProofs`, `LifecycleProofs`, `DeviceQueriesProofs`, `DirectIOProofs` | theorems about the module of that name | that module |
| `WriterThreadProofs` | theorems about `WriterThread` that hold for every client | `WriterThread` |
| `WriterPipeProofs` | theorems about `WriterThread` for a disciplined client | `WriterThreadProofs` |
| `MacWriterProofs` | theorems about `MacWriter`, for every client and for a disciplined one | `MacWriter`, `WriterPipeProofs` |
| `MC*` | the values of the constants for TLC | |

Operators that start with `(* Mutant: ... *)` are not part of a model. Each is
one definition of the code, changed the way a slip would change it, and shows
that the property it is listed with in `PROJECT.json` can be broken.

**RingBuffer.** `PutBegin`, `PutStore` and `PutPublish` are the load of
`read_pos`, the store into the cell and the store of `write_pos` in `put`;
`GetLoad` and `GetAdvance` the load of the cell and the store of `read_pos` in
`get`. Acquire loads and release stores make this interleaving semantics the
right one: what a side reads after it saw the other's cursor is what the other
had written before. `Reconfigure` takes `&mut self` in the code, so it happens
only between calls. The refinement maps the bytes between the cursors to the
queue of `ByteFifo`: `PutPublish` enqueues, `GetAdvance` dequeues, `Reconfigure`
empties. Not modelled: that `put` and `get` form references to the whole `Vec`,
which Rust's aliasing rules do not allow while the other does too; the outcome
modelled is that of the machine code, which touches one cell.

**WriterThread.** One client thread. `Write(n)` begins a call for `n` records
(`write_ring*` one, the batch several), `PutByte` is one `put` of it,
`NextRecord` goes on with the next record or returns. The writer's steps follow
`writer_thread_default`: `CheckRun`, then `LockShared` or `StartWait` and `Wake`
(the critical section, with the timed wait in the middle), `PreFlush`, the drain
loop `TestRing`, `GetByte`, `SendFull`, then `PostFlush` and `AnswerFlush`.
`Transmit` is one packet with its retry, under the transport lock. A byte is
known by its record and its place in it, so a packet shows what happened to the
records. `get` is one step and `put` is one step: `RingBuffer` shows that they
behave like that. A notification has no step, because both waits are timed.
Data that does not influence control (the header byte, `out_buf`, the zeroing
of buffers) is left out; that a packet's length fits the header is `PacketsFit`.
`init_thread` turns cycles on whatever was asked for (section 3), so `RecLen = 4`
is what a build does today; `RecLen = 2` is the code's other branch, which
`WriterFree` takes, and `MacWriter`, to keep its instance small.

**MacWriter.** The client's actions, the wait for work, the drain's condition and
the answer are those of `WriterThread` (`ClientStep`, `SameAsDefault`). The rest
of the writer is its own: `GatherPartial` moves what earlier rounds collected to
`mega_buf`, `EndPacket` closes a packet and queues it or, in a flush, appends it
to `mega_buf`, `QueueMega` hands the flush over, `JoinIo` waits for the I/O
thread. Only a client that overruns the ring can make `QueueMega` meet an
unfinished packet, which it then drops as the code does. The I/O thread is `IoReceive`, `IoSend` (one transfer and one retry, under
the transport lock) and `IoDisconnected`. It may have failed to start
(`iopc = "none"`), which the code ignores. Its properties say exactly what a
flush means on macOS: the records are in the I/O thread's hands, and go out
unless the driver is closed first.

**Lifecycle.** Client calls are one step, except that `stop_thread` waits twice:
`StopBegin` clears the flag, `JoinThread` returns from the join, `StopEnd`
leaves the yield loop and does the rest of the call. A writer drops what it
shares (`LeaveLoop`) before it lowers the count and ends (`EndThread`). In
between, the drain for a flush (`BeginDrain`, `EndDrain`) does not look at the run
flag, and nothing says that it ends. `Free` is `close_USBSID` and `Drop`; `Create`
makes the next driver. `Opening` says which devices an `init` may end with, for
every condition of the bus (absent, not to be opened, claimed by another program,
failing while it is set up, ready) and of each serial port (none, free, shut: not
permitted or in use), and for every set `up` of backends that get as far as a list
of devices: libusb may not start, and either list may not be had. The order of the
scan is left open. `BusChange` and `PortChange` change these conditions at any
time, a device in use included. What a connection occupies (`held`) excludes another
one: interfaces are claimed, a port is opened exclusively. A kernel driver that
was detached on Linux is not attached again, so the device has no port until it
is plugged in anew.

**DirectIO.** Calls are `Begin`, one of `Send`, `SendShort` and `SendFails` (before
or after the command went out), `LockToRecv`, then one of
`RecvReply`, `RecvHalted`, `RecvTimeout`; `send_raw` and `recv_raw` are one
exchange with a pause in which the thread holds no borrow ("owed"). The driver's
own buffers are `Capacity`; those of `recv_raw` and `recv_raw_timeout` are their
callers' choice (`Buffers`), and may be too short. `MayBorrow`
is what Rust's borrow checker lets threads do at once with one `UsbSid`:
`&mut self` calls (`read`, the configuration calls, `write`, commands) exclude
all others, `single_read`, `single_write` and the raw calls do not. A command
and a reply are known by the thread and the call they are for, and a reply by
its length, which is what decides whether it halts the endpoint. A wire keeps
its order. Results are "own" or "other" (whose answer it is), "zero" (a failure
the caller reads as 0) and "error".

**DeviceQueries.** A question is a send and a receive with the device
(`DeviceStep`, external) in between; replies are a queue that nothing ties to the
questions. What a close leaves unread may or may not be there after the next
open; the next open may find the same device as it was left, one of its kind
after a power cycle, or another. Clock rates are table indices. Of a reply its
length and first byte are kept: the length decides whether it fits the buffer of
the call that takes it (`Capacity`: 1 byte in `single_read`, 10 in
`get_socket_config`, 64 in the rest). One that does not fit is lost and halts the
endpoint, and every later recv fails (`RecvHalted`) until `ClearInHalt`. A send
may fail before or after the command went out, or be short (`SendBehind`).

## 3. Runs

Every bound is a constant. The code's sizes are scaled down so that wrapping,
full rings, several packets per drain and partial packets happen within a few
records; what matters is kept: `PacketLimit + RecLen <= LenOut + 1` with equality
(61 + 4 = 65 in the code, 9 + 4 = 13 here), a packet holds two or three records
(15 in the code), the ring more than one packet, and `DiffSize` is one record.

Passing:

| Run | Instance | Shows |
|---|---|---|
| `RingBuffer` | rings of 3 to 5 cells, 3 byte values | `TypeOK`; `NoDataRace`; `ImplementsFifo`, for all interleavings of one `put` and one `get` and resizes |
| `WriterPaced` | records of 4, ring 16, 6 records, 2 errors; the client keeps within the ring and calls nothing while a flush is served | `NoUnderrun`; `FlushDrained`; `ImplementsPipe`: whole records, once, in order |
| `WriterFree` | no discipline at all, records of 2, ring 8 | `PacketsFit`, `LossIsCounted` hold even when the ring overflows |
| `WriterLive` | records of 4, fill at most 11 of 15, no timeout of `flush` | `FlushAnswered`, `CloseTerminates`, `DrainsAboveThreshold` |
| `MacWriter` | records of 2, ring 6, packets of 2 or 3 records, 4 records, 2 errors; the I/O thread may not start | `MacPacketsFit`, `NothingMislaid`, `FlushHandsOver`, `LossIsCounted`, `QuietWhenClosed`; `MacImplementsPipe`; `CloseTerminates`, `FlushedGoesOut` |
| `Lifecycle` | two devices with their ports, both backends, any of which may fail to list them, a detaching kernel, 2 opens, 2 spawns of which any may fail, sizes below and above the minimum | `OneConsumer`, `StartsExclusive`, `FreedIsQuiet`, `NotFoundIsJustified`; without a failed spawn `ThreadsAgree`, `ReleasedWhenClosed` and, if drains end, `StopTerminates` |
| `Queries` | two kinds of board, two sessions, two rates in the clock table, configuration replies of 64 bytes, 2 commands on the wire; one send that fails or is short or one late reply, and one more recv that a halted endpoint fails | `BacklogBounded`; in an undisturbed session `CachesTrue`, `StereoOnlyV13`, `ClockInSyncUnlessProbed` |
| `DirectIO` | two threads, every kind of call, 4 calls, 2 commands on the wire, one fault (a send that fails or is short, or a late reply), configuration replies of 64 bytes, raw receives of 64 bytes or 1 | `LeftOverByFailure`; `StaysInStep`; `CallsReturn` |

Two conditions restrict properties to what the code can keep. `Leaked` says
that a spawn has failed and left `thread_count` raised; the run has such states,
and checks in them what holds regardless. `DrainsEnd`, the premise of
`StopTerminates`, says that no drain goes on for ever: one that does, after an
overflow tore a record, keeps `close()` waiting (below), and `CloseTerminates`
shows for a client that does not overrun the ring that it does not happen. `Undisturbed` says that this is the
first session and that no send failed or was short and no reply came late; the caches of a
second session may be another board's. In `DirectIO` the condition of
`StaysInStep` is about the step itself: no fault, no second thread that
waits, and no `recv_raw` that asks for less than its reply has (`RawOverflows`). It holds again after any disturbance, once the left-over replies are
drained and the halt is cleared; what a disturbance leaves over is the subject
of `LeftOverByFailure`.

The bounds suffice because six records wrap the ring (it holds three) and let
the writer hold a partial packet, send full ones and be flushed in each of these
states; two errors are a failed send and its failed retry; two spawns are a
start and a restart or a second session's start, and either may fail; a late
reply has another question to meet, in the same session and in the next, and the
one late reply that is a configuration's halts the endpoint when it meets a
register read. Four records wrap
the ring of the macOS run and let one be with the I/O thread while others are in
`mega_buf` and `thread_buf`. Two devices are one that is found and one that
the scan should have gone on to. Four calls are two overlapping exchanges, or one
that is disturbed, one that takes its left-over, a drain and a `clear_in_halt`;
six calls and two faults, too many to finish, were searched breadth-first without
a violation. The proofs (section 4) remove the bounds for every invariant and
action property and for the refinements; only the liveness properties rest on them.

Fairness: `WF(Writer)` and `WF(InCall)` say that the operating system runs both
threads and that a call, once made, goes on. Whether the client makes another
call is never assumed. In `Lifecycle` it is `WF(WriterExit)` and `WF(Stopping)`:
threads are scheduled. It asks nothing of drains. `MacWriter` adds the I/O thread. In `DirectIO` it is
`WF(Step(t))` for every thread, which contains the timeout of `recv` (the
backends are called with one; a `recv_raw_timeout` of 0 ms, which libusb takes for
no limit, is left aside), and `WF(DeviceStep)`: the device takes what it
is sent. Weak fairness is enough for the transport's mutex there because each
call holds it once and a thread makes a bounded number of calls; nothing is said
about a thread that others overtake for ever. `WriterLive` excludes the 100 ms
timeout of `flush` so that the answer has to come from the writer.

Violations, each with a finding in `PROJECT.json` that quotes the line it
contradicts:

| Run | What happens |
|---|---|
| `WriterTorn` | a record is stored in part when one to three slots are free, and the call answers `Ok` |
| `WriterOverlap` | the drain of a flush meets a record half written and reads past the write cursor |
| `WriterNearlyFull` | the writer sleeps on a nearly full ring, because `has_data` takes the distance of the indices |
| `QueriesClock` | setting the rate found at the start is skipped although the device runs at another |

Other disagreements, seen while modelling and reproducible with the models when
the named constant or property is changed:

* `flush()` may end with the answer to an earlier `set_flush()`: `flush_done` is
  one flag for all of them (`device.rs:851`, `device.rs:859`). With `OverlapsFlush`
  `FlushDrained` fails.
* A spawn that fails leaves `thread_count` raised (`device.rs:1016`); the yield
  loop of the next `close()` that has a thread to stop never ends
  (`device.rs:1065`). Drop the condition `~Leaked` from `StopTerminates`.
* A configuration reply that comes too late and meets `single_read`'s one byte
  halts the endpoint (`device.rs:633`, `device.rs:645-649`): from then on every
  question fails and is remembered as 0 until the host calls `clear_in_halt`
  (`DeviceQueries`: `RecvHalted`), and replies pile up. `BacklogBounded` counts them.
* With a `RingSize` that is no multiple of the record (18 with records of 4),
  `NoUnderrun` fails without any flush: on a wrapped ring `has_data` can hold
  with less than a record unread (`ringbuffer.rs:81`).
* After an overflow tore a record, a flush's drain takes whole records and may
  step over the write cursor for ever; `close()` then joins for ever. Take
  `WriterLive` with a client that overruns the ring, or drop the premise
  `DrainsEnd` from `StopTerminates`.
* A spawn that fails in `init` leaves the transport held with the port closed
  (`device.rs:206`), so no later `init` can open the device. A spawn that fails
  in `enable_thread` leaves `run_thread` set, and the next call answers `Ok`
  without a thread (`device.rs:827`). These are the states `Leaked` excludes.
* `init_thread` sets `with_cycles` whatever was asked for (`device.rs:1003`), so
  `write_ring` is refused with `WrongThreadMode` in the mode it is documented
  for (`device.rs:184`, `device.rs:736`).
* Permission and busy errors, which the USB backend tells apart
  (`transport.rs:87-95`), all come out of `init` as `DeviceNotFound`
  (`device.rs:250`).
* On macOS `flush_done` means that the records are queued, not sent, and a close
  drops what is queued (`MacWriter`: `FlushHandsOver`, `FlushedGoesOut`).
* Two threads in `single_read` can get each other's answers: drop the condition
  on `Awaiting` from `StaysInStep`.
* `writer_errors` is documented as counting since `init()` (`device.rs:286-287`)
  and never reset.
* `close` keeps all caches (`device.rs:262`); a timeout is cached as the answer 0
  and the late reply answers the next question (`device.rs:656`): `CachesTrue`
  fails without `Undisturbed`.
* The second `get_socket_config` answers `None` on a healthy port
  (`device.rs:552`).

The positive runs and the findings fit together: `WriterPaced` shows that the
design works for a client that leaves room in the ring, uses record-aligned
sizes and does nothing while a flush is under way; the findings are what
happens when one of these is dropped, none of which the API asks for.

## 4. Proofs

Every invariant, action property and refinement that a passing run checks is
also a theorem, for every value of the constants that the assumptions allow
(`RingAssumption`, `WriterAssumption`, `LifecycleAssumption`, `QueryAssumption`,
`DirectIOAssumption`: sizes are naturals, a ring has two cells or more, a packet
limit leaves room for a record, a reply is a packet at most, there are finitely
many threads).

* `RingIndexProofs`: lemmas on the cursors (`AdvanceWraps`, `FullAndEmptyExact`,
  `PutAddsOne`, `GetRemovesOne`, `UnreadCells`), and `HasDataMeaning`: what
  `has_data` really says about the number of unread bytes.
* `RingBufferProofs`: `TypeCorrect`, `RaceFree`, `Refinement`. `NoDataRace` is
  not inductive: one has to know that the producer past its test still has a
  free cell and the consumer past its test still has an unread one, since the
  other side only ever makes more of them. With that, `write_pos = read_pos`
  would mean an empty ring, which the consumer excludes. The refinement proof maps each
  step to its step of `ByteFifo` or to a stutter; that the queue of unread bytes
  changes as it should follows from the lemmas on `Slot` and `Unread`.
* `WriterThreadProofs`: `TypeCorrect`, `FramingCorrect`, `LossCounted`, for every
  client, one that overruns the ring included. The invariant ties
  `Len(thread_buf)` to a multiple of the record length plus the bytes taken of
  the current record, and bounds it by where the writer is: below the limit when
  a record begins. Products with `RecLen` are nonlinear, so lemmas (`Scale`,
  `Distribute`, `ModSucc`) state the two facts about them that are used.
* `WriterPipeProofs`: `NeverUnderruns`, `NeverTorn`, `FlushDrains` and
  `PipeRefinement`, under the hypothesis `Disciplined`: the client leaves room in
  the ring for what it writes and calls nothing while a flush is served, the
  ring holds a whole number of records, and the threshold is no smaller than a
  record less a byte. The instances of `WriterPaced` and `MacWriter` satisfy it
  (`MCDisciplined`). The API asks for none of it, and none of it can be left out:
  `WriterPaced` with `MaxUnread = 16`, with `OverlapsFlush = TRUE`, with
  `RingSize = 18` and `MaxUnread = 17`, or with `DiffSize = 2` violates
  `NoUnderrun`. The invariant, `PipeInv`,
  counts bytes. `Content`: what was sent, what `thread_buf` holds and what is
  unread in the ring are, in this order, the bytes that were stored, and each of
  them is the byte of its record that it should be. `Aligned`: a record starts
  at a multiple of its length, so it never wraps. `Room`: the rest of a call
  fits. `Ready`: a record that the drain has begun is there to the end, without
  a flush because `has_data`'s distance of the indices is then a lower bound of
  what is unread, with one because `Phases` keeps the client out of the middle of
  a record. `Flushed`: once the flush's drain has ended, nothing is left but what
  `thread_buf` holds. The refinement maps what lies between client and transport
  to the queue of `RecordPipe`.
* `MacWriterProofs`, for every client: `MacTypeCorrect`, `MacFramingCorrect`,
  `MacLossCounted`, `QuietAfterClose`. `BufferLevels` says how full `thread_buf`
  may be where and that what is queued is whole records, `Stops` in which order
  the threads end. For a disciplined client: `MacNothingLost`,
  `MacFlushHandsOver`, `MacPipeRefinement`. `PipeInv` is reused as it is: the
  client and the ring are the same, only what counts as gone differs, which is
  why it takes the last record that left `thread_buf` as a parameter. From there
  to the transport, `Linked` says that each buffer continues where the one before
  it ends.
* `LifecycleProofs`: `TypeCorrect`, `SingleConsumer`, `ExclusiveStart`,
  `ModeIsTrue`, `ClosedReleases`, `FreedLeavesNothing`, `NotFoundJustified`. The
  invariant: there is at most one thread, it is the one the handle names, it was
  given the current ring and connection, and between calls it exists only while
  the run flag is set. A call that finds the flag clear, or that has joined,
  therefore finds no thread. It holds with failing spawns too; the two properties
  that except them need that the count is never below the number of threads.
  Nothing is assumed of the bus, nor that a drain ends. `NotFoundJustified` follows
  from what each backend's failure means (`UsbFails`, `SerialFails`) and holds for a
  crate built with either backend, both or none, whichever of them can list the
  devices.
* `DeviceQueriesProofs`: `TypeCorrect`, `CachesAreTrue`, `StereoIsSafe`,
  `ClocksAgree`, `BacklogIsBounded`. `CachesTrue` is not inductive: the reply that
  waits must be the answer to the question being asked. `AskedOnce` says that a
  question is the last command on the wire and, once answered, its answer the
  only reply; `ClockInv` follows a rate from the driver through the wire to the
  device. `BacklogBounded` needs neither: it counts, in every session and
  through closed ports too (`Backlog`), with lemmas on what sending and handling a
  command does to the number of questions on the wire. A recv that fails though a
  reply is coming, in a halted endpoint too, is a failure that it counts. That
  `CachesTrue` is not disturbed by a halt needs that a reply fits the question it
  answers, which is the only one that can take it in an undisturbed session.
* `DirectIOProofs`: `TypeCorrect` (which says that no call returns with the lock
  held), `InStepStays` and `LeftOversAccounted`, for any number of threads, calls
  and faults. `InStep` counts questions and replies; `Plain` puts it without
  counting (nobody waits and the wires are empty, or one thread waits for the one
  question or the one reply there is), and each action keeps that. `LengthInv`,
  that a reply fits the driver's own buffer for the call it answers, is what keeps
  the endpoint open; what callers of `recv_raw` ask for is theirs. `LeftOversAccounted`
  compares, step by step, the questions, the replies and the threads that expect
  one; a failed send that went out all the same is one of its cases.

Only model-checked: the liveness properties (`FlushAnswered`, `CloseTerminates`,
`DrainsAboveThreshold`, `StopTerminates`, `FlushedGoesOut`, `CallsReturn`), which
the prover cannot reach because they rest on fairness.

## 5. Not modelled

* Header bytes and `sid_address`: pure functions on bytes that nothing else in
  the driver depends on. Packets are known by the records in them.
* The timing helpers (`wait_for_cycle` and `sync_time` read the clock and
  busy-wait; nobody reads `last_time`), error types, logging.
* The serial port's byte stream, in which two replies can run together, and
  `try_clone`, which nothing calls. `DirectIO` is about the USB backend.
* Descriptors and baud rates: calls of external libraries, of which `Opening`
  keeps the outcome.
* `ffi.rs` beyond making, initialising and freeing a driver: null checks around
  the methods, and casts of sizes that C passes as `int`.
* The examples: users of the driver (a 6502 emulator, a tune generator).
* A poisoned mutex: no thread panics while it holds one (`PacketsFit` and
  `MacPacketsFit` are the indices that could).
* A direct call while the writer thread sends: both lock the transport for one
  transfer, and the modes that would interleave them are excluded by
  `ThreadsAgree`; commands, which are not, are independent of the records.

## 6. Plan

1. Done: ring, both writers, lifecycle with opening, queries, synchronous I/O,
   with a theorem for each of their safety properties and refinements.
2. Composition of `Lifecycle` and `WriterThread`: records written around
   disable, restart and size changes; then that a thread `Lifecycle` starts finds
   the ring empty, as `WriterThread` begins.
