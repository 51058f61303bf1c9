# deltamodels in TLA+

A verification development for the SystemC models of this repository: TLA+
modules of the components, TLC configurations that check them on small
instances, and theorems checked by TLAPS for every value of the constants.

## The system

deltamodels is a library of header-only SystemC blocks. A testbench or a
co-simulation instantiates them, wires their ports with `sc_signal`s and binds
their TLM sockets. Three mechanisms connect them:

* **Clocked signals.** An `SC_METHOD` reads the signals as they were before the
  edge and writes them for the next one (evaluate, then update). Processes of
  one edge run in any order.
* **Blocking TLM calls.** An initiator thread calls `b_transport` through
  sockets; the call may `wait` and is then interleaved with everything else.
* **Events.** `sc_event::notify()` is immediate: it wakes the threads asleep on
  the event at that moment and is not remembered.

The kernel is cooperative: a process runs to its next `wait` or to its end. An
`SC_REPORT_ERROR` throws (the simulation stops, no process runs any more) and an
`SC_REPORT_FATAL` aborts, with the default report actions.

### Inventory

| component | state | operations | what is hard | what makes it correct |
|---|---|---|---|---|
| `TLM2WB` (tlms/tlm_adapters) | handler state, shared transfer members, elapsed count, Wishbone outputs | `b_transport`, `wishbone_handler`, `setTimeout` | a thread and a clocked method share members and an event; overlapping callers; timeout racing the acknowledge; streams | no wakeup lost, no access outside the caller's buffer, request held until acknowledged, every call ends, each word transferred once (the distance between the addresses of a stream is the code's) |
| `WBRAM` (models/wishbone) | word map, `n_tran`, counters | `handleop` | an access takes two edges; master may misbehave | one acknowledge per access, a held strobe is answered, bounds |
| `Initiator` (tlms/commons) | request members, `we`/`re` | `pwrite`, `pread`, the `_initiator_do*` helpers | a trigger that comes while the thread is blocked is lost; the helper waits 21 ns | each request is issued once with its own members |
| `TLMRouter` (tlms/tlm_router) | address map | `setInitiatorProperties`, `b_transport`, `decode_address` | overlapping regions, masks, address rewritten in the payload | an address reaches exactly the memory cell its region means |
| `Memory` (tlms/commons) | words, `wr_ops`/`rd_ops` signals | `b_transport`, DMI, debug | counters written by several threads, bound check | a write is read back, counters count |
| `tlm_rom` (tlms/tlm_memories) | constant bytes | `b_transport` | only the start address is checked | the bytes inside the image are read, writes and addresses outside it are reported; of a read that ends beyond it nothing is promised for the rest |
| `GenericSDRAM` (models/memories/sdram) | open row, banks, read buffer, backdoor copy | command decoding, `sdram_handler`, backdoor | pipelined reads, masked writes, commands with A10, overlapping copies | each command acts on the cell by row, bank and column, each word read is returned once, byte 0 is kept when masked, copies are moved whole; the code keeps neither the order of waiting reads nor the other masked bytes |
| `N25QX` (models/memories/flash) | phase, counters, command, address | `flash_handler` | deselection in the middle of a command | every answer comes from the configured memory, at the edge a count from the selection gives |
| `ClockGen` (models/clocking) | durations, edge counts | `clk_gen`, `measure_edges` | integer division order, level read as edge, waits of no time | the first high phase measured, the ratio kept for ever, time goes on |
| `EthBridge`, `mock_gmii` (models/network) | transmit and receive state machines, buffers, peer address | `linkup`, `transmit`, `pack`, `receive`, `send_pkt` | packets back to back, buffer limit, receive overwriting the peer | packets that fit are sent whole, once and in order; each datagram is taken and counted once, apart from the next; its bytes reach the bus last one first and one place off |
| OR1K decoder and tracers (models/wishbone/or1k) | opcode table | `parse`, `check_opcodes`, `trace` | opcodes that shadow each other, operands cut out of the code, an exception in the middle of a trace | which words are one instruction, operands apart from the code, the lines before the exception kept |
| `FDPE`, `tristate`, `ClkCast`, `BvToBool`, assertions | a flip-flop, wires | one method each | - | - |
| logging: `setup_logger` of the models, on the vendored spdlog | loggers and default logger, flush thread, rotating files and their streams | `get`, `set_default_logger`, `flush_every`, a line, a rotation, the end of the program | the one part with real threads: flush workers that come and go against the simulation; files that outlive a crash; renames that fail | every logger asked for is there, one flush worker, nothing deadlocks, each log keeps its lines in order |

## Modules

| module | models |
|---|---|
| `WishboneBus` | the wires between a master and a slave: bytes, lanes, words, what each side drives |
| `TLM2WB` | tlm2wishbone.hpp: the callers' `b_transport` and the clocked handler, under a slave that answers as it likes |
| `WBRAM` | wbram.hpp: the memory under a master that follows no protocol |
| `BlockingTransport` | no code: what a caller is promised, without clock or bus |
| `WishboneSystem` | the two wired together as test_wishbone_adapter.cpp wires them; implements `BlockingTransport` |
| `Initiator` | initiator.h: the two threads and the helpers a testbench calls, with `b_transport` left as a parameter |
| `TLMRouter`, `Memory`, `TLMROM` | tlm_router.hpp, memory.h and tlm_rom.hpp, called by the thread of an initiator |
| `AddressSpace` | no code: a flat space of words, each helper call served once |
| `RoutedSystem` | initiators, router, memories and ROMs wired as test_multiport.cpp wires them; implements `AddressSpace` |
| `SDRAMArray` | no code: the command table at the top of generic_sdram.hpp, over cells by row, bank and column |
| `GenericSDRAM` | generic_sdram.hpp: command decoder, data pipeline, backdoors, address arithmetic; implements `SDRAMArray` |
| `EthBridge` | ethbridge.hpp between the MAC of mock_gmii.hpp and a raw socket |
| `QuadReadFlash` | no code: what a bus master may rely on, as a count of edges since the selection |
| `N25QX` | N25QX.hpp: `flash_handler` and `configure_region` under any bus master; implements `QuadReadFlash` |
| `ClockGen` | clockgen.hpp with the kernel's evaluate, update and time steps under it |
| `Or1kDecoder` | or1k_defs.hpp and or1k_decoder.hpp: the ninety descriptors, the search through them, the operands shown |
| `PersistentLog` | no code: a log that keeps its lines in order and gives up the oldest |
| `RotatingFileSink` | spdlog's rotating file sink and its stream, with failing file operations and crashes |
| `Logging` | the models' `setup_logger`, spdlog's registry and flush thread, the tracers' methods, and runs of the program one after the other |
| `LoggingRefinement` | each log of `Logging` implements `PersistentLog` |
| `TLM2WBProofs`, `WBRAMProofs`, `WishboneSystemProofs`, `InitiatorProofs`, `RoutedSystemProofs`, `EthBridgeProofs`, `DeviceProofs` (flash, ClockGen and SDRAM), `LoggingProofs` | the theorems |
| `MC*` | the constants of the small instances |

### TLM2WB

The members of the C++ class are variables of the same names. A thread of
initiators is in `pc`: idle, `waiting` (in `wait(ack_event)`) or `woken`
(notified, still to run). `BeginTransport` is `b_transport` up to the first
`wait`; `FinishTransport` and `NextBeat` are what follows a wakeup, to the
return or the next `wait`. The cases of `wishbone_handler` are `IdleEdge`,
`DriveWrite`, `DriveRead`, and for WAITING_FOR_ACK `NoAck` and `Acked`, each
with the elapsed test that ends the case in the code.
`ClockEdge` commits what was written to the signals and starts the next edge; it
is enabled only when the handler and all woken threads have run. `ptr` is an
offset into the buffer of the thread that set it; `byt` moves with `ptr`, so it
is only whether there are byte enables. Reading or writing past the buffer is
undefined behaviour, and the model stops there (`StrayPointer`).

Payloads are the supported ones: data length 4 (the class comment says "only 32
bits operations") and a streaming width of 0 or of whole words. `Exclusive` says
whether the callers take turns. They do in the repository's tests as long as a
stream has at most six words (see Initiator). With `Exclusive = FALSE` calls
overlap freely: a second `b_transport` before the acknowledge overwrites the
shared members, its acknowledge wakes both callers, and the first transfer is
lost. No document promises otherwise, so no property says so; what must survive
is that both callers return and the bus is released.

### WBRAM

`handleop` is split by its conditions: `NoStrobe`, `EndAccess` (the `else` of
`if (!n_tran)`), `Write`, `Read`, `Abort`. `memory` is the `std::map`, a function
from the addresses written so far. A location never written reads as ones,
because `set_bit(i, 'X')` sets the bit.

### WishboneSystem

Every step of the system is a step of one side, except `ClockEdge`, which is the
conjunction of the two sides' clock edges: each reads what the other has written.
The refinement mapping to `BlockingTransport` counts a written word from its
access in the memory on and a read word once it is in the caller's buffer;
between the two, on a read, the memory's counter is one ahead of the promise.
The abstract module computes buffer bytes and lanes on its own from the request and
the number of words done, so the bridge's `ptr`, `wid` and the lane swaps are all
checked by the refinement, for reads, writes, byte enables and streams, and the
operation counters make a repeated access visible. Of the addresses of a stream it
says that they start at the request's and go on in even steps; the step (`Stride`)
is the code's, and no run or theorem says that it is the right one.

### Initiator

`main` is the testbench inside `_initiator_dowrite` or `_initiator_doread`: it
sets the members, raises `we` or `re`, runs the simulation for 1 ns, drops the
strobe and runs it for 20 ns more. Times are whole nanoseconds. A thread of `pc`
waits for a rising edge, is triggered by one, or is blocked in `b_transport` for
one of the times `CallTimes` gives its payload; a rising edge that finds it
blocked is lost. The payload is kept only while a call is blocked, because that is
when the members can change under it. The read
helper ignores the width it is asked for and leaves the byte enables of an earlier
write in the members; `Doread` has both, and `Payload` shows that a read does not
pass the byte enables on.

With TLM2WB at a clock of 1 ns behind it a word takes three edges. Streams of six
words return inside the 21 ns of a helper; with seven words the next helper call of
the same thread is lost, and one of the other thread overlaps.

### RoutedSystem

`b_transport` of `TLMRouter`, `Memory` and `tlm_rom` never waits, so a call is one
step of the initiator's thread: `Forwarded` decodes, rewrites the payload's address
with the region's mask and calls the target. `Memory` keeps its words and two
`sc_signal` counters; SystemC lets one process only write a signal, so a second
thread that counts is a report and the end (`MayCount`). Words nobody has written
are not initialised and hold anything of `Garbage`. An access outside `mem`
is undefined behaviour, and the model stops there (`stray`). A ROM read that starts
inside the image and ends outside is one too, but a read only: the call returns OK
and the bytes from outside may be any (`ReadPastImage`).
The mapping to `AddressSpace` takes an address through the address map to the
cell of its memory; the abstract module knows nothing of targets or masks. Where the
code leaves the words it has, the space promises less than one would like, and says
so: of the word in which an image ends, the bytes of the image (`ReadTail`), and after
an access to the word that follows a memory, nothing (`BeyondMemory`).

The address map does not change: the testbenches call `setInitiatorProperties`
before they start. DMI and `transport_dbg`, which nothing calls, are left out.

### GenericSDRAM

A step of the model is a clock cycle: the controller changes its pins while `ck` is
low and `sdram_handler` samples them when it rises; the backdoor signals change
with a step of their own. `mem` is the `std::map`, a partial function: a read
inserts the key it does not find. `agg` is the decoder's value, in which bit 10 of
the address is part of the opcode for every command. `configure_region` acts on the initial state.

`dm` has its four bits, and reads may wait for their NOP as long as they like, in the
run `MaxReads` of them. The table the header of generic_sdram.hpp gives is therefore
weakened in `SDRAMArray` at the two points where the code departs from it: of the
bytes that are masked only byte 0 is sure to be kept, and any of the words that wait
is the next. What remains is that no other byte or cell changes, that byte 0 is kept,
and that every word read comes once.

The testbench is held to what the code needs and does not check: it does not change
one backdoor strobe while it holds the other (`Separate`), and no block is copied up
onto itself. `sdram_table` uses rows without bit 10.

### EthBridge

The processes of a clock edge (`mac`, `pack`, `transmit`, `receive`, before the
first edge `linkup`) run once each in any order and read the signals as they were
before the edge. `tx_buffer`, `tx_idx`, `sockstr` and the socket are not signals
and are read as they are. `transmit` is the process `pack` spawns. `receive` is a
thread: it is at its poll or inside the loop that puts a datagram on the bus. What
is sent on a raw socket comes back to it; `isEcho` recognises that by the sender.
A failing `socket` or `sendto` ends the simulation with a report; a `recvfrom`
that has nothing to return is polled again. `pack` does not check `tx_idx`: the byte
after the buffer (1024 bytes in the code) is undefined behaviour, and the model stops
there (`stray`); `TypeOK` says that only a packet longer than the buffer comes to that.

### N25QX

A cycle of the clock is three steps, as test_flash.cpp drives it: the bus is set, the
clock rises, it falls. What the master puts on `cs_n` and `dq` is free at every edge,
selections given up in the middle of a command included; `configure_region` may come
between two cycles, in the middle of an answer too. The cases of `flash_handler` are
actions of their own, split where `cnt` hands over to the next phase. `QuadReadFlash`
knows no phases: it counts rising edges since the selection, keeps what was on `dq` at
the first fourteen, and says from these alone when the flash drives `dq` and with what.

### ClockGen

`measure_edges` and `clk_gen` are threads that wait for times, so the kernel is part
of the model: `Update` ends a delta cycle and makes runnable who waits for no time,
`Tick` is a picosecond and is taken only when nothing is left to run (`Settled`). The
clock at `clk_i` is any clock, with its first level and the time of its first edge.
`lead` counts what the property speaks of: rising edges of `clk_i` times MULT less
those of `clk_o` times DIV.

### Logging and the OR1K tracers

The simulation is one thread. `todo` is what it does next: the construction of each
model of the test bench in turn (`Start`), in the place of which `Sink` puts the calls
of the model's `setup_logger`; then a line at a time; and at the end, or after an
exception, the registry's destruction. A line is several steps (size check, rotation
with one step per rename, open, write), because the file system and a crash can see
between them; the sink's mutex keeps the flush worker out until the line is done.
`flush_every` starts the new worker and then joins the old one, so that there are two
for a while. `flush_all` holds the mutex of the map from its first logger to its last,
and takes the mutex of each sink in turn. A failing rename is retried once, as in the
code; a second failure empties the newest file and drops the line. An open or a write
that fails throws into the logger, which swallows it. A crash may come at any moment;
the next run of the program finds the files. All lines have one size, which is the unit
of `max_size`.

`PersistentLog` sees of each log the lines in its files and in its buffer; one step of the
program is one of each log, since a crash or a `flush_all` is about all of them. A failing
operation may lose lines at both ends, and the line it was for, but never brings one
back or changes the order.

The tracers are models among the others: a word that is fetched is parsed and logged,
or, if no descriptor matches and `stop_on_invalid` is set, ends the simulation with an
exception out of the method. `Or1kDecoder` has words as sets of bits, and descriptors
as sets of bits that are looked at and that must be 1; which descriptors hide others
and which operands overlap the code is then a matter of sets, over all 2^32 words.

## Runs

| run | question | bounds |
|---|---|---|
| `tlm2wb_turns` | Does every call stay in its buffer, hold its request and end, whatever the slave does? | two callers; one word, two- and three-word streams, width 0, byte enables, an unsupported command; timeouts 1 and 3, changed at any time; `UIntMod` 64 |
| `tlm2wb_overlap` | What survives when calls overwrite each other's transfer? | the same, single words and two-word streams, timeout 2 |
| `wbram_any_master` | Is one access one acknowledge, and a held strobe answered, under any master? | three addresses (first, at `mem_size`, beyond), full and partial writes, counters modulo 4 |
| `system_transport` | Does the system implement the blocking transport, fairness included, and never time out? | two callers, memory of 5 words; a two-word stream, byte enables, reading back, a stream that runs out of bounds; timeout 3 |
| `initiator_window` | Is no trigger lost, and do calls take turns, when every call ends inside the helper's window? | two initiators; calls of one and six words, below address 32 to TLM2WB, above it to a target that answers at once |
| `routed_multiport` | Are two memories and a ROM behind the router one flat space, each call served once, fairness included? | two initiators; two memories of two words with masked bases, a ROM whose image ends inside a word; calls to each region, beyond the memory and to no region |
| `routed_memory_end` | Does the bound check keep accesses inside a memory? No. | one memory of two words in a region of 64 bytes |
| `sdram_table` | Does any sequence of commands and backdoor strobes act as the command table says? | two rows, banks and columns; masks 0 and 3; two reads at most that wait; seven words loaded; a copy down onto the words it overlaps, with and without a clear on the same strobe |
| `ethbridge_packets` | Does every packet that fits go out whole, once and in order, and is every datagram taken on its own and counted once, when both directions share the socket? | buffers of 3 bytes; packets of 1, 3 and 4 bytes, two at most; datagrams of 1 and 3 bytes, from the peer and from elsewhere, two at most; gap 2 |
| `n25qx_any_bus` | Is every read that the flash recognises answered from the configured memory at the edge it should be, whatever the master does? | four dummy cycles, nine nibbles read; eight commands and eight addresses; two regions, which may overlap |
| `clockgen_2_5` | Is the phase measured right, the ratio kept for ever, and does time go on? | MULT 5 and DIV 2, as the test has it; phases of 3 to 15 ps, which MULT divides or not; clocks that start high at any point of a phase |
| `logging_test_benches` | Do the logs keep their lines, and do the programs end, whatever fails? | benches of a flash and a router, of two flashes, of an SDRAM, of a CPU with both tracers; files of one line, three to a log; five lines over all the logs, two runs, one failing call or crash in all |

What the properties of a run say:

| run | properties |
|---|---|
| `tlm2wb_turns` | `StreamInStep`, `NoStrayPointer`: pointer, width left and request agree, and no access leaves the caller's buffer. `BusInStep`: handler, sleeping callers and strobe agree on whether a transfer is under way. `RequestHeld`: a request stays on the bus until it is acknowledged. `EveryCallEnds`: by acknowledge or timeout |
| `tlm2wb_overlap` | `NoLostWakeup`: no caller sleeps while the handler is idle. `StrobeFollowsState`: up while the handler waits, down when it is idle |
| `wbram_any_master` | `TypeOK` with the bound on the words stored; `AckIsPending`, `AckOnce`: one acknowledge per access; `HeldStrobeIsAcked` |
| `system_transport` | `SystemInStep`: where both sides are in a transfer; `NeverTimesOut`; `ImplementsTransport` |
| `initiator_window` | `CallsTakeTurns`: no two threads in `b_transport`; `CallCarriesRequest`: each with its helper's members; `TriggerIsSeen`: every edge finds its thread at `wait` |
| `routed_multiport` | `ImplementsAddressSpace`: every call reads or writes the word at its address, once, or ends the simulation; a word that is only in part in the ROM is read in that part |
| `sdram_table` | `ImplementsArray`: every command acts on the cell of the table, every word read is returned once |
| `ethbridge_packets` | `TypeOK` with the buffers' limits, which only a packet longer than the buffer leaves; `SentAsHanded`, `EveryPacketIsSent`: packets go out whole, once and in order; `FlagIsOfDatagram`, `EveryDatagramIsCounted`: datagrams are taken one by one, and each is counted once. Which bytes the bus shows is no property |
| `n25qx_any_bus` | `InStep`: phase and count follow from the edges since the selection; `AnswersFromMemory`: it implements `QuadReadFlash`; `EveryReadIsAnswered`: a read that is recognised; a flash that has heard any other command stays deaf (N25QX.hpp:70-84) |
| `clockgen_2_5` | `MeasuresFirstHigh`, `EdgesInRatio`, and `TimeGoesOn`: no waits of no time for ever |
| `logging_test_benches` | `ImplementsLog`, `FilesAreBounded`, `NeverWritesToNull`: the files; `GetFindsLogger`: every logger asked for is there; `OneFlusher`, `FlushesLiveLoggers`, `EveryLineIsFlushed`: the flush thread; `EveryRunEnds`; `OneInstruction`, `OperandsOutsideCode`: the decoder |

The bounds are the smallest at which the cases meet. Two callers are enough for
one to overwrite the other; a third only repeats it. A transfer passes through
every state of the handshake in three edges and a stream of two or three words
through every order of the members' updates; longer streams are covered by the
theorems. `UIntMod` only has to exceed every width: in the build it is 2^32, and
the wrap is reached only by overlapping calls, where the model stops at the
first stray access. The timeouts are below, at and above the two edges a WBRAM
needs. `LongMod` makes the operation counters finite; they are compared modulo 4.

Two initiators are what the single-writer rule and the shared strobes need; two
words, rows, banks and columns are the least at which an address arithmetic that
mixes two fields is seen. Three bytes are a packet that fills the buffer, with one
byte between its first and its last; one byte is a packet whose first is its last,
and four are one too many.

With one line to a file every line but the first rotates, and three lines fill a log:
the fourth gives up the first. The second run starts from any files the first has left.
A program that meets one fault meets it in every state there is; the second run shows
what it does to the lines of both. A rename that fails and fails again when it is
retried takes two: that is covered by `FilesStayBounded` and `LinesAreKept` alone, which
hold for any number of faults. In the flash the values on `dq` are free at the
edges that tell commands and addresses apart and fixed at the others; the edge counts
and the order of phases are free of bounds in the proofs.

**Fairness.** The kernel runs every process it has made runnable and then
advances time to the next clock edge, so woken threads, the handlers and the
clock edge are weakly fair; in `RoutedSystem` and `EthBridge` the kernel's steps
are weakly fair together, because each of them is taken before time goes on. No
caller is obliged to call, no slave to answer, no packet or datagram to come, and
`setTimeout` is not fair. In `ClockGen` the kernel runs as long as the simulation does.
In `Logging` the threads are the operating system's: each is scheduled in the end, and
a mutex that is free again and again is got in the end (a worker holds one for a moment
in each second), hence strong fairness for the simulation's calls and for each worker.
No model is obliged to log, sc_main not to return, and nothing to fail.

Deadlock is checked in every run but `logging_test_benches`, where the last run of the
program ends and nothing follows; that no run hangs before it is `EveryRunEnds`. A
simulation that was ended by a report stutters (`Stopped`).

### Where code and documents part

`routed_memory_end` shows a disagreement that changes memory: `adr > SIZE` accepts the
word address `SIZE`, and the `memcpy` that follows is outside `mem`. `WBRAM` has the
same comparison, but its map takes the word, and its `TypeOK` says how far it may go.

The others are modelled as the code has them, and no property says otherwise:

* tlm2wishbone.hpp:124: the elapsed test follows the acknowledge branch without an
  `else`; an acknowledge on the last allowed edge completes the transfer and is reported
  as missing. A WBRAM meets it with a timeout of 2 (`NeverTimesOut` begins above).
* tlm2wishbone.hpp:156: `adr` is a word address and is advanced by `len`, a byte count;
  the adapter test writes and reads with the same stride and cannot see it. It labels
  the words of its stream `check_@4`, `@8`, `@C` and `@10`
  (test_wishbone_adapter.cpp:36-39) where the bridge uses the byte addresses
  0x4, 0x14, 0x24 and 0x34. The stride is a parameter of
  `BlockingTransport`: nothing here says that it is right.
* tlm_rom.hpp:52-63: only the first byte of an access is checked. A read that starts
  inside the image and ends beyond it copies bytes from beyond the vector and returns
  `TLM_OK_RESPONSE`, although line 54 reports an address outside as an error.
* generic_sdram.hpp:166: `(byte_disable << i) & 1` is meant to be `>>`: bits 1 to 3 of
  the four-bit `dm` (line 54) mask nothing, and those bytes are overwritten.
* generic_sdram.hpp:136-138, 151: `read_buf` is filled and emptied at the same end, so
  of two reads before a NOP the second is answered first.
* ethbridge.hpp:135: `pack` stores at `tx_idx` without comparing it with `MAX_BUF_SIZE`.
* ethbridge.hpp:163-174: the bytes of a datagram of `n` bytes are shown as
  `rx_buffer[n]` down to `rx_buffer[1]`: the last first, one stale byte before it, and
  `rx_buffer[0]` never; for a datagram that fills the buffer the first access is outside.
  The flag of the last one is cleared in the evaluation that sets it, so a datagram of
  one byte never raises `rx_new_pkt`.
* generic_sdram.hpp:200: bit 10 is part of the opcode of every command, so an ACTIVE with
  bit 10 of the row set matches none; the table at generic_sdram.hpp:40 has no such
  condition, and test_sdram.cpp:215 configures twelve row bits.
* or1k_defs.hpp: `l.macrc` and `l.maci` are never found, because `l.movhi` and `l.j`
  come first and match their words; `check_opcodes` compares equal matchers only.
  `l.srli`, `l.srai` and `l.rori` show two bits of their code with the distance.
  `OneInstruction` and `OperandsOutsideCode` say that these are all.
* or1k_data_tracer.hpp:40 logs what the master drives for reads as well.

## Proofs

All theorems hold for every value of the constants, from the named assumptions of
the modules: any threads, requests (within `SupportedRequest`), timeouts, slave
data and memory sizes, any initiators, helper calls and address maps.

* `TLM2WBProofs`. `TypeCorrect`, and for overlapping callers too
  `NoWakeupIsLost` and `StrobeIsReleased`. For callers that take turns,
  `NoStrayPointer` is not inductive alone: it follows from `StreamInStep` (bytes
  done plus bytes left is the buffer, in whole words) when the handler works only
  while a caller sleeps, which is part of `BusInStep`. The three together
  (`Turns`) are inductive, give `StreamStaysInStep`, `AccessesStayInBuffer` and
  `BusStaysInStep`, and also the action property `RequestHeld`
  (`RequestIsHeld`).
* `WBRAMProofs`. `RAMTypeCorrect`; `AckIsPending` is inductive (`AckAlwaysPending`) and gives
  the action property `AckOnce` (`AckSeenOnce`).
* `WishboneSystemProofs`. Each side of the system takes only steps of its own
  specification (`SidesAsSpecified`: a step of the other side is a stutter, or
  the end of the simulation), so the step lemmas of the two modules above carry
  over. `SystemInStep` says where both sides are in a transfer, in either order of
  running on an edge; it is inductive with them (`StaysInStep`) and gives
  `NoAccessIsStale` and, for timeouts above 2, `TimeoutsNeverExpire`. `DataInStep` adds
  what is on the bus: address, data and lanes of a request are those of the beat that
  `ptr.off` stands for, and a word with an acknowledge is the word in the memory, which nothing
  else writes meanwhile (`DataStaysInStep`). From both, with timeouts above 2, every step of
  the two sides is a step of `BlockingTransport` or none (`TransfersAreImplemented`, the
  safety half of `ImplementsTransport`): the edge that reads an acknowledge is the
  round trip of one word, all others stutter.
* `InitiatorProofs`. Under the assumption that every call is answered inside a
  helper's window (`WindowAssumption`), the inductive invariant says that a
  thread off its `wait` belongs to the helper in progress and will be back before it
  returns. It gives `TurnsAreTaken`, `CallsCarryRequests` and `NoTriggerIsLost`.
  The first is what justifies `Exclusive` in TLM2WB.
* `RoutedSystemProofs`. `ImplementsSafely`: initial states map to initial states
  and every step to a step of `AddressSpace` or none, for any address map with
  disjoint regions whose masks take each address to its offset in the region
  (`ConfigAssumption`, which also asks that `Word` has a word for the bytes of every
  image, its last part included). The invariant joins the one of `InitiatorProofs`, with all
  calls answered at once, to the types of the memories.
* `EthBridgeProofs`. For buffers and packets of any size, packets that do not fit
  included, and a MAC that pauses for two cycles or more (`PacketsSentAsHanded`, from `EthBridgeAssumption`: `pack` does not look at its input in one of
  them). `SentAsHanded` is not inductive: `pack` lags a cycle behind the MAC, `transmit`
  behind `pack`, and the MAC may be at the next packet when the last one is sent.
  `Sending` says where a packet is in terms of who has run at this edge; the three steps
  of the end of a packet (`First`, then idle for two cycles) are where the pause is
  needed. `Receiving` is the same for the flag of a datagram
  (`FlagFallsBetween`), and `BridgeTypes` bounds both buffers: `tx_buffer` is left only
  by a packet that is longer.
* `DeviceProofs`, the flash. `NibblesOnTime`: the phase and `cnt` follow from the number of rising edges since the
  selection (`InStep`), for every number of dummy cycles and any master; the inductive
  invariant adds that a master that has read its last nibble has deselected the flash.
  `ReadsAreAnswered`: `AnswersFromMemory`, the refinement of `QuadReadFlash`. `HeardInStep` has what
  `cmd` and `addr` are after each bit and nibble heard; `% 256` never drops a bit, because the
  eighth is the last one taken. A flash that is deselected in the middle goes on with the next
  command's bits, in the specification too.
* `DeviceProofs`, ClockGen. `HighIsMeasured`: `MeasuresFirstHigh` for every clock, MULT and DIV: the samples taken
  and those still to come (`Left`) make up the phase, in whichever order the clock and
  `measure_edges` run at an instant. `RatioIsKept`: `EdgesInRatio`. `lead` alone says
  nothing of the next step, so the invariant (`Pace`) weighs it against time: with `ToRise`
  and `ToHigh` the picoseconds to the next rising edges of `clk_i` and `clk_o`,
  `2 * hi * lead` lies between `MULT * (ToRise - ToHigh - 2 * hi)` (where MULT divides the
  phase) and `MULT * (ToRise - ToHigh)`. A tick takes one from both times, and an edge
  moves `lead` by what it adds to its own; that both times are at most a period
  bounds `lead`.
* `DeviceProofs`, the SDRAM. `CellsAreTheArray`: `ImplementsArray` for every geometry, image
  and offset, and for whatever the controller and the testbench drive within `SDRAMAssumption`
  (the list above it says what that asks). Powers of two count
  subsets, so `2^(m + n)` is a product (`PowersMultiply`); row, bank and
  column are then digits of the word address, written and read back in one way only
  (`CellsDiffer`, `CellOf`). With that, one lemma for each handler shows that what it does to
  the map the table does to the cells: a read inserts what was read as zero anyway, a
  copy that never runs up onto itself moves the block as it was, and a
  strobe seen at its level has just risen. The invariant is little more than types; `read_buf`
  may be of any length (`MaxReads` is any number).
* `LoggingProofs`, for any sequences of the five models, file sizes, and number of faults and crashes.
  One inductive invariant (`LogInvariant`) has the files and the calls in it. `current_size_` is at
  least what is in the file and in the buffer and at most `max_size`, but during a rotation
  and for a stream that could not be opened, where it is above, which is why the next line
  opens it (`Counted`, `Ready`): `FilesStayBounded`, `NullIsNotWritten`. `InOrder` says
  where in `todo` a call may be: a worker is told and joined before anything else,
  a registration follows its sink, and after the first call of the end only the end
  is left. Then whoever is asked for is registered or about to be (`Registered`), the
  change of the default logger and a second model of a kind included
  (`LoggersAreFound`); a worker that runs is the current one or about to be
  stopped (`Flushers`: `OneFlusherRuns`); and what a worker has still to flush is
  registered, because `set_default_logger` waits for the map (`FlushedAreAlive`).

  `LinesAreKept` is the refinement, `Spec => ImplementsLog`: every step is one `Log!Step` of
  each log, mostly a stutter. Its lines are the files laid end to end, the oldest first
  (`Laid`), and that is a fold of concatenations. What the fold does is shown without
  naming its recursion: any function that satisfies the equations of the fold
  (`Folded`) is compared with another by the least place at which they differ. So a line
  appended to the newest file goes to the end of the log, a file moved over an empty one
  changes nothing, and one moved over the oldest cuts off the beginning. Over
  `LogInvariant` the proof needs three facts. In a rotation one place is free, the one the files
  are moved to next (`Gap`), and a file that is not there has no lines (`Filed`), so that a
  move never drops a file but the oldest. As long as nothing has failed, every file
  below one with lines is full but for that place (`Full`), which is why
  `max_files * max_size` lines are left when the oldest file goes. And a log that is open
  or at a line is one that the end of the run closes (`Owned`), so that the next run
  starts without buffers. A failing rename, open or write is `Log!Fail`, which may take
  the newest file (`RetryFails`) but makes no hole elsewhere. `LinesStayInOrder` follows: files and
  buffer hold a selection of the lines written, ascending, none twice.

  The decoder has no constants, and its theorems are about the list. `OperandsAreApart` takes it family by
  family: in each the mask and the operands are the same. `CommonWordsSuffice` is why
  evaluating `Hidden` is enough: if any of the 2^32 words matches two
  instructions, so does the union of their matchers, and there one of the two is hidden.

Type correctness of these modules is a theorem too (`FlashTypes`, `ClockTypes` and so on), and is left to the prover
where it says nothing that another property of the run does not.

Only model-checked:

* Liveness (`EveryCallEnds`, `HeldStrobeIsAcked`, `EveryPacketIsSent`, `EveryReadIsAnswered`,
  `TimeGoesOn`, `EveryLineIsFlushed`, `EveryRunEnds`,
  `EveryDatagramIsCounted` with its bound on the counter, and the fairness halves of `ImplementsTransport` and
  `ImplementsAddressSpace`), which is out of the prover's reach.
* `OneInstruction`, a fact about the ninety descriptors without a constant in it: TLC evaluates
  the search through the list for every two of them, and `CommonWordsSuffice` says that this is enough.

## Not modelled

* Ports that are declared and never read (`rst`, `rst_i`), console traces.
* The text of log lines: spdlog's formatters (fmt, pattern_formatter) and `tlm_info`. They
  are pure functions of their arguments, vendored but for the last.
* What of spdlog no model uses: asynchronous loggers and their thread pool, the other
  sinks, backtraces, levels. The models call `rotating_logger_mt`, `get`,
  `set_default_logger` and `flush_every` only.
* `check_opcodes`, whose result is not used, and the time stamps and addresses of a trace.
* `FDPE`, `tristate` and the other basic blocks: a single assignment each, with
  nothing to interleave.
* `Memory`'s DMI and debug transport, which nothing calls; changes of the router's
  address map during a simulation.
* Data lengths other than 4 and widths that are not whole words: the class says it
  does not support them.
* What an initiator does with its buffer while its call is in progress.
* Of the SDRAM: a rise of `cke` while `ck` is high; a second backdoor strobe while one
  is held; `first_byte` other than 0.
* Build files, documentation scripts, Verilog sources.

## What is left

Every component that keeps state is modelled, the router and the memory but for the
operations listed above. What no theorem states is what holds by liveness, and the
decoder's `OneInstruction`.

A later question takes the place of a weaker one: the list of runs stays short
enough to be rerun on every change.
