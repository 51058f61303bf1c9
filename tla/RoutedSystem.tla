---------------------------- MODULE RoutedSystem ----------------------------
(***************************************************************************)
(* Initiators, a TLMRouter, and memories and ROMs behind it, as            *)
(* test_basic_routing.cpp and test_multiport.cpp put them together.        *)
(* b_transport of router and target runs in the initiator's thread and     *)
(* never waits: a call is one step of the thread.                          *)
(***************************************************************************)
EXTENDS Integers, FiniteSets

CONSTANTS Initiators, HelperCalls, Buffers,
          Targets, initiatorsConfig, BitwiseAnd(_, _),
          Memories, SIZE, Word, Garbage, LongMod,
          Roms, baseaddr, ROM

ASSUME SystemAssumption ==
  /\ Garbage \subseteq Word
  /\ SIZE \in Nat /\ LongMod \in Nat \ {0} /\ baseaddr \in Nat
  /\ Targets \subseteq Nat
  /\ \A i \in Targets :
       initiatorsConfig[i].baseAddress \in Nat /\ initiatorsConfig[i].topAddress \in Nat
  /\ Memories \cup Roms = Targets /\ Memories \cap Roms = {}
  /\ \A c \in HelperCalls : c.ptr \in Buffers /\ c.value \in Word
  /\ \A c \in HelperCalls :
       /\ c.dir \in {"READ", "WRITE"} /\ c.addr \in Nat /\ c.len = 4 /\ c.wid \in Nat
       /\ c.byt \in BOOLEAN /\ (c.dir = "READ" => c.byt = FALSE)

VARIABLES
  main, members, pc, left, trans, report, \* see Initiator
  mem, ops, writer,                       \* see Memory
  data                                    \* the testbench's buffers

threads == <<main, members, pc, left, trans, report>>
store == <<mem, ops, writer>>
vars == <<threads, store, data>>

AtOnce(payload) == {0}
Failures == {"TLM-ROUTER", "TLM_ROM", "second_writer", "stray"}

I == INSTANCE InitiatorProofs WITH CallTimes <- AtOnce
Router == INSTANCE TLMRouter
M == INSTANCE Memory
R == INSTANCE TLMROM

Threads == I!Threads

Init == I!Init /\ M!Init /\ data \in [Buffers -> Garbage]

(***************************************************************************)
(* The testbench fills the buffer it writes from.                          *)
(***************************************************************************)
Dowrite(i, c) ==
  /\ I!Dowrite(i, c)
  /\ data' = [data EXCEPT ![c.ptr] = c.value]
  /\ UNCHANGED <<mem, ops, writer>>

Doread(i, c) == I!Doread(i, c) /\ UNCHANGED <<mem, ops, writer, data>>

TimeStep ==
  /\ I!StrobeRises \/ I!StrobeFalls \/ I!HelperReturns \/ I!Tick
  /\ UNCHANGED <<mem, ops, writer, data>>

(***************************************************************************)
(* TLMRouter::b_transport: the payload leaves with the address its target  *)
(* sees.                                                                   *)
(***************************************************************************)
Unforwarded(th, i) == I!Payload(th) \* mutant: the masked address is not stored

Forwarded(th, i) ==
  [I!Payload(th) EXCEPT !.addr = Router!masked_address(i, I!Payload(th).addr)]

GoesTo(th, i) ==
  pc[th] = "triggered" /\ Router!Decodes(i, I!Payload(th).addr)

NoRoute(th) ==
  /\ Router!Unmapped(I!Payload(th).addr)
  /\ I!CallFails(th, "TLM-ROUTER")
  /\ UNCHANGED <<mem, ops, writer, data>>

(***************************************************************************)
(* Memory::b_transport behind the router.                                  *)
(***************************************************************************)
Done(th) == I!CallReturnsAtOnce(th, "OK")

WriteMemory(th, i) ==
  /\ i \in Memories /\ GoesTo(th, i) /\ th[2] = "WRITE"
  /\ M!Write(i, Forwarded(th, i), th, data[Forwarded(th, i).ptr])
  /\ Done(th)
  /\ UNCHANGED data

ReadMemory(th, i) ==
  /\ i \in Memories /\ GoesTo(th, i) /\ th[2] = "READ"
  /\ M!Read(i, Forwarded(th, i), th)
  /\ data' = [data EXCEPT ![Forwarded(th, i).ptr] = M!WordAt(i, Forwarded(th, i))]
  /\ Done(th)

Refused(th, i) ==
  /\ i \in Memories /\ GoesTo(th, i) /\ M!Status(Forwarded(th, i)) # "OK"
  /\ I!CallReturnsAtOnce(th, M!Status(Forwarded(th, i)))
  /\ UNCHANGED <<mem, ops, writer, data>>

\* The data is copied before the kernel rejects the counter's second writer.
SecondWriter(th, i) ==
  /\ i \in Memories /\ GoesTo(th, i)
  /\ M!InMemory(Forwarded(th, i)) /\ ~M!MayCount(i, th[2], th)
  /\ LET p == Forwarded(th, i) IN
       IF th[2] = "WRITE"
         THEN mem' = [mem EXCEPT ![i][M!Adr(p)] = data[p.ptr]] /\ UNCHANGED data
         ELSE data' = [data EXCEPT ![p.ptr] = M!WordAt(i, p)] /\ UNCHANGED mem
  /\ I!CallFails(th, "second_writer")
  /\ UNCHANGED <<ops, writer>>

\* Outside mem: undefined behaviour, the model stops.
StrayMemory(th, i) ==
  /\ i \in Memories /\ GoesTo(th, i) /\ M!Stray(Forwarded(th, i))
  /\ I!CallFails(th, "stray")
  /\ UNCHANGED <<mem, ops, writer, data>>

(***************************************************************************)
(* TLM_ROM::b_transport behind the router.                                 *)
(***************************************************************************)
ReadRom(th, i) ==
  /\ i \in Roms /\ GoesTo(th, i) /\ R!Readable(Forwarded(th, i))
  /\ data' = [data EXCEPT ![Forwarded(th, i).ptr] = R!Image(Forwarded(th, i))]
  /\ Done(th)
  /\ UNCHANGED <<mem, ops, writer>>

RomReports(th, i) ==
  /\ i \in Roms /\ GoesTo(th, i)
  /\ R!Outside(Forwarded(th, i)) \/ th[2] = "WRITE"
  /\ I!CallFails(th, "TLM_ROM")
  /\ UNCHANGED <<mem, ops, writer, data>>

\* Not an error for the code: the call returns OK with bytes from beyond the image.
ReadPastImage(th, i) ==
  /\ i \in Roms /\ GoesTo(th, i) /\ R!PastEnd(Forwarded(th, i))
  /\ \E word \in Word :
       /\ R!EndsAs(Forwarded(th, i), word)
       /\ data' = [data EXCEPT ![Forwarded(th, i).ptr] = word]
  /\ Done(th)
  /\ UNCHANGED <<mem, ops, writer>>

Transport(th) ==
  \/ NoRoute(th)
  \/ \E i \in Targets :
       \/ WriteMemory(th, i) \/ ReadMemory(th, i) \/ Refused(th, i)
       \/ SecondWriter(th, i) \/ StrayMemory(th, i)
       \/ ReadRom(th, i) \/ ReadPastImage(th, i) \/ RomReports(th, i)

Helper == \E i \in Initiators, c \in HelperCalls : Dowrite(i, c) \/ Doread(i, c)
Kernel == TimeStep \/ \E th \in Threads : Transport(th)

Stopped == I!Stopped /\ UNCHANGED vars

Next == Helper \/ Kernel \/ Stopped

\* The kernel runs what it has made runnable and then advances the time.
Spec == Init /\ [][Next]_vars
FairSpec == Spec /\ WF_vars(Kernel)

(***************************************************************************)
(* What the testbench is promised.                                         *)
(***************************************************************************)
WordAddresses == {c.addr : c \in HelperCalls}

Mapped == {a \in WordAddresses : \E i \in Targets : Router!Matches(i, a)}
RegionOf(a) == CHOOSE i \in Targets : Router!Matches(i, a)
Offset(a) == a - initiatorsConfig[RegionOf(a)].baseAddress

RamCells == {a \in Mapped : RegionOf(a) \in Memories /\ Offset(a) \div 4 < SIZE}
RomCells == {a \in Mapped : RegionOf(a) \in Roms /\ Offset(a) .. Offset(a) + 3 \subseteq DOMAIN ROM}

RomWord(a) == [k \in 0 .. 3 |-> ROM[Offset(a) + k]]

\* The word in which an image ends, and the one that follows a memory.
RomTails == {a \in Mapped : RegionOf(a) \in Roms /\ Offset(a) \in DOMAIN ROM} \ RomCells
TailIs(a, word) == \A k \in 0 .. 3 : Offset(a) + k \in DOMAIN ROM => word[k] = ROM[Offset(a) + k]
RamEnds == {a \in Mapped : RegionOf(a) \in Memories /\ Offset(a) \div 4 = SIZE}

Cells ==
  [a \in RamCells \cup RomCells |->
     IF a \in RamCells THEN mem[RegionOf(a)][Offset(a) \div 4] ELSE RomWord(a)]

Asked ==
  IF main.step = "written" \/ (main.step = "pulse" /\ pc[main.thread] = "triggered")
    THEN {<<main.thread[1], main.call>>} ELSE {}

Users == [m \in Memories |-> [d \in {"READ", "WRITE"} |-> {th[1] : th \in writer[m][d]}]]

Flat == INSTANCE AddressSpace WITH
  cells <- Cells,
  asked <- Asked, users <- Users, served <- ops, ended <- ~I!Running,
  Regions <- Memories

\* Every word address of the testbench is a cell of its own: each helper call
\* accesses the memory word its address means, exactly once, with its own
\* buffer, and what it reads is what was last written there by any initiator.
\* Of the word in which a ROM's image ends the bytes of the image are read, and
\* nothing is claimed of the others, which the code returns as well; nothing is
\* claimed of the word after a memory.
ImplementsAddressSpace == Flat!FairSpec

\* An access that passes the checks of a memory stays inside it.
NoStrayAccess == report # "stray"
=============================================================================
