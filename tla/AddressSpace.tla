---------------------------- MODULE AddressSpace ----------------------------
(***************************************************************************)
(* What a testbench is promised of memories and a ROM behind a TLMRouter:  *)
(* one flat space of words, in which every helper call reads or writes the *)
(* word at its own address, once, or ends the simulation.  Of a word that  *)
(* lies only in part in a ROM it is promised that part, and nothing of the *)
(* word after a memory.  There is no code for this module; RoutedSystem is *)
(* shown to implement it.                                                  *)
(***************************************************************************)
EXTENDS Integers

CONSTANTS
  Initiators, HelperCalls, Buffers, Word,
  RamCells, RomCells, \* the addresses of the words there are
  RomWord(_),         \* what the read-only ones hold
  RomTails,           \* the addresses of words that are only in part in a ROM
  TailIs(_, _),       \* whether a word has the bytes of that part
  RamEnds,            \* the addresses of the words that follow the memories
  RegionOf(_),        \* the memory an address belongs to
  Regions, LongMod

VARIABLES
  cells,   \* the word at each address
  data,    \* the testbench's buffers
  asked,   \* the helper call not yet served, as a set
  users,   \* per region and direction, who has used it, as a set
  served,  \* per region and direction, how many calls it has served
  ended    \* the simulation has ended with a report

vars == <<cells, data, asked, users, served, ended>>

Dirs == {"READ", "WRITE"}

Init ==
  /\ cells \in [RamCells \cup RomCells -> Word]
  /\ \A a \in RomCells : cells[a] = RomWord(a)
  /\ data \in [Buffers -> Word]
  /\ asked = {} /\ ended = FALSE
  /\ users = [r \in Regions |-> [d \in Dirs |-> {}]]
  /\ served = [r \in Regions |-> [d \in Dirs |-> 0]]

\* A write brings its word in its buffer.
Ask(i, c) ==
  /\ ~ended /\ asked = {}
  /\ asked' = {<<i, c>>}
  /\ data' = IF c.dir = "WRITE" THEN [data EXCEPT ![c.ptr] = c.value] ELSE data
  /\ UNCHANGED <<cells, users, served, ended>>

\* A memory counts its reads for one initiator, and its writes for one.
Shared(i, c) ==
  c.addr \in RamCells /\ ~(users[RegionOf(c.addr)][c.dir] \subseteq {i})

Serves(i, c) ==
  /\ ~ended /\ ~Shared(i, c)
  /\ asked' = {} /\ UNCHANGED ended

Counted(i, c) ==
  /\ users' = [users EXCEPT ![RegionOf(c.addr)][c.dir] = {i}]
  /\ served' = [served EXCEPT ![RegionOf(c.addr)][c.dir] = (@ + 1) % LongMod]

\* Byte enables and short widths are refused, and a ROM is read only.
Accepted(c) == c.dir = "READ" \/ (~c.byt /\ c.wid >= 4)
Legal(c) ==
  \/ Accepted(c) /\ c.addr \in RamCells \cup RamEnds
  \/ c.dir = "READ" /\ c.addr \in RomCells \cup RomTails

Write(i, c) ==
  /\ Serves(i, c) /\ c.dir = "WRITE" /\ Accepted(c) /\ c.addr \in RamCells
  /\ cells' = [cells EXCEPT ![c.addr] = data[c.ptr]]
  /\ Counted(i, c)
  /\ UNCHANGED data

Read(i, c) ==
  /\ Serves(i, c) /\ c.dir = "READ" /\ c.addr \in RamCells \cup RomCells
  /\ data' = [data EXCEPT ![c.ptr] = cells[c.addr]]
  /\ IF c.addr \in RamCells THEN Counted(i, c) ELSE UNCHANGED <<users, served>>
  /\ UNCHANGED cells

\* The other bytes of the word may be anything.
ReadTail(i, c) ==
  /\ Serves(i, c) /\ c.dir = "READ" /\ c.addr \in RomTails
  /\ \E word \in Word : TailIs(c.addr, word) /\ data' = [data EXCEPT ![c.ptr] = word]
  /\ UNCHANGED <<cells, users, served>>

\* Nothing is promised of what follows, so nothing follows.
BeyondMemory(i, c) ==
  /\ ~ended /\ Accepted(c) /\ c.addr \in RamEnds
  /\ ended' = TRUE /\ UNCHANGED <<cells, data, asked, users, served>>

\* Only a call that cannot be served ends the simulation.
Fail(i, c) ==
  /\ ~ended /\ (Shared(i, c) \/ ~Legal(c))
  /\ ended' = TRUE /\ asked' \in SUBSET asked
  /\ cells' = cells \/ (Shared(i, c) /\ cells' = [cells EXCEPT ![c.addr] = data[c.ptr]])
  /\ data' = data \/ (Shared(i, c) /\ data' = [data EXCEPT ![c.ptr] = cells[c.addr]])
  /\ UNCHANGED <<users, served>>

Serve ==
  \E a \in asked :
    \/ Write(a[1], a[2]) \/ Read(a[1], a[2]) \/ ReadTail(a[1], a[2])
    \/ BeyondMemory(a[1], a[2]) \/ Fail(a[1], a[2])
Next == Serve \/ \E i \in Initiators, c \in HelperCalls : Ask(i, c)

Spec == Init /\ [][Next]_vars

\* A call that was made is served, or ends the simulation.
FairSpec == Spec /\ WF_vars(Serve)
=============================================================================
