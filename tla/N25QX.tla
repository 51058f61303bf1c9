------------------------------- MODULE N25QX -------------------------------
(***************************************************************************)
(* models/memories/flash/N25QX.hpp with IF_WIDTH = 4.  As in test_flash.cpp *)
(* the bus is set between two cycles of the clock; what is put on it is    *)
(* free: the master may select and deselect the flash when it likes.       *)
(***************************************************************************)
EXTENDS Integers, Sequences

CONSTANTS
  dummy_cycles,
  Sends,         \* what the master may put on dq before each of the first
                 \* fourteen edges, and before any later one
  Files,         \* contents for configure_region: sequences of bytes
  Places,        \* conf_addr
  MaxRegions,    \* bounds: calls of configure_region,
  MaxCnt         \* nibbles the master reads; nor is a deaf flash counted further

ASSUME FlashAssumption ==
  /\ dummy_cycles \in Nat /\ MaxRegions \in Nat /\ MaxCnt \in Nat
  /\ MaxCnt > dummy_cycles /\ MaxCnt > 8
  /\ Sends \in [0 .. 14 -> SUBSET (0 .. 15)]
  /\ Files \subseteq Seq(0 .. 255) /\ Places \subseteq Nat

VARIABLES
  cs_n, dq,
  clk,           \* the next thing in this cycle: "set", the bus, "rise" or "fall"
  phase, cmd, cnt, addr, idx, word,
  conf_memory,   \* operator[] adds a missing key with 0, which is left out
  regions,       \* calls of configure_region so far
  heard, edges   \* history: see QuadReadFlash

bus == <<cs_n, dq>>
history == <<heard, edges>>
memory == <<conf_memory, regions>>
flash_vars == <<bus, clk, phase, cmd, cnt, addr, idx, word, memory, history>>

CMD_QUAD_READ == 235 \* 0xeb
IF_WIDTH == 4

\* cmd, cnt and addr have no initial value; they are set before they are read.
InitFlash ==
  /\ cs_n = 1 /\ dq = 0 /\ clk = "set"
  /\ phase = "IDLE" /\ cmd = 0 /\ cnt = 0 /\ addr = 0 /\ idx = 0 /\ word = 0
  /\ conf_memory = <<>> /\ regions = 0
  /\ heard = <<>> /\ edges = 0

(***************************************************************************)
(* The environment.                                                        *)
(***************************************************************************)
Drive ==
  /\ clk = "set" /\ clk' = "rise"
  /\ cs_n' \in IF phase = "RESP" /\ cnt = MaxCnt THEN {1} ELSE {0, 1}
  /\ \/ dq' \in Sends[IF edges < 14 THEN edges ELSE 14]
     \/ edges >= 14 /\ UNCHANGED dq
  /\ UNCHANGED << phase, cmd, cnt, addr, idx, word, memory, history>>

\* A byte is two nibbles, the high one first.
Region(file, at) ==
  [i \in 2 * at .. 2 * (at + Len(file)) - 1 |->
     LET byte == file[(i - 2 * at) \div 2 + 1] IN IF i % 2 = 0 THEN byte \div 16 ELSE byte % 16]

configure_region(file, at) ==
  /\ clk = "set" /\ regions < MaxRegions /\ regions' = regions + 1
  /\ LET region == Region(file, at) IN
       conf_memory' = [i \in DOMAIN region \cup DOMAIN conf_memory |->
                         IF i \in DOMAIN region THEN region[i] ELSE conf_memory[i]]
  /\ UNCHANGED <<bus, clk, phase, cmd, cnt, addr, idx, word, history>>

(***************************************************************************)
(* flash_handler, clk high.                                                *)
(***************************************************************************)
Rising == clk = "rise" /\ clk' = "fall"
Hears == heard' = Append(heard, dq) /\ edges' = edges + 1

Idle ==
  /\ Rising /\ phase = "IDLE"
  /\ IF cs_n = 0
       THEN cnt' = 1 /\ phase' = "CMD" /\ cmd' = dq % 2 /\ Hears
       ELSE UNCHANGED <<phase, cmd, cnt, history>>
  /\ UNCHANGED <<bus, addr, idx, word, memory>>

LongCommand == \* mutant: one bit too many
  /\ Rising /\ phase = "CMD" /\ cnt < 9
  /\ cnt' = cnt + 1 /\ cmd' = (2 * cmd + (dq % 2)) % 256 /\ Hears
  /\ UNCHANGED <<bus, phase, addr, idx, word, memory>>

CommandBit ==
  /\ Rising /\ phase = "CMD" /\ cnt < 8
  /\ cnt' = cnt + 1 /\ cmd' = (2 * cmd + (dq % 2)) % 256 /\ Hears
  /\ UNCHANGED <<bus, phase, addr, idx, word, memory>>

\* Any other command leaves the flash in this phase, and cnt counting.
CommandEnds ==
  /\ Rising /\ phase = "CMD" /\ cnt >= 8
  /\ IF cmd = CMD_QUAD_READ
       THEN phase' = "ADDR" /\ cnt' = 1 /\ addr' = dq /\ Hears
       ELSE cnt' = (IF cnt < MaxCnt THEN cnt + 1 ELSE cnt) /\ UNCHANGED <<phase, addr, history>>
  /\ UNCHANGED <<bus, cmd, idx, word, memory>>

\* Six nibbles, one of which CommandEnds has taken.
AddressNibble ==
  /\ Rising /\ phase = "ADDR" /\ cnt < 24 \div IF_WIDTH
  /\ cnt' = cnt + 1 /\ addr' = 16 * addr + dq /\ Hears
  /\ UNCHANGED <<bus, phase, cmd, idx, word, memory>>

AddressEnds ==
  /\ Rising /\ phase = "ADDR" /\ cnt >= 24 \div IF_WIDTH
  /\ cnt' = 2 /\ dq' = 0 /\ phase' = "DUMMY"
  /\ edges' = edges + 1
  /\ UNCHANGED <<cs_n, heard, cmd, addr, idx, word, memory>>

DummyEnds == cnt + 1 >= dummy_cycles

Dummy ==
  /\ Rising /\ phase = "DUMMY"
  /\ dq' = 0 /\ edges' = edges + 1
  /\ IF DummyEnds
       THEN phase' = "RESP" /\ cnt' = 0 /\ idx' = 0 /\ word' = 0
       ELSE cnt' = cnt + 1 /\ UNCHANGED <<phase, idx, word>>
  /\ UNCHANGED <<cs_n, cmd, addr, heard, memory>>

ByteIndex == addr + cnt \* mutant: the address is not turned into nibbles

NibbleIndex == addr * 2 + cnt

Respond ==
  /\ Rising /\ phase = "RESP" /\ cs_n = 0
  /\ idx' = NibbleIndex
  /\ word' = IF idx' \in DOMAIN conf_memory THEN conf_memory[idx'] ELSE 0
  /\ cnt' = cnt + 1 /\ dq' = word' /\ edges' = edges + 1
  /\ UNCHANGED <<cs_n, phase, cmd, addr, heard, memory>>

NeverReleased == \* mutant: the end of the answer is missed
  /\ Rising /\ phase = "RESP" /\ cs_n = 1
  /\ UNCHANGED <<bus, phase, cmd, cnt, addr, idx, word, memory, history>>

Deselected ==
  /\ Rising /\ phase = "RESP" /\ cs_n = 1
  /\ phase' = "IDLE" /\ heard' = <<>> /\ edges' = 0
  /\ UNCHANGED <<bus, cmd, cnt, addr, idx, word, memory>>

(***************************************************************************)
(* clk low.                                                                *)
(***************************************************************************)
Falling ==
  /\ clk = "fall" /\ clk' = "set"
  /\ IF phase = "RESP" THEN dq' = word ELSE UNCHANGED dq
  /\ UNCHANGED <<cs_n, phase, cmd, cnt, addr, idx, word, memory, history>>

flash_handler ==
  \/ Idle \/ CommandBit \/ CommandEnds \/ AddressNibble \/ AddressEnds
  \/ Dummy \/ Respond \/ Deselected \/ Falling

NextFlash == Drive \/ flash_handler \/ (\E f \in Files, a \in Places : configure_region(f, a))

\* The clock does not stop, whatever the master does.
FlashSpec == InitFlash /\ [][NextFlash]_flash_vars
FairFlash == FlashSpec /\ WF_flash_vars(Drive \/ flash_handler)

(***************************************************************************)
(* Properties.                                                             *)
(***************************************************************************)
FlashTypeOK ==
  /\ cs_n \in {0, 1} /\ dq \in 0 .. 15 /\ word \in 0 .. 15 /\ clk \in {"set", "rise", "fall"}
  /\ phase \in {"IDLE", "CMD", "ADDR", "DUMMY", "RESP"}
  /\ cmd \in 0 .. 255 /\ cnt \in 0 .. MaxCnt /\ addr \in Nat /\ idx \in Nat
  /\ DOMAIN conf_memory \subseteq Nat
  /\ \A i \in DOMAIN conf_memory : conf_memory[i] \in 0 .. 15
  /\ edges \in Nat /\ regions \in 0 .. MaxRegions

DummyCycles == IF dummy_cycles > 3 THEN dummy_cycles - 1 ELSE 2

\* The phase is a matter of how many rising edges have passed since the flash
\* was selected: eight for the command, six for the address, dummy_cycles - 1
\* (two at least), then the answer.
InStep ==
  /\ phase = "IDLE" => edges = 0
  /\ phase = "CMD" => edges = IF cnt < 8 THEN cnt ELSE 8
  /\ phase = "ADDR" => cnt \in 1 .. 6 /\ edges = 8 + cnt
  /\ phase = "DUMMY" => cnt >= 2 /\ edges = 14 + cnt - 1 /\ edges < 14 + DummyCycles
  /\ phase = "RESP" => edges = 14 + DummyCycles + cnt

\* A flash that has heard the read command answers with the nibbles of the
\* configured memory from that address on, at the edges it should, and drives dq
\* at no other time, whatever the master does.
Flash == INSTANCE QuadReadFlash WITH
  Nibble <- UNION {Sends[n] : n \in 0 .. 14},
  ReadCommand <- CMD_QUAD_READ, memory <- conf_memory, out <- word
AnswersFromMemory == Flash!Spec

\* A command that is the read command leads to an answer, and an answer comes to
\* an end when the master deselects the flash for good.
EveryReadIsAnswered ==
  /\ phase = "CMD" /\ cnt = 8 /\ cmd = CMD_QUAD_READ ~> phase = "RESP"
  /\ <>[](cs_n = 1) => (phase = "RESP" ~> phase = "IDLE")
=============================================================================
