----------------------------- MODULE GenericSDRAM -----------------------------
(***************************************************************************)
(* models/memories/sdram/generic_sdram.hpp: sdram_handler with the command *)
(* decoder, and backdoor_handler.  A controller drives its pins while ck   *)
(* is low, as the one of test_sdram.cpp does; what it drives is sampled    *)
(* when ck rises.                                                          *)
(***************************************************************************)
EXTENDS Integers, Sequences

CONSTANTS
  row_bits, bank_bits, col_bits, \* SDRAM_GEOM
  ROW_SIZE,                      \* 2^BA_SIZE: how many banks the ba pins can name
  OFFSET, AddressMod,            \* addresses are unsigned
  Byte,
  Image, conf_addr, msb,         \* what configure_region loads
  Pins,                          \* what the controller may drive
  MaxReads,                      \* bound: words read and not returned yet
  Strobes                        \* what the testbench may drive

VARIABLES
  mem,      \* std::map from word addresses to words
  read_buf, \* words read and not returned yet
  row_addr, \* per bank
  dq_pins,  \* dq, the data pins, which the controller drives too
  pins,     \* the other pins when ck last rose
  strobe    \* the backdoor signals

sdram_vars == <<mem, read_buf, row_addr, dq_pins, pins, strobe>>

Word == [0 .. 3 -> Byte]
Zero == [k \in 0 .. 3 |-> 0]
Banks == 0 .. ROW_SIZE - 1

\* A key the map does not have reads as 0.
Held(m, address) == IF address \in DOMAIN m THEN m[address] ELSE Zero

Insert(m, address, w) ==
  [x \in DOMAIN m \cup {address} |-> IF x = address THEN w ELSE m[x]]

NarrowRow(row, bank, col) == \* mutant: the row is shifted by the column bits only
  (row * 2^col_bits + bank * 2^col_bits + col) % AddressMod

to_word_address(row, bank, col) ==
  (row * 2^(bank_bits + col_bits) + bank * 2^col_bits + col) % AddressMod

(***************************************************************************)
(* configure_region: the whole words of a file, most significant byte      *)
(* first unless msb is set; then the last bytes, which are never swapped   *)
(* and leave what val held before above them.                              *)
(***************************************************************************)
Tail4 == Len(Image) % 4
Raw(n) == [k \in 0 .. 3 |-> Image[4 * n + k + 1]]
Swapped(w) == [k \in 0 .. 3 |-> w[3 - k]]
Whole == Len(Image) \div 4
LastWord ==
  [k \in 0 .. 3 |->
     IF k < Tail4 THEN Image[4 * Whole + k + 1] ELSE IF Whole = 0 THEN 0 ELSE Raw(Whole - 1)[k]]

configured_region ==
  [address \in conf_addr \div 4 .. conf_addr \div 4 + (Len(Image) + 3) \div 4 - 1 |->
     LET n == address - conf_addr \div 4 IN
     IF n = Whole THEN LastWord ELSE IF msb THEN Raw(n) ELSE Swapped(Raw(n))]

(***************************************************************************)
(* sdram_handler and handle_cmd.                                           *)
(***************************************************************************)
CS_H == 16
CMD == [NOP_1 |-> 14, ACTIVATE |-> 6, READ |-> 10, WRITE |-> 8, PRECHARGE |-> 4,
        PRECHARGE_ALL |-> 5, REFRESH |-> 2, LOAD_MEM_REG |-> 0]

A10(p) == (p.a \div 2^10) % 2

agg(p) == IF p.cs_n = 1 THEN CS_H ELSE p.ras_n * 8 + p.cas_n * 4 + p.we_n * 2 + A10(p)

\* The value of dq in the handler: what the controller drives, or what was there.
Driven(p) == IF p.drives THEN p.dq ELSE dq_pins

Handles(p, opcode) == pins' = p /\ p.cke = 1 /\ agg(p) = opcode /\ UNCHANGED strobe

Pending(p) == dq_pins' = Driven(p) /\ UNCHANGED read_buf

\* The word read last is returned first.
Nop(p) ==
  /\ Handles(p, CS_H) \/ Handles(p, CMD.NOP_1)
  /\ IF read_buf = <<>> THEN Pending(p)
     ELSE /\ dq_pins' = read_buf[Len(read_buf)]
          /\ read_buf' = SubSeq(read_buf, 1, Len(read_buf) - 1)
  /\ UNCHANGED <<mem, row_addr>>

Activate(p) ==
  /\ Handles(p, CMD.ACTIVATE)
  /\ row_addr' = [row_addr EXCEPT ![p.ba] = p.a]
  /\ Pending(p) /\ UNCHANGED mem

address(p) == to_word_address(row_addr[p.ba], p.ba, p.a)

\* The log line looks the word up again, which inserts it.
Read(p) ==
  /\ Handles(p, CMD.READ)
  /\ read_buf' = Append(read_buf, Held(mem, address(p)))
  /\ mem' = Insert(mem, address(p), Held(mem, address(p)))
  /\ dq_pins' = Driven(p) /\ UNCHANGED row_addr

\* byte_disable is shifted up, not down, before its bit 0 is tested: bits 1 to 3
\* keep nothing.
Masked(dm) == {i \in 0 .. 3 : (dm * 2^i) % 2 = 1}

Write(p) ==
  /\ Handles(p, CMD.WRITE)
  /\ mem' = Insert(mem, address(p),
       [k \in 0 .. 3 |-> IF k \in Masked(p.dm) THEN Held(mem, address(p))[k] ELSE Driven(p)[k]])
  /\ Pending(p) /\ UNCHANGED row_addr

Precharge(p) ==
  /\ Handles(p, CMD.PRECHARGE)
  /\ row_addr' = [row_addr EXCEPT ![p.ba] = 0]
  /\ Pending(p) /\ UNCHANGED mem

PrechargeAll(p) ==
  /\ Handles(p, CMD.PRECHARGE_ALL)
  /\ row_addr' = [b \in Banks |-> 0]
  /\ Pending(p) /\ UNCHANGED mem

\* REFRESH and LOAD_MEM_REG are logged; a value that is no CMD_T is not even that.
NoEffect(p) ==
  /\ pins' = p /\ UNCHANGED strobe
  /\ p.cke = 0 \/ agg(p) \notin ({CMD[c] : c \in DOMAIN CMD \ {"REFRESH", "LOAD_MEM_REG"}} \cup {CS_H})
  /\ Pending(p) /\ UNCHANGED <<mem, row_addr>>

(***************************************************************************)
(* backdoor_handler.                                                       *)
(***************************************************************************)
fromWishbone(byte_address) == ((byte_address - OFFSET) % AddressMod) \div 4

\* The words are copied one by one, upwards: where the block overlaps its copy,
\* the copy is what is copied on.
Smeared(from, to, i) == from + (IF to > from THEN i % (to - from) ELSE i)

Copied(m, s) ==
  LET from == fromWishbone(s.copy_from)
      to == fromWishbone(s.copy_to)
      n == s.copy_size \div 4
      block == to .. to + n - 1
  IN [x \in DOMAIN m \cup block \cup from .. from + n - 1 |->
        IF x \in block THEN Held(m, Smeared(from, to, x - to)) ELSE Held(m, x)]

Cleared(m, s) ==
  LET block == fromWishbone(s.clear_from) .. fromWishbone(s.clear_to) - 1
  IN [x \in DOMAIN m \cup block |-> IF x \in block THEN Zero ELSE m[x]]

\* Any change of either signal runs the handler, which looks at both levels.
backdoor_handler(s) ==
  /\ s.copy # strobe.copy \/ s.clear # strobe.clear
  /\ strobe' = s
  /\ LET m == IF s.copy = 1 THEN Copied(mem, s) ELSE mem
     IN mem' = IF s.clear = 1 THEN Cleared(m, s) ELSE m
  /\ UNCHANGED <<read_buf, row_addr, dq_pins, pins>>

(***************************************************************************)
(* What the controller and the testbench are relied on to do: a command of *)
(* the table, bit 10 only with PRECHARGE, and rows and columns the device  *)
(* has; blocks of words inside the device, none copied up onto itself, and *)
(* no change of one strobe while the other is held.                        *)
(***************************************************************************)
Rows == 0 .. 2^row_bits - 1
Columns == 0 .. 2^col_bits - 1
Size == 2^(row_bits + bank_bits + col_bits)

Fits(p) ==
  /\ {p.cs_n, p.ras_n, p.cas_n, p.we_n, p.cke} \subseteq {0, 1} /\ p.dm \in 0 .. 15
  /\ p.a \in Nat /\ p.ba \in Banks /\ p.drives \in BOOLEAN /\ p.dq \in Word
  /\ agg(p) \in {CMD[c] : c \in DOMAIN CMD} \cup {CS_H}
  /\ agg(p) = CMD.ACTIVATE => p.a \in Rows
  /\ agg(p) \in {CMD.READ, CMD.WRITE} => p.a \in Columns

Block(from, bytes) ==
  /\ from \in Nat /\ bytes \in Nat /\ (from - OFFSET) % 4 = 0 /\ bytes % 4 = 0
  /\ from >= OFFSET /\ from + bytes <= OFFSET + 4 * Size

Asks(s) ==
  /\ {s.copy, s.clear} \subseteq {0, 1}
  /\ s.copy = 1 => /\ Block(s.copy_from, s.copy_size) /\ Block(s.copy_to, s.copy_size)
                   /\ s.copy_to <= s.copy_from \/ s.copy_to >= s.copy_from + s.copy_size
  /\ s.clear = 1 => s.clear_to \in Nat /\ Block(s.clear_from, s.clear_to - s.clear_from)

ASSUME SDRAMAssumption ==
  /\ {row_bits, bank_bits, col_bits, OFFSET, AddressMod, conf_addr} \subseteq Nat
  /\ ROW_SIZE = 2^bank_bits /\ 4 * Size < AddressMod
  /\ 0 \in Byte /\ Image \in Seq(Byte) /\ MaxReads \in Nat
  /\ \A p \in Pins : Fits(p)
  /\ \A s \in Strobes : Asks(s)

ReadFits(p) == agg(p) = CMD.READ => Len(read_buf) < MaxReads

Separate(s) ==
  /\ strobe.copy = 1 /\ s.copy = 1 => s.clear = strobe.clear
  /\ strobe.clear = 1 /\ s.clear = 1 => s.copy = strobe.copy

InitSDRAM ==
  /\ mem = configured_region
  /\ read_buf = <<>> /\ row_addr = [b \in Banks |-> 0] /\ dq_pins = Zero
  /\ pins = [cs_n |-> 0, ras_n |-> 0, cas_n |-> 0, we_n |-> 0, a |-> 0, ba |-> 0, dm |-> 0,
             cke |-> 0, drives |-> FALSE, dq |-> Zero]
  /\ strobe = [copy |-> 0, copy_from |-> 0, copy_to |-> 0, copy_size |-> 0,
               clear |-> 0, clear_from |-> 0, clear_to |-> 0]

sdram_handler(p) ==
  \/ Nop(p) \/ Activate(p) \/ Read(p) \/ Write(p) \/ Precharge(p) \/ PrechargeAll(p) \/ NoEffect(p)

NextSDRAM ==
  \/ \E p \in Pins : ReadFits(p) /\ sdram_handler(p)
  \/ \E s \in Strobes : Separate(s) /\ backdoor_handler(s)

SDRAMSpec == InitSDRAM /\ [][NextSDRAM]_sdram_vars

(***************************************************************************)
(* Properties.                                                             *)
(***************************************************************************)
CellPlaces == Rows \X Banks \X Columns

Cells == [p \in CellPlaces |-> Held(mem, to_word_address(p[1], p[2], p[3]))]

Array == INSTANCE SDRAMArray WITH
  cells <- Cells, open <- row_addr, answers <- read_buf, dq <- dq_pins,
  BankCount <- ROW_SIZE, ColCount <- 2^col_bits

\* Every command of the table reads, writes or opens the cell it names and no
\* other, whatever commands and backdoor copies come between; a NOP puts a word
\* read and not returned yet on dq, the one word if a single read waits, and each
\* word once; a write keeps no byte that dm does not mask, and keeps the first
\* when dm masks it.  Which of several reads is answered, and what becomes of the
\* other bytes that dm masks, is left open.
ImplementsArray == Array!Spec
=============================================================================
