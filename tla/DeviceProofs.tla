---------------------------- MODULE DeviceProofs ----------------------------
(***************************************************************************)
(* The flash, whose phases keep step with the edges since its selection    *)
(* and which implements QuadReadFlash; ClockGen, which measures the first  *)
(* high phase and keeps the ratio of the edges from then on, whatever the  *)
(* clock at clk_i; and the SDRAM of any geometry, which implements the     *)
(* array of its command table.                                             *)
(***************************************************************************)
EXTENDS N25QX, ClockGen, GenericSDRAM, FiniteSetTheorems, SequenceTheorems, TLAPS

-----------------------------------------------------------------------------
(* The flash. *)

\* What the edge about to come finds: a master that has read MaxCnt nibbles has
\* deselected the flash.
ReadsEnd == clk = "rise" /\ phase = "RESP" /\ cnt = MaxCnt => cs_n = 1

FlashInv == FlashTypeOK /\ InStep /\ ReadsEnd

LEMMA FlashStarts == InitFlash => FlashInv
  BY FlashAssumption DEF InitFlash, FlashInv, FlashTypeOK, InStep, ReadsEnd

\* The bus only holds nibbles that the master or the flash has put there.
LEMMA DriveFlash == FlashInv /\ Drive => FlashInv'
<1> SUFFICES ASSUME FlashInv, Drive PROVE FlashInv'
  OBVIOUS
<1>1. dq' \in 0 .. 15
  <2>1. CASE \E n \in 0 .. 14 : dq' \in Sends[n]
    BY <2>1, FlashAssumption
  <2>2. CASE dq' = dq
    BY <2>2 DEF FlashInv, FlashTypeOK
  <2>3. edges \in Nat
    BY DEF FlashInv, FlashTypeOK
  <2> QED
    BY <2>1, <2>2, <2>3 DEF Drive
<1>2. FlashTypeOK'
  BY <1>1 DEF FlashInv, FlashTypeOK, Drive, memory, history
<1>3. InStep'
  BY DEF FlashInv, InStep, DummyCycles, Drive, memory, history
<1>4. ReadsEnd'
  BY DEF ReadsEnd, Drive
<1> QED
  BY <1>2, <1>3, <1>4 DEF FlashInv

\* A byte is two nibbles, and a region replaces what it covers.
LEMMA ConfigureFlash ==
  ASSUME NEW f \in Files, NEW a \in Places, FlashInv, configure_region(f, a)
  PROVE  FlashInv'
<1> DEFINE region == Region(f, a)
<1>1. /\ DOMAIN region \subseteq Nat
      /\ \A i \in DOMAIN region : region[i] \in 0 .. 15
  <2>1. f \in Seq(0 .. 255) /\ a \in Nat /\ Len(f) \in Nat
    BY FlashAssumption
  <2>2. ASSUME NEW i \in 2 * a .. 2 * (a + Len(f)) - 1
        PROVE  (i - 2 * a) \div 2 + 1 \in 1 .. Len(f)
    BY <2>1, <2>2
  <2>3. \A b \in 0 .. 255 : b \div 16 \in 0 .. 15 /\ b % 16 \in 0 .. 15
    OBVIOUS
  <2>4. ASSUME NEW i \in 2 * a .. 2 * (a + Len(f)) - 1
        PROVE  region[i] \in 0 .. 15
    <3> DEFINE byte == f[(i - 2 * a) \div 2 + 1]
    <3>1. byte \in 0 .. 255
      <4>1. (i - 2 * a) \div 2 + 1 \in 1 .. Len(f)
        BY <2>2
      <4> DEFINE j == (i - 2 * a) \div 2 + 1
      <4> HIDE DEF j
      <4>2. \A k \in 1 .. Len(f) : f[k] \in 0 .. 255
        BY <2>1, ElementOfSeq
      <4>3. j \in 1 .. Len(f)
        BY <4>1 DEF j
      <4>4. f[j] \in 0 .. 255
        BY <4>2, <4>3
      <4> QED
        BY <4>4 DEF j
    <3>2. region[i] = IF i % 2 = 0 THEN byte \div 16 ELSE byte % 16
      BY DEF Region
    <3> QED
      BY <2>3, <3>1, <3>2
  <2>5. DOMAIN region = 2 * a .. 2 * (a + Len(f)) - 1
    BY DEF Region
  <2> HIDE DEF region
  <2>6. \A i \in 2 * a .. 2 * (a + Len(f)) - 1 : i \in Nat
    BY <2>1
  <2>7. DOMAIN region \subseteq Nat
    BY <2>5, <2>6
  <2>8. \A i \in DOMAIN region : region[i] \in 0 .. 15
    BY <2>4, <2>5
  <2> QED
    BY <2>7, <2>8
<1>2. /\ DOMAIN conf_memory' \subseteq Nat
      /\ \A i \in DOMAIN conf_memory' : conf_memory'[i] \in 0 .. 15
  <2>1. conf_memory' = [i \in DOMAIN region \cup DOMAIN conf_memory |->
                         IF i \in DOMAIN region THEN region[i] ELSE conf_memory[i]]
    BY DEF configure_region
  <2>2. DOMAIN conf_memory \subseteq Nat /\ \A i \in DOMAIN conf_memory : conf_memory[i] \in 0 .. 15
    BY DEF FlashInv, FlashTypeOK
  <2> HIDE DEF region
  <2> QED
    BY <1>1, <2>1, <2>2
<1>3. FlashTypeOK'
  <2>1. regions' \in 0 .. MaxRegions
    BY FlashAssumption DEF FlashInv, FlashTypeOK, configure_region
  <2> QED
    BY <1>2, <2>1 DEF FlashInv, FlashTypeOK, configure_region, bus, history
<1>4. InStep'
  BY DEF FlashInv, InStep, DummyCycles, configure_region, bus, history
<1>5. ReadsEnd'
  BY DEF ReadsEnd, configure_region
<1> QED
  BY <1>3, <1>4, <1>5 DEF FlashInv

\* Bits and nibbles are counted up to the phase that follows.
LEMMA HearFlash ==
  FlashInv /\ (Idle \/ CommandBit \/ CommandEnds \/ AddressNibble) => FlashInv'
<1> SUFFICES ASSUME FlashInv, Idle \/ CommandBit \/ CommandEnds \/ AddressNibble
             PROVE  FlashInv'
  OBVIOUS
<1>0. dummy_cycles \in Nat /\ MaxCnt \in Nat /\ MaxCnt > dummy_cycles /\ MaxCnt > 8
  BY FlashAssumption
<1> USE <1>0 DEF FlashInv, Rising, Hears, bus, memory, history
<1>1. CASE Idle
  <2>1. FlashTypeOK'
    <3>1. dq % 2 \in 0 .. 255
      BY DEF FlashTypeOK
    <3>2. CASE cs_n = 0
      <4>1. cmd' \in 0 .. 255 /\ cnt' \in 0 .. MaxCnt /\ edges' \in Nat
        BY <1>1, <3>1, <3>2 DEF FlashTypeOK, Idle
      <4> QED
        BY <1>1, <3>2, <4>1 DEF FlashTypeOK, Idle
    <3>3. CASE cs_n = 1
      BY <1>1, <3>3 DEF FlashTypeOK, Idle
    <3> QED
      BY <3>2, <3>3 DEF FlashTypeOK
  <2>2. InStep' /\ ReadsEnd'
    BY <1>1 DEF FlashTypeOK, InStep, DummyCycles, ReadsEnd, Idle
  <2> QED
    BY <2>1, <2>2
<1>2. CASE CommandBit
  <2>1. FlashTypeOK'
    BY <1>2 DEF FlashTypeOK, CommandBit
  <2>2. InStep' /\ ReadsEnd'
    BY <1>2 DEF FlashTypeOK, InStep, DummyCycles, ReadsEnd, CommandBit
  <2> QED
    BY <2>1, <2>2
<1>3. CASE CommandEnds
  <2>1. FlashTypeOK'
    BY <1>3 DEF FlashTypeOK, CommandEnds
  <2>2. InStep' /\ ReadsEnd'
    BY <1>3 DEF FlashTypeOK, InStep, DummyCycles, ReadsEnd, CommandEnds
  <2> QED
    BY <2>1, <2>2
<1>4. CASE AddressNibble
  <2>1. FlashTypeOK'
    BY <1>4 DEF FlashTypeOK, AddressNibble, IF_WIDTH
  <2>2. InStep' /\ ReadsEnd'
    BY <1>4 DEF FlashTypeOK, InStep, DummyCycles, ReadsEnd, AddressNibble, IF_WIDTH
  <2> QED
    BY <2>1, <2>2
<1> QED
  BY <1>1, <1>2, <1>3, <1>4

\* The dummy cycles and the answer.
LEMMA AnswerFlash ==
  FlashInv /\ (AddressEnds \/ Dummy \/ Respond \/ Deselected \/ Falling) => FlashInv'
<1> SUFFICES ASSUME FlashInv, AddressEnds \/ Dummy \/ Respond \/ Deselected \/ Falling
             PROVE  FlashInv'
  OBVIOUS
<1>0. dummy_cycles \in Nat /\ MaxCnt \in Nat /\ MaxCnt > dummy_cycles /\ MaxCnt > 8
  BY FlashAssumption
<1> USE <1>0 DEF FlashInv, Rising, bus, memory, history
<1>1. CASE AddressEnds
  <2>1. FlashTypeOK'
    BY <1>1 DEF FlashTypeOK, AddressEnds
  <2>2. InStep' /\ ReadsEnd'
    BY <1>1 DEF FlashTypeOK, InStep, DummyCycles, ReadsEnd, AddressEnds, IF_WIDTH
  <2> QED
    BY <2>1, <2>2
<1>2. CASE Dummy
  <2>1. FlashTypeOK'
    BY <1>2 DEF FlashTypeOK, InStep, DummyCycles, Dummy, DummyEnds
  <2>2. InStep' /\ ReadsEnd'
    BY <1>2 DEF FlashTypeOK, InStep, DummyCycles, ReadsEnd, Dummy, DummyEnds
  <2> QED
    BY <2>1, <2>2
<1>3. CASE Respond
  <2>1. cnt + 1 \in 0 .. MaxCnt
    BY <1>3 DEF FlashTypeOK, ReadsEnd, Respond
  <2>2. word' \in 0 .. 15
    BY <1>3 DEF FlashTypeOK, Respond
  <2>3. FlashTypeOK'
    BY <1>3, <2>1, <2>2 DEF FlashTypeOK, Respond, NibbleIndex
  <2>4. InStep' /\ ReadsEnd'
    BY <1>3 DEF FlashTypeOK, InStep, DummyCycles, ReadsEnd, Respond
  <2> QED
    BY <2>3, <2>4
<1>4. CASE Deselected
  BY <1>4 DEF FlashTypeOK, InStep, ReadsEnd, Deselected
<1>5. CASE Falling
  BY <1>5 DEF FlashTypeOK, InStep, DummyCycles, ReadsEnd, Falling
<1> QED
  BY <1>1, <1>2, <1>3, <1>4, <1>5

\* The phases keep step, whatever happens on the bus.
THEOREM FlashInvariant == FlashSpec => []FlashInv
<1>1. FlashInv /\ [NextFlash]_flash_vars => FlashInv'
  <2> SUFFICES ASSUME FlashInv, [NextFlash]_flash_vars PROVE FlashInv'
    OBVIOUS
  <2>1. CASE Drive
    BY <2>1, DriveFlash
  <2>2. CASE flash_handler
    BY <2>2, HearFlash, AnswerFlash DEF flash_handler
  <2>3. CASE \E f \in Files, a \in Places : configure_region(f, a)
    BY <2>3, ConfigureFlash
  <2>4. CASE UNCHANGED flash_vars
    BY <2>4 DEF flash_vars, bus, memory, history, FlashInv, FlashTypeOK, InStep, DummyCycles, ReadsEnd
  <2> QED
    BY <2>1, <2>2, <2>3, <2>4 DEF NextFlash
<1> QED
  BY FlashStarts, <1>1, PTL DEF FlashSpec

\* Type correctness of flash_handler and configure_region.
THEOREM FlashTypes == FlashSpec => []FlashTypeOK
  BY FlashInvariant, PTL DEF FlashInv

\* The phase of flash_handler, and cnt in it, follow from the number of rising
\* edges since the selection.
THEOREM NibblesOnTime == FlashSpec => []InStep
  BY FlashInvariant, PTL DEF FlashInv

\* The bits of the command.
Bits == [n \in 1 .. 8 |-> heard[n] % 2]

\* What the command and the address are after each bit and each nibble heard.
CommandHeard ==
  LET b1 == Bits[1]
      b2 == 2 * b1 + Bits[2]
      b3 == 2 * b2 + Bits[3]
      b4 == 2 * b3 + Bits[4]
      b5 == 2 * b4 + Bits[5]
      b6 == 2 * b5 + Bits[6]
      b7 == 2 * b6 + Bits[7]
      b8 == 2 * b7 + Bits[8]
  IN <<b1, b2, b3, b4, b5, b6, b7, b8>>

AddressHeard ==
  LET a1 == heard[9]
      a2 == 16 * a1 + heard[10]
      a3 == 16 * a2 + heard[11]
      a4 == 16 * a3 + heard[12]
      a5 == 16 * a4 + heard[13]
      a6 == 16 * a5 + heard[14]
  IN <<a1, a2, a3, a4, a5, a6>>

\* The registers are what was heard; a flash that has heard another command is
\* never past the first eight bits.
HeardInStep ==
  /\ heard \in Seq(0 .. 15) /\ Len(heard) = IF edges < 14 THEN edges ELSE 14
  /\ phase = "CMD" => cnt >= 1 /\ cmd = CommandHeard[edges]
  /\ phase \in {"ADDR", "DUMMY", "RESP"} => CommandHeard[8] = CMD_QUAD_READ
  /\ phase = "ADDR" => addr = AddressHeard[cnt]
  /\ phase \in {"DUMMY", "RESP"} => addr = AddressHeard[6]

\* A nibble heard comes after the others, which stay.
LEMMA HearsOne ==
  ASSUME FlashInv, HeardInStep, Hears, edges < 14
  PROVE  /\ heard' \in Seq(0 .. 15) /\ Len(heard') = edges + 1 /\ edges' = edges + 1
         /\ edges \in Nat /\ dq \in 0 .. 15 /\ heard'[edges + 1] = dq
         /\ \A n \in 1 .. edges : heard'[n] = heard[n] /\ heard[n] \in 0 .. 15
<1>1. heard \in Seq(0 .. 15) /\ Len(heard) = edges /\ edges \in Nat /\ dq \in 0 .. 15
  BY DEF HeardInStep, FlashInv, FlashTypeOK
<1>2. heard' = Append(heard, dq) /\ edges' = edges + 1
  BY DEF Hears
<1>3. heard' \in Seq(0 .. 15) /\ Len(heard') = edges + 1
  BY <1>1, <1>2
<1>4. \A n \in 1 .. edges : heard'[n] = heard[n] /\ heard[n] \in 0 .. 15
  BY <1>1, <1>2, ElementOfSeq
<1>5. heard'[edges + 1] = dq
  BY <1>1, <1>2
<1> QED
  BY <1>1, <1>2, <1>3, <1>4, <1>5

LEMMA HeardFrame ==
  ASSUME heard' = heard
  PROVE  CommandHeard' = CommandHeard /\ AddressHeard' = AddressHeard
BY DEF Bits, CommandHeard, AddressHeard

LEMMA HeardInit == InitFlash => HeardInStep
<1>1. <<>> \in Seq(0 .. 15) /\ Len(<<>>) = 0
  OBVIOUS
<1> QED
  BY <1>1 DEF InitFlash, HeardInStep

\* A bit of the command.
LEMMA HearBit ==
  ASSUME FlashInv, HeardInStep, Idle \/ CommandBit PROVE HeardInStep'
<1>1. CASE Idle /\ cs_n # 0
  BY <1>1, HeardFrame DEF Idle, history, HeardInStep, Rising
<1>2. CASE Idle /\ cs_n = 0
  <2>1. /\ phase = "IDLE" /\ edges = 0 /\ cnt' = 1 /\ phase' = "CMD" /\ cmd' = dq % 2 /\ Hears
        /\ dq \in 0 .. 15
    BY <1>2 DEF Idle, FlashInv, InStep, FlashTypeOK
  <2>2. edges' = 1 /\ heard' \in Seq(0 .. 15) /\ Len(heard') = 1 /\ heard'[1] = dq
    BY <2>1, HearsOne
  <2>3. CommandHeard'[1] = dq % 2
    BY <2>2 DEF Bits, CommandHeard
  <2> QED
    BY <2>1, <2>2, <2>3 DEF HeardInStep
<1>3. CASE CommandBit
  <2>1. /\ phase = "CMD" /\ cnt < 8 /\ cnt' = cnt + 1 /\ cmd' = (2 * cmd + (dq % 2)) % 256 /\ Hears
        /\ UNCHANGED phase /\ cnt \in Nat /\ edges = cnt /\ cmd \in Nat
    BY <1>3 DEF CommandBit, FlashInv, InStep, FlashTypeOK
  <2>2. cnt \in 1 .. 7 /\ cmd = CommandHeard[cnt]
    BY <2>1 DEF HeardInStep
  <2>3. /\ edges' = cnt + 1 /\ heard' \in Seq(0 .. 15) /\ Len(heard') = cnt + 1
        /\ dq \in 0 .. 15 /\ heard'[cnt + 1] = dq
        /\ \A n \in 1 .. cnt : heard'[n] = heard[n] /\ heard[n] \in 0 .. 15
    <3>1. edges < 14
      BY <2>1
    <3> QED
      BY <2>1, <3>1, HearsOne
  <2> DEFINE b == dq % 2
  <2>4. b \in {0, 1} /\ cmd' = (2 * cmd + b) % 256
    BY <2>1, <2>3
  <2>5. /\ Bits'[cnt + 1] = b
        /\ \A n \in 1 .. cnt : Bits'[n] = Bits[n] /\ Bits[n] \in {0, 1}
    <3>1. cnt + 1 \in 1 .. 8 /\ Bits'[cnt + 1] = heard'[cnt + 1] % 2
      BY <2>2 DEF Bits
    <3>2. ASSUME NEW n \in 1 .. cnt PROVE Bits'[n] = Bits[n] /\ Bits[n] \in {0, 1}
      <4>1. n \in 1 .. 8 /\ heard'[n] = heard[n] /\ heard[n] \in 0 .. 15
        BY <2>2, <2>3
      <4>2. Bits'[n] = heard'[n] % 2 /\ Bits[n] = heard[n] % 2
        BY <4>1 DEF Bits
      <4>3. ASSUME NEW x \in 0 .. 15 PROVE x % 2 \in {0, 1}
        OBVIOUS
      <4> QED
        BY <4>1, <4>2, <4>3
    <3> QED
      BY <2>3, <3>1, <3>2
  <2> HIDE DEF b
  <2>6. /\ CommandHeard'[cnt + 1] = 2 * CommandHeard[cnt] + b
        /\ CommandHeard[cnt] \in 0 .. 127
    <3>1. CASE cnt = 1
      BY <2>4, <2>5, <3>1 DEF CommandHeard
    <3>2. CASE cnt = 2
      BY <2>4, <2>5, <3>2 DEF CommandHeard
    <3>3. CASE cnt = 3
      BY <2>4, <2>5, <3>3 DEF CommandHeard
    <3>4. CASE cnt = 4
      BY <2>4, <2>5, <3>4 DEF CommandHeard
    <3>5. CASE cnt = 5
      BY <2>4, <2>5, <3>5 DEF CommandHeard
    <3>6. CASE cnt = 6
      BY <2>4, <2>5, <3>6 DEF CommandHeard
    <3>7. CASE cnt = 7
      BY <2>4, <2>5, <3>7 DEF CommandHeard
    <3> QED
      BY <2>2, <3>1, <3>2, <3>3, <3>4, <3>5, <3>6, <3>7
  <2>7. cmd' = CommandHeard'[cnt + 1]
    BY <2>2, <2>4, <2>6
  <2> QED
    BY <2>1, <2>2, <2>3, <2>7 DEF HeardInStep
<1> QED
  BY <1>1, <1>2, <1>3

\* A nibble of the address, the first of which shows that the command is the one
\* that is answered.
LEMMA HearNibble ==
  ASSUME FlashInv, HeardInStep, CommandEnds \/ AddressNibble PROVE HeardInStep'
<1>1. CASE CommandEnds /\ cmd # CMD_QUAD_READ
  <2>1. phase = "CMD" /\ phase' = "CMD" /\ cnt \in Nat /\ cnt >= 8 /\ cnt' \in Nat /\ cnt' >= 8
        /\ heard' = heard /\ edges' = edges /\ cmd' = cmd
    BY <1>1 DEF CommandEnds, FlashInv, FlashTypeOK, history
  <2>2. CommandHeard' = CommandHeard
    BY <2>1, HeardFrame
  <2> QED
    BY <2>1, <2>2 DEF HeardInStep
<1>2. CASE CommandEnds /\ cmd = CMD_QUAD_READ
  <2>1. /\ phase = "CMD" /\ phase' = "ADDR" /\ cnt' = 1 /\ addr' = dq /\ Hears /\ edges = 8
        /\ CommandHeard[8] = CMD_QUAD_READ
    BY <1>2 DEF CommandEnds, FlashInv, FlashTypeOK, InStep, HeardInStep
  <2>2. /\ edges' = 9 /\ heard' \in Seq(0 .. 15) /\ Len(heard') = 9 /\ heard'[9] = dq
        /\ \A n \in 1 .. 8 : heard'[n] = heard[n]
    BY <2>1, HearsOne
  <2>3. CommandHeard' = CommandHeard
    BY <2>2 DEF Bits, CommandHeard
  <2>4. AddressHeard'[1] = dq
    BY <2>2 DEF AddressHeard
  <2> QED
    BY <2>1, <2>2, <2>3, <2>4 DEF HeardInStep, CMD_QUAD_READ
<1>3. CASE AddressNibble
  <2>1. /\ phase = "ADDR" /\ phase' = "ADDR" /\ cnt \in 1 .. 5 /\ cnt' = cnt + 1 /\ edges = 8 + cnt
        /\ addr' = 16 * addr + dq /\ Hears
    BY <1>3 DEF AddressNibble, FlashInv, FlashTypeOK, InStep, IF_WIDTH
  <2>2. CommandHeard[8] = CMD_QUAD_READ /\ addr = AddressHeard[cnt]
    BY <2>1 DEF HeardInStep
  <2>3. /\ edges' = 9 + cnt /\ heard' \in Seq(0 .. 15) /\ Len(heard') = 9 + cnt
        /\ heard'[9 + cnt] = dq
        /\ \A n \in 1 .. 8 + cnt : heard'[n] = heard[n]
    <3>1. edges < 14 /\ edges + 1 = 9 + cnt
      BY <2>1
    <3> QED
      BY <2>1, <3>1, HearsOne
  <2>4. CommandHeard' = CommandHeard
    <3>1. \A n \in 1 .. 8 : heard'[n] = heard[n]
      BY <2>1, <2>3
    <3> QED
      BY <3>1 DEF Bits, CommandHeard
  <2>5. AddressHeard'[cnt + 1] = 16 * AddressHeard[cnt] + dq
    <3>1. CASE cnt = 1
      BY <2>3, <3>1 DEF AddressHeard
    <3>2. CASE cnt = 2
      BY <2>3, <3>2 DEF AddressHeard
    <3>3. CASE cnt = 3
      BY <2>3, <3>3 DEF AddressHeard
    <3>4. CASE cnt = 4
      BY <2>3, <3>4 DEF AddressHeard
    <3>5. CASE cnt = 5
      BY <2>3, <3>5 DEF AddressHeard
    <3> QED
      BY <2>1, <3>1, <3>2, <3>3, <3>4, <3>5
  <2> QED
    BY <2>1, <2>2, <2>3, <2>4, <2>5 DEF HeardInStep, CMD_QUAD_READ
<1> QED
  BY <1>1, <1>2, <1>3

\* After that nothing is heard, and both numbers stay, until the next selection.
LEMMA HeardStays ==
  ASSUME FlashInv, FlashInv', HeardInStep,
         AddressEnds \/ Dummy \/ Respond \/ Falling \/ Drive
         \/ (\E f \in Files, a \in Places : configure_region(f, a))
  PROVE  HeardInStep'
<1>1. heard' = heard /\ CommandHeard' = CommandHeard /\ AddressHeard' = AddressHeard
  <2>1. heard' = heard
    BY DEF AddressEnds, Dummy, Respond, Falling, Drive, configure_region, history
  <2> QED
    BY <2>1, HeardFrame
<1>2. CASE AddressEnds
  <2>1. phase = "ADDR" /\ cnt = 6 /\ edges = 14 /\ edges' = 15 /\ phase' = "DUMMY" /\ addr' = addr
    BY <1>2 DEF AddressEnds, FlashInv, InStep, FlashTypeOK, IF_WIDTH
  <2> QED
    BY <1>1, <2>1 DEF HeardInStep, CMD_QUAD_READ
<1>3. CASE Dummy \/ Respond
  <2>1. /\ phase \in {"DUMMY", "RESP"} /\ phase' \in {"DUMMY", "RESP"} /\ edges >= 14
        /\ edges \in Nat /\ edges' = edges + 1 /\ addr' = addr
    BY <1>3, FlashAssumption DEF Dummy, Respond, FlashInv, InStep, FlashTypeOK, DummyCycles
  <2> QED
    BY <1>1, <2>1 DEF HeardInStep, CMD_QUAD_READ
<1>4. CASE Falling \/ Drive \/ (\E f \in Files, a \in Places : configure_region(f, a))
  <2>1. phase' = phase /\ cmd' = cmd /\ cnt' = cnt /\ addr' = addr /\ edges' = edges
    BY <1>4 DEF Falling, Drive, configure_region, history
  <2> QED
    BY <1>1, <2>1 DEF HeardInStep, CMD_QUAD_READ
<1> QED
  BY <1>2, <1>3, <1>4

LEMMA HeardForgotten == Deselected => HeardInStep'
<1>1. <<>> \in Seq(0 .. 15) /\ Len(<<>>) = 0
  OBVIOUS
<1>2. Deselected => heard' = <<>> /\ edges' = 0 /\ phase' = "IDLE"
  BY DEF Deselected
<1> QED
  BY <1>1, <1>2 DEF HeardInStep

LEMMA HeardStep ==
  FlashInv /\ FlashInv' /\ HeardInStep /\ [NextFlash]_flash_vars => HeardInStep'
<1> SUFFICES ASSUME FlashInv, FlashInv', HeardInStep, [NextFlash]_flash_vars PROVE HeardInStep'
  OBVIOUS
<1>1. CASE UNCHANGED flash_vars
  <2>1. heard' = heard /\ phase' = phase /\ cmd' = cmd /\ cnt' = cnt /\ addr' = addr /\ edges' = edges
    BY <1>1 DEF flash_vars, history
  <2> QED
    BY <2>1, HeardFrame DEF HeardInStep, CMD_QUAD_READ
<1> QED
  BY <1>1, HearBit, HearNibble, HeardStays, HeardForgotten DEF NextFlash, flash_handler

\* The numbers the specification of the flash reads in what was heard.
LEMMA CommandRead ==
  ASSUME HeardInStep, edges \in Nat, edges >= 8
  PROVE  Flash!Command = CommandHeard[8]
<1>1. \A n \in 1 .. 8 : heard[n] \in 0 .. 15
  BY ElementOfSeq DEF HeardInStep
<1>2. \A n \in 1 .. 8 : Bits[n] = heard[n] % 2 /\ Bits[n] \in Int
  BY <1>1 DEF Bits
<1>3. Flash!Command =
        128 * Bits[1] + 64 * Bits[2] + 32 * Bits[3] + 16 * Bits[4]
        + 8 * Bits[5] + 4 * Bits[6] + 2 * Bits[7] + Bits[8]
  BY <1>2 DEF Flash!Command, Flash!Bit
<1> QED
  BY <1>2, <1>3 DEF CommandHeard

LEMMA AddressRead ==
  ASSUME HeardInStep, Len(heard) = 14
  PROVE  Flash!Address = AddressHeard[6]
<1>1. \A n \in 1 .. 14 : heard[n] \in 0 .. 15
  BY ElementOfSeq DEF HeardInStep
<1>2. /\ heard[9] \in Int /\ heard[10] \in Int /\ heard[11] \in Int /\ heard[12] \in Int
      /\ heard[13] \in Int /\ heard[14] \in Int
  BY <1>1
<1>3. 16^2 = 256 /\ 16^3 = 4096 /\ 16^4 = 65536 /\ 16^5 = 65536 * 16
  BY SMT
<1> QED
  BY <1>2, <1>3, SMT DEF Flash!Address, AddressHeard

\* A step of the flash at a time, as the specification of a read has it.
LEMMA FlashHears ==
  ASSUME FlashInv, HeardInStep, Idle \/ CommandBit \/ CommandEnds \/ AddressNibble
  PROVE  Flash!Hear \/ UNCHANGED Flash!vars
<1> USE DEF Flash!vars, Flash!Hear, Flash!Reads, Hears, Rising, bus, memory, history
<1>1. CASE Idle
  <2>1. phase = "IDLE" => edges = 0
    BY DEF FlashInv, InStep
  <2> QED
    BY <1>1, <2>1 DEF Idle
<1>2. CASE CommandBit
  <2>1. edges \in 1 .. 7
    BY <1>2 DEF CommandBit, FlashInv, FlashTypeOK, InStep, HeardInStep
  <2> QED
    BY <1>2, <2>1 DEF CommandBit
<1>3. CASE CommandEnds
  <2>1. edges = 8
    BY <1>3 DEF CommandEnds, FlashInv, FlashTypeOK, InStep
  <2>2. Flash!Command = cmd
    BY <1>3, <2>1, CommandRead DEF CommandEnds, HeardInStep
  <2> QED
    BY <1>3, <2>1, <2>2 DEF CommandEnds
<1>4. CASE AddressNibble
  <2>1. edges \in 9 .. 13 /\ phase = "ADDR"
    BY <1>4 DEF AddressNibble, FlashInv, FlashTypeOK, InStep, IF_WIDTH
  <2>2. Flash!Command = CMD_QUAD_READ
    BY <2>1, CommandRead DEF HeardInStep
  <2> QED
    BY <1>4, <2>1, <2>2 DEF AddressNibble
<1> QED
  BY <1>1, <1>2, <1>3, <1>4

LEMMA FlashPrepares ==
  ASSUME FlashInv, AddressEnds \/ Dummy PROVE Flash!Prepare
<1> USE DEF Flash!Prepare, Flash!FirstAnswer, Rising, bus, memory, history
<1>1. dummy_cycles \in Nat
  BY FlashAssumption
<1>2. CASE AddressEnds
  <2>1. edges = 14
    BY <1>2 DEF AddressEnds, FlashInv, FlashTypeOK, InStep, IF_WIDTH
  <2> QED
    BY <1>1, <1>2, <2>1 DEF AddressEnds
<1>3. CASE Dummy
  <2>1. cnt \in Nat /\ cnt >= 2 /\ edges = 14 + cnt - 1 /\ edges < 14 + DummyCycles
    BY <1>3 DEF Dummy, FlashInv, FlashTypeOK, InStep
  <2>2. edges' = Flash!FirstAnswer <=> DummyEnds
    BY <1>1, <1>3, <2>1 DEF Dummy, DummyEnds, DummyCycles
  <2>3. edges \in 14 .. Flash!FirstAnswer - 1
    BY <1>1, <2>1 DEF DummyCycles
  <2> HIDE DEF Flash!FirstAnswer
  <2> QED
    BY <1>3, <2>2, <2>3 DEF Dummy
<1> QED
  BY <1>2, <1>3

LEMMA FlashAnswers ==
  ASSUME FlashInv, HeardInStep, Respond \/ Deselected \/ Falling
  PROVE  Flash!Answer \/ Flash!Release \/ Flash!Hold \/ UNCHANGED Flash!vars
<1>1. phase = "RESP" =>
        /\ edges \in Nat /\ edges = Flash!FirstAnswer + cnt /\ Flash!FirstAnswer \in Nat
        /\ edges >= 14 /\ cnt \in Nat
  BY FlashAssumption DEF FlashInv, FlashTypeOK, InStep, DummyCycles, Flash!FirstAnswer
<1>2. CASE Respond
  <2>1. phase = "RESP" /\ addr \in Nat
    BY <1>2 DEF Respond, FlashInv, FlashTypeOK
  <2>2. addr = Flash!Address
    BY <1>1, <2>1, AddressRead DEF HeardInStep
  <2>3. NibbleIndex = 2 * Flash!Address + edges - Flash!FirstAnswer
    BY <1>1, <2>1, <2>2 DEF NibbleIndex
  <2>4. word' = Flash!NibbleAt(2 * Flash!Address + edges - Flash!FirstAnswer)
    BY <1>2, <2>3 DEF Respond, Flash!NibbleAt
  <2>5. edges >= Flash!FirstAnswer
    BY <1>1, <2>1
  <2> QED
    BY <1>2, <2>4, <2>5 DEF Respond, Flash!Answer, memory
<1>3. CASE Deselected
  <2>1. phase = "RESP" /\ edges >= Flash!FirstAnswer
    BY <1>1, <1>3 DEF Deselected
  <2> QED
    BY <1>3, <2>1 DEF Deselected, Flash!Release, bus, memory
<1>4. CASE Falling
  <2>1. phase = "RESP" => edges >= Flash!FirstAnswer
    BY <1>1
  <2> QED
    BY <1>4, <2>1 DEF Falling, Flash!Hold, Flash!vars, memory, history
<1> QED
  BY <1>2, <1>3, <1>4

LEMMA FlashEnvironment ==
  ASSUME FlashInv, Drive \/ (\E f \in Files, a \in Places : configure_region(f, a))
  PROVE  Flash!Environment \/ UNCHANGED Flash!vars
<1>1. CASE Drive
  <2>1. cs_n' \in {0, 1}
    BY <1>1 DEF Drive
  <2>2. dq' \in (UNION {Sends[n] : n \in 0 .. 14}) \cup {dq}
    <3>1. edges \in Nat
      BY DEF FlashInv, FlashTypeOK
    <3> QED
      BY <1>1, <3>1 DEF Drive
  <2> QED
    BY <1>1, <2>1, <2>2 DEF Drive, Flash!Environment, memory, history
<1>2. CASE \E f \in Files, a \in Places : configure_region(f, a)
  BY <1>2 DEF configure_region, Flash!Environment, Flash!vars, bus, history
<1> QED
  BY <1>1, <1>2

LEMMA FlashImplements ==
  FlashInv /\ HeardInStep /\ [NextFlash]_flash_vars => [Flash!Next]_(Flash!vars)
<1>1. UNCHANGED flash_vars => UNCHANGED Flash!vars
  BY DEF flash_vars, bus, memory, history, Flash!vars
<1> QED
  BY <1>1, FlashHears, FlashPrepares, FlashAnswers, FlashEnvironment
     DEF NextFlash, flash_handler, Flash!Next

\* For every number of dummy cycles, whatever the master and the configuration
\* do: flash_handler answers every read command with the nibbles configured at the
\* address it was sent, from the edge on that dummy_cycles gives, and drives dq at
\* no other time.
THEOREM ReadsAreAnswered == FlashSpec => AnswersFromMemory
<1>1. InitFlash => HeardInStep /\ Flash!Init
  BY HeardInit DEF InitFlash, Flash!Init
<1>2. FlashInv /\ FlashInv' /\ HeardInStep /\ [NextFlash]_flash_vars => HeardInStep'
  BY HeardStep
<1>3. FlashInv /\ HeardInStep /\ [NextFlash]_flash_vars => [Flash!Next]_(Flash!vars)
  BY FlashImplements
<1> QED
  BY <1>1, <1>2, <1>3, FlashInvariant, PTL DEF FlashSpec, AnswersFromMemory, Flash!Spec

-----------------------------------------------------------------------------
(* ClockGen. *)

Due(p) == p \in runnable

\* The clock and measure_edges each run once at an instant, or wait.
Waiting ==
  /\ IF Due("clk_i") THEN wake["clk_i"] = -1 /\ clk_i.now = clk_i.next ELSE wake["clk_i"] >= 0
  /\ clk_i.now # clk_i.next => wake["clk_i"] >= 1 /\ (clk_i.next => wake["clk_i"] = clock.hi)
  /\ IF Due("measure_edges") THEN wake["measure_edges"] = -1 ELSE wake["measure_edges"] \in {-1, 1}
  /\ at.measure_edges # "done" /\ ~Due("measure_edges") => wake["measure_edges"] = 1

\* Samples of the high phase that are still to be taken.
Left ==
  (IF ~clk_i.next \/ Due("clk_i") THEN 0 ELSE wake["clk_i"]) + (IF Due("measure_edges") THEN 1 ELSE 0)

Measuring ==
  IF ~unitialized THEN pos_duration = Measured /\ at.measure_edges # "high"
  ELSE /\ ~locked.next /\ at.measure_edges # "done"
       /\ at.measure_edges = "look" => pos_duration = 0 /\ (clk_i.now \/ ~clock.first)
       /\ clk_i.now => pos_duration + Left = Measured
       /\ ~clk_i.now /\ at.measure_edges = "high" =>
            /\ pos_duration = Measured
            /\ ~Due("measure_edges") => ~clk_i.next /\ wake["clk_i"] >= 1

ClockInv == TypeOK /\ Waiting /\ Measuring

LEMMA ClockFacts ==
  ASSUME ClockInv
  PROVE  /\ clock.hi \in Nat \ {0} /\ clock.lo \in Nat \ {0} /\ clock.first \in BOOLEAN /\ clock.edge \in Nat
         /\ clock \in Clocks /\ Measured \in Nat \ {0} /\ MULT \in Nat \ {0} /\ DIV \in Nat \ {0}
         /\ wake["clk_i"] \in Nat \cup {-1}
         /\ wake["measure_edges"] \in Nat \cup {-1}
         /\ pos_duration \in 0 .. Measured
<1>1. clock \in [hi : Nat \ {0}, lo : Nat \ {0}, first : BOOLEAN, edge : Nat]
  BY ClockGenAssumption DEF ClockInv, TypeOK
<1> QED
  BY <1>1, ClockGenAssumption DEF ClockInv, TypeOK, Measured, Processes

\* The values a wait, a sample or an edge can leave behind.
LEMMA WaitType ==
  ASSUME ClockInv, NEW p \in Processes, NEW time \in Nat, Wait(p, time)
  PROVE  /\ wake' \in [Processes -> Nat \cup {-1}] /\ wake'[p] = time
         /\ \A q \in Processes : q # p => wake'[q] = wake[q]
BY DEF Wait, ClockInv, TypeOK

LEMMA WithinType ==
  ASSUME NEW n \in Int, DIV \in Nat, MULT \in Nat
  PROVE  Within(n) \in -(DIV + MULT) - 1 .. MULT + 1
BY DEF Within

LEMMA ClockInit == Init => ClockInv
<1> SUFFICES ASSUME Init PROVE ClockInv
  OBVIOUS
<1>1. /\ clock \in Clocks /\ clock.hi \in Nat \ {0} /\ clock.edge \in Nat /\ clock.first \in BOOLEAN
      /\ MULT \in Nat \ {0} /\ DIV \in Nat \ {0}
  <2>1. clock \in [hi : Nat \ {0}, lo : Nat \ {0}, first : BOOLEAN, edge : Nat]
    BY ClockGenAssumption DEF Init
  <2> QED
    BY <2>1, ClockGenAssumption DEF Init
<1>2. /\ clk_i = [now |-> clock.first, next |-> clock.first] /\ locked = [now |-> FALSE, next |-> FALSE]
      /\ wake["clk_i"] = clock.edge /\ wake["measure_edges"] = -1 /\ runnable = {"measure_edges"}
  BY DEF Init, Signal, Processes
<1>3. TypeOK
  <2>1. Measured \in Nat /\ 0 \in 0 .. Measured
    BY <1>1 DEF Measured
  <2>2. wake \in [Processes -> Nat \cup {-1}]
    BY <1>1 DEF Init
  <2>3. lead \in -(DIV + MULT) - 1 .. MULT + 1
    BY <1>1 DEF Init
  <2>4. clk_i \in [now : BOOLEAN, next : BOOLEAN] /\ locked \in [now : BOOLEAN, next : BOOLEAN]
    BY <1>1, <1>2
  <2>5. /\ clk_o \in BOOLEAN /\ unitialized \in BOOLEAN /\ runnable \subseteq Processes
        /\ at \in [measure_edges : {"look", "high", "done"}, clk_gen : {"locked", "high", "low"}]
    BY <1>2 DEF Init, Processes
  <2>6. pos_duration \in 0 .. Measured
    BY <2>1 DEF Init
  <2> QED
    BY <1>1, <2>2, <2>3, <2>4, <2>5, <2>6 DEF TypeOK
<1>4. Waiting
  BY <1>1, <1>2 DEF Init, Waiting, Due
<1>5. Measuring
  <2>1. /\ ~locked.next /\ at.measure_edges = "look" /\ pos_duration = 0 /\ unitialized /\ clk_i.now = clock.first
        /\ clk_i.next = clock.first
    <3>1. ~locked.next /\ clk_i.now = clock.first /\ clk_i.next = clock.first
      BY <1>2
    <3>2. at.measure_edges = "look" /\ pos_duration = 0 /\ unitialized
      BY DEF Init
    <3> QED
      BY <3>1, <3>2
  <2>2. clock.first => Left = clock.edge + 1 /\ Measured = clock.edge + 1
    BY <1>1, <1>2 DEF Left, Measured, Due
  <2> QED
    BY <1>1, <2>1, <2>2 DEF Measuring
<1> QED
  BY <1>3, <1>4, <1>5 DEF ClockInv

LEMMA EdgeKeeps == ASSUME ClockInv, Edge PROVE ClockInv'
<1> USE DEF Due
<1>1. /\ "clk_i" \in runnable /\ runnable' = runnable \ {"clk_i"}
      /\ UNCHANGED <<clock, locked, clk_o, pos_duration, unitialized, at>>
      /\ clk_i' = [clk_i EXCEPT !.next = ~@] /\ clk_i.now = clk_i.next
      /\ clk_i.now \in BOOLEAN /\ clk_i.next \in BOOLEAN /\ clk_i \in [now : BOOLEAN, next : BOOLEAN]
  BY DEF Edge, Runs, ClockInv, TypeOK, Waiting
<1>2. clk_i'.now = clk_i.now /\ clk_i'.next = ~clk_i.next /\ clk_i' \in [now : BOOLEAN, next : BOOLEAN]
  BY <1>1
<1>3. /\ wake' \in [Processes -> Nat \cup {-1}] /\ wake'["measure_edges"] = wake["measure_edges"]
      /\ wake'["clk_i"] = IF clk_i.now THEN clock.lo ELSE clock.hi
  <2>1. (IF clk_i.now THEN clock.lo ELSE clock.hi) \in Nat
    BY ClockFacts
  <2> QED
    BY <2>1, WaitType DEF Edge, Processes
<1>4. lead' \in -(DIV + MULT) - 1 .. MULT + 1
  <2>1. lead + MULT \in Int /\ lead \in -(DIV + MULT) - 1 .. MULT + 1
    BY ClockFacts DEF ClockInv, TypeOK
  <2> QED
    BY <2>1, WithinType, ClockFacts DEF Edge
<1>5. TypeOK'
  BY <1>1, <1>2, <1>3, <1>4 DEF ClockInv, TypeOK, Measured
<1>6. Waiting'
  BY <1>1, <1>2, <1>3, ClockFacts DEF ClockInv, Waiting
<1>7. Measured' = Measured /\ (clk_i.now => Left' = Left)
  BY <1>1, <1>2 DEF Measured, Left
<1>8. Measuring'
  BY <1>1, <1>2, <1>3, <1>7, ClockFacts DEF ClockInv, Measuring, Waiting
<1> QED
  BY <1>5, <1>6, <1>8 DEF ClockInv

LEMMA MeasureKeeps ==
  ASSUME ClockInv, CountHigh \/ StillLow \/ HighEnds \/ Lock
  PROVE  ClockInv'
<1> USE DEF Due
<1>1. /\ "measure_edges" \in runnable /\ runnable' = runnable \ {"measure_edges"}
      /\ UNCHANGED <<clock, clk_i, clk_o, lead>> /\ wake["measure_edges"] = -1
      /\ clk_i.now \in BOOLEAN /\ clk_i.next \in BOOLEAN
  BY DEF CountHigh, StillLow, HighEnds, Lock, Measure, Runs, ClockInv, TypeOK, Waiting
<1>2. Measured' = Measured /\ Left' = Left - 1 /\ Left \in Nat \ {0}
  <2>1. wake'["clk_i"] = wake["clk_i"]
    BY WaitType DEF CountHigh, StillLow, HighEnds, Lock, Processes
  <2>2. wake["clk_i"] \in Nat \/ "clk_i" \in runnable
    BY ClockFacts DEF ClockInv, Waiting
  <2>3. "clk_i" \in runnable' <=> "clk_i" \in runnable
    BY <1>1
  <2> QED
    BY <1>1, <2>1, <2>2, <2>3 DEF Measured, Left
<1>3. at \in [measure_edges : {"look", "high", "done"}, clk_gen : {"locked", "high", "low"}]
  BY DEF ClockInv, TypeOK
<1>4. Wait("measure_edges", 1) =>
        /\ wake' \in [Processes -> Nat \cup {-1}] /\ wake'["measure_edges"] = 1
        /\ wake'["clk_i"] = wake["clk_i"]
  BY WaitType DEF Processes
<1>5. CASE CountHigh
  <2>1. /\ clk_i.now /\ pos_duration' = pos_duration + 1 /\ UNCHANGED <<locked, unitialized>> /\ unitialized
        /\ at' = [at EXCEPT !["measure_edges"] = "high"] /\ Wait("measure_edges", 1)
    BY <1>5 DEF CountHigh, GoesTo, ClockInv, Measuring, TypeOK
  <2>2. at'.measure_edges = "high" /\ at' \in [measure_edges : {"look", "high", "done"}, clk_gen : {"locked", "high", "low"}]
    BY <1>3, <2>1
  <2>3. /\ ~locked'.next /\ clk_i'.now /\ unitialized' /\ pos_duration' + Left' = Measured'
        /\ pos_duration' \in 0 .. Measured'
    BY <1>1, <1>2, <2>1, ClockFacts DEF ClockInv, Measuring
  <2>4. Measuring'
    BY <2>2, <2>3 DEF Measuring
  <2>5. TypeOK'
    BY <1>1, <1>4, <2>1, <2>2, <2>3 DEF ClockInv, TypeOK
  <2>6. Waiting'
    BY <1>1, <1>4, <2>1 DEF ClockInv, Waiting
  <2> QED
    BY <2>4, <2>5, <2>6 DEF ClockInv
<1>6. CASE StillLow
  <2>1. ~clk_i.now /\ Wait("measure_edges", 1) /\ UNCHANGED <<locked, pos_duration, unitialized, at>> /\ at.measure_edges = "look"
    BY <1>6 DEF StillLow
  <2> QED
    BY <1>1, <1>2, <1>3, <1>4, <2>1, ClockFacts DEF ClockInv, TypeOK, Waiting, Measuring
<1>7. CASE HighEnds
  <2>1. /\ ~clk_i.now /\ Wait("measure_edges", 1) /\ UNCHANGED <<locked, pos_duration>> /\ unitialized' = FALSE
        /\ at' = [at EXCEPT !["measure_edges"] = "look"] /\ at.measure_edges = "high"
    BY <1>7 DEF HighEnds, GoesTo
  <2> QED
    BY <1>1, <1>2, <1>3, <1>4, <2>1, ClockFacts DEF ClockInv, TypeOK, Waiting, Measuring
<1>8. CASE Lock
  <2>1. /\ ~unitialized /\ UNCHANGED <<pos_duration, unitialized, wake>> /\ locked' = [locked EXCEPT !.next = TRUE]
        /\ at' = [at EXCEPT !["measure_edges"] = "done"]
    BY <1>8 DEF Lock, GoesTo
  <2>2. locked' \in [now : BOOLEAN, next : BOOLEAN]
    BY <2>1 DEF ClockInv, TypeOK
  <2> QED
    BY <1>1, <1>2, <1>3, <2>1, <2>2, ClockFacts DEF ClockInv, TypeOK, Waiting, Measuring
<1> QED
  BY <1>5, <1>6, <1>7, <1>8

LEMMA ToggleKeeps == ASSUME ClockInv, Toggle PROVE ClockInv'
<1> USE DEF Due
<1>1. /\ runnable' = runnable \ {"clk_gen"} /\ UNCHANGED <<clock, clk_i, locked, pos_duration, unitialized>>
      /\ clk_o' \in BOOLEAN
      /\ at' = [at EXCEPT !["clk_gen"] = IF clk_o' THEN "high" ELSE "low"]
  BY DEF Toggle, Runs, GoesTo
<1>2. HalfPeriod \in Nat
  <2>1. pos_duration \div MULT \in Nat
    BY ClockFacts
  <2> QED
    BY <2>1, ClockFacts DEF HalfPeriod
<1>3. /\ wake' \in [Processes -> Nat \cup {-1}] /\ wake'["measure_edges"] = wake["measure_edges"]
      /\ wake'["clk_i"] = wake["clk_i"]
  BY <1>2, WaitType DEF Toggle, Processes
<1>4. lead' \in -(DIV + MULT) - 1 .. MULT + 1
  <2>1. lead - DIV \in Int /\ lead \in -(DIV + MULT) - 1 .. MULT + 1
    BY ClockFacts DEF ClockInv, TypeOK
  <2> QED
    BY <2>1, WithinType, ClockFacts DEF Toggle
<1>5. at' \in [measure_edges : {"look", "high", "done"}, clk_gen : {"locked", "high", "low"}]
      /\ at'.measure_edges = at.measure_edges
  BY <1>1 DEF ClockInv, TypeOK
<1>6. Measured' = Measured /\ Left' = Left
  BY <1>1, <1>3 DEF Measured, Left
<1> QED
  BY <1>1, <1>3, <1>4, <1>5, <1>6 DEF ClockInv, TypeOK, Waiting, Measuring

LEMMA KernelKeeps == ASSUME ClockInv, Update \/ Tick PROVE ClockInv'
<1> USE DEF Due
<1>1. /\ runnable = {} /\ UNCHANGED <<clock, clk_o, pos_duration, unitialized, at, lead>>
      /\ clk_i \in [now : BOOLEAN, next : BOOLEAN] /\ locked \in [now : BOOLEAN, next : BOOLEAN]
      /\ wake \in [Processes -> Nat \cup {-1}] /\ Measured' = Measured
      /\ wake["clk_i"] >= 0 /\ wake["measure_edges"] \in {-1, 1}
  BY DEF Update, Tick, Settled, ClockInv, TypeOK, Waiting, Measured
<1>2. CASE Update
  <2>1. /\ clk_i' = [now |-> clk_i.next, next |-> clk_i.next] /\ locked' = [now |-> locked.next, next |-> locked.next]
        /\ wake' = [p \in Processes |-> IF wake[p] = 0 THEN -1 ELSE wake[p]] /\ runnable' \subseteq Processes
        /\ "clk_i" \in runnable' <=> wake["clk_i"] = 0
        /\ "measure_edges" \notin runnable'
    BY <1>1, <1>2 DEF Update, Signal, Processes
  <2>2. /\ wake' \in [Processes -> Nat \cup {-1}] /\ wake'["measure_edges"] = wake["measure_edges"]
        /\ wake'["clk_i"] = IF wake["clk_i"] = 0 THEN -1 ELSE wake["clk_i"]
    BY <1>1, <2>1 DEF Processes
  <2>3. TypeOK'
    BY <1>1, <2>1, <2>2 DEF ClockInv, TypeOK
  <2>4. Waiting'
    BY <1>1, <2>1, <2>2, ClockFacts DEF ClockInv, Waiting
  <2>5. Left' = (IF clk_i.next THEN wake["clk_i"] ELSE 0) /\ Left = Left'
    BY <1>1, <2>1, <2>2, ClockFacts DEF Left
  <2>6. Measuring'
    <3>1. CASE clk_i.now = clk_i.next
      BY <1>1, <2>1, <2>2, <2>5, <3>1 DEF ClockInv, Measuring, Waiting
    <3>2. CASE clk_i.now # clk_i.next
      <4>1. CASE ~unitialized
        BY <1>1, <4>1 DEF ClockInv, Measuring
      <4>2. CASE unitialized /\ clk_i.now
        <5>1. ~clk_i.next /\ Left = 0 /\ pos_duration = Measured /\ Measured # 0 /\ wake["clk_i"] >= 1
          <6>1. ~clk_i.next
            BY <1>1, <3>2, <4>2
          <6>2. Left = 0
            BY <2>5, <6>1
          <6> QED
            <7>1. wake["clk_i"] >= 1
              BY <3>2 DEF ClockInv, Waiting
            <7>2. pos_duration + Left = Measured
              BY <4>2 DEF ClockInv, Measuring
            <7> QED
              BY <6>1, <6>2, <7>1, <7>2, ClockFacts
        <5> QED
          BY <1>1, <2>1, <2>2, <4>2, <5>1, ClockFacts DEF ClockInv, Measuring
      <4>3. CASE unitialized /\ ~clk_i.now
        <5>1. clk_i.next /\ wake["clk_i"] = clock.hi /\ at.measure_edges = "look" /\ ~clock.first /\ pos_duration = 0
          BY <1>1, <3>2, <4>3, ClockFacts DEF ClockInv, Measuring, Waiting, TypeOK
        <5>2. Left' = clock.hi /\ Measured = clock.hi
          BY <2>5, <5>1 DEF Measured
        <5> QED
          BY <1>1, <2>1, <4>3, <5>1, <5>2, ClockFacts DEF ClockInv, Measuring
      <4> QED
        BY <4>1, <4>2, <4>3
    <3> QED
      BY <3>1, <3>2
  <2> QED
    BY <2>3, <2>4, <2>6 DEF ClockInv
<1>3. CASE Tick
  <2>1. /\ UNCHANGED <<clk_i, locked>> /\ clk_i.now = clk_i.next /\ wake["clk_i"] >= 1
        /\ wake' = [p \in Processes |-> IF wake[p] > 1 THEN wake[p] - 1 ELSE -1] /\ runnable' \subseteq Processes
        /\ "clk_i" \in runnable' <=> wake["clk_i"] = 1
        /\ "measure_edges" \in runnable' <=> wake["measure_edges"] = 1
    BY <1>1, <1>3 DEF Tick, Settled, Processes
  <2>2. /\ wake' \in [Processes -> Nat \cup {-1}] /\ wake'["measure_edges"] = -1
        /\ wake'["clk_i"] = IF wake["clk_i"] > 1 THEN wake["clk_i"] - 1 ELSE -1
    BY <1>1, <2>1 DEF Processes
  <2>3. TypeOK'
    BY <1>1, <2>1, <2>2 DEF ClockInv, TypeOK
  <2>4. Waiting'
    BY <1>1, <2>1, <2>2, ClockFacts DEF ClockInv, Waiting
  <2>5. at.measure_edges # "done" /\ clk_i.now => Left' = Left
    BY <1>1, <2>1, <2>2, ClockFacts DEF ClockInv, Waiting, Left
  <2>6. Measuring'
    BY <1>1, <2>1, <2>2, <2>5 DEF ClockInv, Measuring, Waiting
  <2> QED
    BY <2>3, <2>4, <2>6 DEF ClockInv
<1> QED
  BY <1>2, <1>3

\* The samples add up whatever the processes' order at an instant.
THEOREM ClockInvariant == Spec => []ClockInv
<1>1. ClockInv /\ [Next]_vars => ClockInv'
  <2> SUFFICES ASSUME ClockInv, [Next]_vars PROVE ClockInv'
    OBVIOUS
  <2>1. CASE UNCHANGED vars
    BY <2>1 DEF vars, ClockInv, TypeOK, Waiting, Measuring, Measured, Left, Due
  <2> QED
    BY <2>1, EdgeKeeps, MeasureKeeps, ToggleKeeps, KernelKeeps DEF Next
<1> QED
  BY ClockInit, <1>1, PTL DEF Spec

\* The types of the members and waits of ClockGen, for any clock.
THEOREM ClockTypes == Spec => []TypeOK
  BY ClockInvariant, PTL DEF ClockInv

\* measure_edges measures the high phase to the picosecond, or, of a clock that
\* starts high, what is left of it and one sample more.
THEOREM HighIsMeasured == Spec => []MeasuresFirstHigh
<1>1. ClockInv => MeasuresFirstHigh
  BY DEF ClockInv, Measuring, MeasuresFirstHigh
<1> QED
  BY ClockInvariant, <1>1, PTL

-----------------------------------------------------------------------------
(* How many edges there are: what clk_o is ahead of clk_i, or behind it, is *)
(* the difference between the times of their next rising edges.             *)

Rest(p) == IF Due(p) THEN 0 ELSE wake[p]

ToRise == Rest("clk_i") + (IF clk_i.next THEN clock.lo ELSE 0)
ToHigh ==
  IF at.clk_gen = "locked" THEN 0
  ELSE Rest("clk_gen") + (IF at.clk_gen = "high" THEN HalfPeriod ELSE 0)

\* clk_gen runs from the moment clk_i is locked, and then every HalfPeriod.
Generating ==
  /\ locked.now => locked.next
  /\ IF at.clk_gen = "locked" THEN wake["clk_gen"] = -1 /\ (Due("clk_gen") <=> locked.now)
     ELSE locked.now /\ Rest("clk_gen") \in 0 .. HalfPeriod /\ (Due("clk_gen") => wake["clk_gen"] = -1)
  /\ ~locked.now => lead = 0

\* No phase of clk_i is longer than it should be, once it has been high.
Regular ==
  ~clock.first =>
    /\ clk_i.next => Rest("clk_i") <= clock.hi
    /\ clk_i.now /\ ~clk_i.next => Rest("clk_i") <= clock.lo
    /\ pos_duration > 0 /\ ~clk_i.next => Rest("clk_i") <= clock.lo

Symmetric == clock.hi = clock.lo /\ ~clock.first

\* clk_o is never too slow, and in time if MULT divides the high phase.
Pace ==
  locked.now /\ Symmetric =>
    /\ 2 * clock.hi * lead <= MULT * (ToRise - ToHigh)
    /\ clock.hi % MULT = 0 => 2 * clock.hi * lead >= MULT * (ToRise - ToHigh - 2 * clock.hi)

PaceInv == ClockInv /\ Generating /\ Regular /\ Pace

\* What the division keeps and what it drops.
LEMMA Quotient ==
  ASSUME NEW m \in Nat \ {0}, NEW x \in Nat
  PROVE  x \div m \in Nat /\ m * (x \div m) <= x /\ (x % m = 0 => m * (x \div m) = x)
OBVIOUS

LEMMA HalfPeriodFacts ==
  ASSUME PaceInv, locked.now, Symmetric
  PROVE  /\ HalfPeriod \in Nat /\ MULT * HalfPeriod <= DIV * clock.hi
         /\ clock.hi % MULT = 0 => MULT * HalfPeriod = DIV * clock.hi
<1>1. pos_duration = clock.hi /\ clock.hi \in Nat /\ MULT \in Nat \ {0} /\ DIV \in Nat
  <2>1. locked.next
    BY DEF PaceInv, Generating
  <2> QED
    BY <2>1, ClockFacts DEF PaceInv, ClockInv, Measuring, Measured, Symmetric
<1> DEFINE q == clock.hi \div MULT
<1>2. q \in Nat /\ MULT * q <= clock.hi /\ (clock.hi % MULT = 0 => MULT * q = clock.hi)
  BY <1>1, Quotient
<1>3. HalfPeriod = q * DIV
  BY <1>1 DEF HalfPeriod
<1> HIDE DEF q
<1>4. MULT * (q * DIV) = DIV * (MULT * q) /\ q * DIV \in Nat
  BY <1>1, <1>2
<1>5. DIV * (MULT * q) <= DIV * clock.hi
  BY <1>1, <1>2
<1> QED
  BY <1>1, <1>2, <1>3, <1>4, <1>5

\* The times to the next rising edges are at most a period.
LEMMA TimesToEdges ==
  ASSUME PaceInv, locked.now, Symmetric
  PROVE  ToRise \in 0 .. 2 * clock.hi /\ ToHigh \in 0 .. 2 * HalfPeriod
<1>1. HalfPeriod \in Nat
  BY HalfPeriodFacts
<1>2. ToHigh \in 0 .. 2 * HalfPeriod
  BY <1>1 DEF PaceInv, Generating, ToHigh
<1>3. pos_duration > 0
  BY ClockFacts DEF PaceInv, Generating, ClockInv, Measuring
<1>4. Rest("clk_i") \in 0 .. clock.hi
  BY <1>3, ClockFacts DEF PaceInv, Regular, Symmetric, Rest, ClockInv, Waiting
<1> QED
  BY <1>2, <1>4, ClockFacts DEF PaceInv, ToRise, Symmetric

\* The arithmetic of the property.
LEMMA Ratio ==
  ASSUME NEW h \in Nat \ {0}, NEW m \in Nat \ {0}, NEW d \in Nat, NEW n \in Int,
         NEW r \in 0 .. 2 * h, NEW p \in Nat, NEW o \in 0 .. 2 * p, m * p <= d * h
  PROVE  /\ 2 * h * n <= m * (r - o) => n <= m
         /\ 2 * h * n >= m * (r - o - 2 * h) => n >= -(d + m)
         /\ 2 * h * (-(d + m) - 1) <= m * (r - o)
<1>1. m * o <= 2 * (m * p) /\ m * o >= 0
  BY Z3
<1>2. m * r >= 0 /\ m * r <= m * (2 * h)
  BY Z3
<1>3. m * (r - o) = m * r - m * o /\ m * (r - o - 2 * h) = m * r - m * o - 2 * (m * h)
  BY Z3
<1> QED
  OBVIOUS

LEMMA RatioStarts ==
  ASSUME NEW h \in Nat \ {0}, NEW m \in Nat \ {0}, NEW r \in 0 .. 2 * h
  PROVE  2 * h * 0 <= m * (r - 0) /\ 2 * h * 0 >= m * (r - 0 - 2 * h)
<1>1. m * (r - 0 - 2 * h) = -(m * (2 * h - r)) /\ 2 * h - r \in Nat
  BY Z3
<1>2. m * (2 * h - r) >= 0 /\ m * r >= 0
  BY <1>1, Z3
<1> QED
  BY <1>1, <1>2

LEMMA PaceInit == Init => PaceInv
<1> SUFFICES ASSUME Init PROVE PaceInv
  OBVIOUS
<1>1. ClockInv
  BY ClockInit
<1>2. /\ clk_i = [now |-> clock.first, next |-> clock.first] /\ locked = [now |-> FALSE, next |-> FALSE]
      /\ wake["clk_gen"] = -1 /\ runnable = {"measure_edges"}
  BY DEF Init, Signal, Processes
<1>3. Generating
  <2>1. at.clk_gen = "locked" /\ lead = 0
    BY DEF Init
  <2>2. ~locked.now /\ ~locked.next /\ "clk_gen" \notin runnable
    BY <1>2
  <2> QED
    BY <1>2, <2>1, <2>2 DEF Generating, Due
<1>4. Regular
  BY <1>2 DEF Init, Regular
<1>5. Pace
  BY <1>2 DEF Pace
<1> QED
  BY <1>1, <1>3, <1>4, <1>5 DEF PaceInv

\* A rising edge of clk_i: the next one is a period away.
LEMMA EdgePace == ASSUME PaceInv, Edge PROVE PaceInv'
<1>1. /\ ClockInv' /\ "clk_i" \in runnable /\ runnable' = runnable \ {"clk_i"}
      /\ UNCHANGED <<clock, locked, clk_o, pos_duration, unitialized, at>>
      /\ clk_i.now = clk_i.next /\ clk_i.now \in BOOLEAN /\ clk_i'.now = clk_i.now /\ clk_i'.next = ~clk_i.next
  BY EdgeKeeps DEF Edge, Runs, PaceInv, ClockInv, TypeOK, Waiting, Due
<1>2. /\ wake'["clk_gen"] = wake["clk_gen"]
      /\ wake'["clk_i"] = IF clk_i.now THEN clock.lo ELSE clock.hi
  <2>1. (IF clk_i.now THEN clock.lo ELSE clock.hi) \in Nat
    BY ClockFacts DEF PaceInv
  <2> QED
    BY <2>1, WaitType DEF PaceInv, Edge, Processes
<1>3. ~locked.now => lead' = lead
  BY DEF Edge
<1>4. /\ Rest("clk_i") = 0 /\ Rest("clk_i")' = IF clk_i.now THEN clock.lo ELSE clock.hi
      /\ Rest("clk_gen")' = Rest("clk_gen") /\ HalfPeriod' = HalfPeriod /\ ToHigh' = ToHigh
      /\ Due("clk_gen")' = Due("clk_gen")
  BY <1>1, <1>2 DEF Rest, Due, HalfPeriod, ToHigh
<1>5. Generating'
  BY <1>1, <1>2, <1>3, <1>4 DEF PaceInv, Generating
<1>6. Regular'
  <2>1. clock.hi \in Nat /\ clock.lo \in Nat
    BY ClockFacts DEF PaceInv
  <2>2. CASE clk_i.now
    <3>1. ~clk_i'.next /\ Rest("clk_i")' = clock'.lo
      BY <1>1, <1>4, <2>2
    <3> QED
      BY <1>1, <2>1, <3>1 DEF Regular
  <2>3. CASE ~clk_i.now
    <3>1. clk_i'.next /\ Rest("clk_i")' = clock'.hi
      BY <1>1, <1>4, <2>3
    <3> QED
      BY <1>1, <2>1, <3>1 DEF Regular
  <2> QED
    BY <2>2, <2>3
<1>7. ASSUME locked.now, Symmetric
      PROVE  /\ 2 * clock.hi * lead' <= MULT * (ToRise' - ToHigh')
             /\ clock.hi % MULT = 0 =>
                  2 * clock.hi * lead' >= MULT * (ToRise' - ToHigh' - 2 * clock.hi)
  <2>1. /\ clock.hi \in Nat \ {0} /\ MULT \in Nat \ {0} /\ DIV \in Nat \ {0} /\ clock.lo = clock.hi
        /\ lead \in -(DIV + MULT) - 1 .. MULT + 1
        /\ ToRise \in 0 .. 2 * clock.hi /\ ToHigh \in 0 .. 2 * HalfPeriod
        /\ HalfPeriod \in Nat /\ MULT * HalfPeriod <= DIV * clock.hi
    BY <1>7, ClockFacts, TimesToEdges, HalfPeriodFacts DEF PaceInv, ClockInv, TypeOK, Symmetric
  <2>2. CASE clk_i.now
    <3>1. lead' = lead
      BY <2>2 DEF Edge
    <3>2. ToRise' = clock.lo /\ ToRise = clock.lo
      <4>1. clk_i.next /\ ~clk_i'.next /\ Rest("clk_i")' = clock.lo /\ clock' = clock
        BY <1>1, <1>4, <2>2
      <4> QED
        BY <1>4, <2>1, <4>1 DEF ToRise
    <3> QED
      BY <1>4, <1>7, <2>1, <3>1, <3>2 DEF PaceInv, Pace
  <2>3. CASE ~clk_i.now
    <3>5. lead' = Within(lead + MULT)
      BY <1>7, <2>3 DEF Edge
    <3>6. ToRise' = clock.hi + clock.lo /\ ToRise = 0
      <4>1. ~clk_i.next /\ clk_i'.next /\ Rest("clk_i")' = clock.hi /\ clock' = clock
        BY <1>1, <1>4, <2>3
      <4> QED
        BY <1>4, <2>1, <4>1 DEF ToRise
    <3>1. lead' = Within(lead + MULT) /\ ToRise' = 2 * clock.hi /\ ToRise = 0
      BY <2>1, <3>5, <3>6
    <3>2. /\ 2 * clock.hi * (lead + MULT) <= MULT * (2 * clock.hi - ToHigh)
          /\ clock.hi % MULT = 0 => 2 * clock.hi * (lead + MULT) >= MULT * (2 * clock.hi - ToHigh - 2 * clock.hi)
      <4>1. 2 * clock.hi * lead <= MULT * (0 - ToHigh)
        BY <1>7, <3>1 DEF PaceInv, Pace
      <4>2. clock.hi % MULT = 0 => 2 * clock.hi * lead >= MULT * (0 - ToHigh - 2 * clock.hi)
        BY <1>7, <3>1 DEF PaceInv, Pace
      <4> QED
        BY <2>1, <4>1, <4>2
    <3>3. lead + MULT <= MULT /\ lead + MULT >= -(DIV + MULT)
      BY <2>1, <3>2, Ratio
    <3>4. lead' = lead + MULT
      BY <2>1, <3>1, <3>3 DEF Within
    <3> QED
      BY <1>4, <3>1, <3>2, <3>4
  <2> QED
    BY <2>2, <2>3
<1>8. Pace'
  BY <1>1, <1>7 DEF Pace, Symmetric
<1> QED
  BY <1>1, <1>5, <1>6, <1>8 DEF PaceInv

\* Nothing of clk_gen is measure_edges' business until clk_i is locked.
LEMMA MeasurePace ==
  ASSUME PaceInv, CountHigh \/ StillLow \/ HighEnds \/ Lock
  PROVE  PaceInv'
<1>1. /\ ClockInv' /\ "measure_edges" \in runnable /\ runnable' = runnable \ {"measure_edges"}
      /\ UNCHANGED <<clock, clk_i, clk_o, lead>>
  BY MeasureKeeps DEF CountHigh, StillLow, HighEnds, Lock, Measure, Runs, PaceInv, ClockInv, Waiting
<1>2. wake'["clk_i"] = wake["clk_i"] /\ wake'["clk_gen"] = wake["clk_gen"]
  BY WaitType DEF PaceInv, CountHigh, StillLow, HighEnds, Lock, Processes
<1>3. at'.clk_gen = at.clk_gen
  BY DEF PaceInv, ClockInv, TypeOK, CountHigh, StillLow, HighEnds, Lock, GoesTo
<1>4. locked'.now = locked.now /\ (locked.next => locked'.next) /\ (locked.now => pos_duration' = pos_duration)
  <2>1. locked.now => ~unitialized
    BY DEF PaceInv, Generating, ClockInv, Measuring
  <2>2. locked \in [now : BOOLEAN, next : BOOLEAN]
    BY DEF PaceInv, ClockInv, TypeOK
  <2>3. locked.now => at.measure_edges # "high"
    BY <2>1 DEF PaceInv, ClockInv, Measuring
  <2> QED
    BY <2>1, <2>2, <2>3 DEF CountHigh, StillLow, HighEnds, Lock
<1>5. /\ Rest("clk_i")' = Rest("clk_i") /\ Rest("clk_gen")' = Rest("clk_gen")
      /\ Due("clk_gen")' = Due("clk_gen") /\ ToRise' = ToRise
  BY <1>1, <1>2 DEF Rest, Due, ToRise
<1>6. locked.now => HalfPeriod' = HalfPeriod /\ ToHigh' = ToHigh
  BY <1>3, <1>4, <1>5 DEF HalfPeriod, ToHigh
<1>7. Generating'
  BY <1>1, <1>2, <1>3, <1>4, <1>5, <1>6 DEF PaceInv, Generating
<1>8. Regular'
  <2>1. pos_duration' = pos_duration \/ clk_i.now
    BY DEF CountHigh, StillLow, HighEnds, Lock
  <2> QED
    BY <1>1, <1>5, <2>1 DEF PaceInv, Regular
<1>9. Pace'
  BY <1>1, <1>4, <1>5, <1>6 DEF PaceInv, Pace, Symmetric
<1> QED
  BY <1>1, <1>7, <1>8, <1>9 DEF PaceInv

\* A rising edge of clk_o: the next one is two half periods away.
LEMMA TogglePace == ASSUME PaceInv, Toggle PROVE PaceInv'
<1>1. /\ ClockInv' /\ locked.now /\ "clk_gen" \in runnable /\ runnable' = runnable \ {"clk_gen"}
      /\ UNCHANGED <<clock, clk_i, locked, pos_duration, unitialized>>
      /\ clk_o' \in BOOLEAN /\ clk_o' = (at.clk_gen # "high")
  BY ToggleKeeps DEF PaceInv, Toggle, Runs
<1>2. HalfPeriod \in Nat /\ HalfPeriod' = HalfPeriod
  <2>1. pos_duration \div MULT \in Nat
    BY ClockFacts DEF PaceInv
  <2> QED
    BY <1>1, <2>1, ClockFacts DEF HalfPeriod, PaceInv
<1>3. wake'["clk_gen"] = HalfPeriod /\ wake'["clk_i"] = wake["clk_i"]
  BY <1>2, WaitType DEF PaceInv, Toggle, Processes
<1>4. at'.clk_gen = (IF clk_o' THEN "high" ELSE "low")
  BY DEF PaceInv, ClockInv, TypeOK, Toggle, GoesTo
<1>5. /\ Rest("clk_i")' = Rest("clk_i") /\ Rest("clk_gen")' = HalfPeriod /\ Rest("clk_gen") = 0
      /\ ~Due("clk_gen")' /\ ToRise' = ToRise
  BY <1>1, <1>3 DEF Rest, Due, ToRise
<1>6. Generating'
  BY <1>1, <1>2, <1>4, <1>5 DEF PaceInv, Generating
<1>7. Regular'
  BY <1>1, <1>5 DEF PaceInv, Regular
<1>8. ASSUME Symmetric
      PROVE  /\ 2 * clock.hi * lead' <= MULT * (ToRise' - ToHigh')
             /\ clock.hi % MULT = 0 =>
                  2 * clock.hi * lead' >= MULT * (ToRise' - ToHigh' - 2 * clock.hi)
  <2>1. /\ clock.hi \in Nat \ {0} /\ MULT \in Nat \ {0} /\ DIV \in Nat \ {0}
        /\ lead \in -(DIV + MULT) - 1 .. MULT + 1
        /\ ToRise \in 0 .. 2 * clock.hi /\ MULT * HalfPeriod <= DIV * clock.hi
        /\ clock.hi % MULT = 0 => MULT * HalfPeriod = DIV * clock.hi
    BY <1>1, <1>8, ClockFacts, TimesToEdges, HalfPeriodFacts DEF PaceInv, ClockInv, TypeOK
  <2>2. /\ 2 * clock.hi * lead <= MULT * (ToRise - ToHigh)
        /\ clock.hi % MULT = 0 => 2 * clock.hi * lead >= MULT * (ToRise - ToHigh - 2 * clock.hi)
    BY <1>1, <1>8 DEF PaceInv, Pace
  <2>3. CASE at.clk_gen = "high"
    <3>3. at'.clk_gen = "low" /\ lead' = lead
      BY <1>1, <1>4, <2>3 DEF Toggle
    <3>1. lead' = lead /\ ToHigh = HalfPeriod /\ ToHigh' = HalfPeriod
      BY <1>2, <1>5, <2>3, <3>3 DEF ToHigh
    <3> QED
      BY <1>5, <2>2, <3>1
  <2>4. CASE at.clk_gen # "high"
    <3>7. at'.clk_gen = "high" /\ lead' = Within(lead - DIV)
      BY <1>1, <1>4, <2>4 DEF Toggle
    <3>1. lead' = Within(lead - DIV) /\ ToHigh = 0 /\ ToHigh' = 2 * HalfPeriod
      BY <1>2, <1>5, <2>4, <3>7 DEF ToHigh
    <3>2. /\ 2 * clock.hi * (lead - DIV) <= MULT * (ToRise - 2 * HalfPeriod)
          /\ clock.hi % MULT = 0 =>
               2 * clock.hi * (lead - DIV) >= MULT * (ToRise - 2 * HalfPeriod - 2 * clock.hi)
      <4>1. 2 * clock.hi * lead <= MULT * ToRise
        BY <2>1, <2>2, <3>1
      <4>2. clock.hi % MULT = 0 => 2 * clock.hi * lead >= MULT * (ToRise - 2 * clock.hi)
        BY <2>1, <2>2, <3>1
      <4>3. 2 * clock.hi * (lead - DIV) = 2 * clock.hi * lead - 2 * (DIV * clock.hi)
        BY <2>1
      <4>4. MULT * (ToRise - 2 * HalfPeriod) = MULT * ToRise - 2 * (MULT * HalfPeriod)
        BY <1>2, <2>1
      <4>5. MULT * (ToRise - 2 * HalfPeriod - 2 * clock.hi)
              = MULT * (ToRise - 2 * clock.hi) - 2 * (MULT * HalfPeriod)
        BY <1>2, <2>1
      <4> QED
        BY <1>2, <2>1, <4>1, <4>2, <4>3, <4>4, <4>5
    <3>3. lead - DIV <= MULT
      BY <1>2, <2>1, <3>2, Ratio
    <3>4. lead' = lead - DIV \/ (lead' = -(DIV + MULT) - 1 /\ lead - DIV <= lead')
      BY <2>1, <3>1, <3>3 DEF Within
    <3>5. CASE lead' = lead - DIV
      BY <1>5, <3>1, <3>2, <3>5
    <3>6. CASE lead' = -(DIV + MULT) - 1 /\ lead - DIV <= lead'
      <4>1. 2 * clock.hi * lead' <= MULT * (ToRise - 2 * HalfPeriod)
        BY <1>2, <2>1, <3>6, Ratio
      <4>2. 2 * clock.hi * (lead - DIV) <= 2 * clock.hi * lead'
        BY <2>1, <3>6
      <4> QED
        BY <1>2, <1>5, <2>1, <3>1, <3>2, <3>6, <4>1, <4>2
    <3> QED
      BY <3>4, <3>5, <3>6
  <2> QED
    BY <2>3, <2>4
<1>9. Pace'
  BY <1>1, <1>8 DEF Pace, Symmetric
<1> QED
  BY <1>1, <1>6, <1>7, <1>9 DEF PaceInv

\* Both rising edges come nearer by a picosecond.
LEMMA TickPace == ASSUME PaceInv, Tick PROVE PaceInv'
<1>1. /\ ClockInv' /\ runnable = {} /\ UNCHANGED <<clock, clk_i, locked, clk_o, pos_duration, unitialized, at, lead>>
      /\ wake \in [Processes -> Nat \cup {-1}] /\ wake["clk_i"] >= 1 /\ wake["clk_gen"] # 0
  BY KernelKeeps DEF PaceInv, ClockInv, TypeOK, Waiting, Tick, Settled, Processes, Due
<1>2. \A p \in Processes : wake[p] >= 1 => Rest(p)' = Rest(p) - 1 /\ Rest(p) = wake[p]
                                           /\ (Due(p)' => wake'[p] = -1)
  BY <1>1 DEF Tick, Rest, Due
<1>3. wake["clk_gen"] = -1 => wake'["clk_gen"] = -1 /\ ~Due("clk_gen")'
  BY <1>1 DEF Tick, Due, Processes
<1>4. Rest("clk_i")' = Rest("clk_i") - 1 /\ Rest("clk_i") \in Nat \ {0} /\ HalfPeriod' = HalfPeriod
  BY <1>1, <1>2 DEF Processes, HalfPeriod
<1>5. at.clk_gen # "locked" =>
        /\ Rest("clk_gen")' = Rest("clk_gen") - 1 /\ Rest("clk_gen") \in Nat \ {0}
        /\ Due("clk_gen")' => wake'["clk_gen"] = -1
  BY <1>1, <1>2 DEF Processes, PaceInv, Generating, Rest, Due
<1>6. at.clk_gen = "locked" => ~locked.now
  BY <1>1 DEF PaceInv, Generating, Due
<1>7. Generating'
  <2>1. CASE at.clk_gen = "locked"
    BY <1>1, <1>3, <1>6, <2>1 DEF PaceInv, Generating
  <2>2. CASE at.clk_gen # "locked"
    <3>1. Rest("clk_gen") \in 0 .. HalfPeriod /\ HalfPeriod \in Int
      <4>1. Rest("clk_gen") \in 0 .. HalfPeriod
        BY <2>2 DEF PaceInv, Generating
      <4>2. pos_duration \div MULT \in Int /\ DIV \in Int
        BY ClockFacts DEF PaceInv
      <4> QED
        BY <4>1, <4>2 DEF HalfPeriod
    <3>2. Rest("clk_gen")' \in 0 .. HalfPeriod'
      BY <1>4, <1>5, <2>2, <3>1
    <3> QED
      BY <1>1, <1>5, <2>2, <3>2 DEF PaceInv, Generating
  <2> QED
    BY <2>1, <2>2
<1>8. Regular'
  BY <1>1, <1>4, ClockFacts DEF PaceInv, Regular
<1>9. locked.now /\ Symmetric =>
        ToRise' - ToHigh' = ToRise - ToHigh
        /\ ToRise' - ToHigh' - 2 * clock.hi = ToRise - ToHigh - 2 * clock.hi
  <2>1. SUFFICES ASSUME locked.now, Symmetric PROVE ToRise' - ToHigh' = ToRise - ToHigh
    OBVIOUS
  <2>2. HalfPeriod \in Nat /\ clock.lo \in Nat
    BY <2>1, HalfPeriodFacts, ClockFacts DEF PaceInv
  <2> QED
    BY <1>1, <1>4, <1>5, <1>6, <2>1, <2>2 DEF ToRise, ToHigh
<1>10. Pace'
  BY <1>1, <1>9 DEF PaceInv, Pace, Symmetric
<1> QED
  BY <1>1, <1>7, <1>8, <1>10 DEF PaceInv

\* The moment clk_i is locked, the next rising edge of clk_i is at most a period
\* away and the one of clk_o is due.
LEMMA UpdatePace == ASSUME PaceInv, Update PROVE PaceInv'
<1>1. /\ ClockInv' /\ runnable = {} /\ UNCHANGED <<clock, clk_o, pos_duration, unitialized, at, lead>>
      /\ clk_i'.now = clk_i.next /\ clk_i'.next = clk_i.next
      /\ locked'.now = locked.next /\ locked'.next = locked.next
      /\ wake \in [Processes -> Nat \cup {-1}] /\ wake["clk_i"] >= 0
  BY KernelKeeps DEF PaceInv, ClockInv, TypeOK, Waiting, Update, Signal, Due
<1>2. ASSUME NEW p \in Processes, wake[p] >= 0, p # "clk_gen" \/ locked.now = locked.next
      PROVE  Rest(p)' = Rest(p) /\ Rest(p) = wake[p]
  <2>1. wake[p] \in Nat /\ Rest(p) = wake[p]
    BY <1>1, <1>2 DEF Rest, Due
  <2>2. p \in runnable' <=> wake[p] = 0
    BY <1>2 DEF Update
  <2>3. wake[p] # 0 => wake'[p] = wake[p]
    BY <1>2 DEF Update
  <2> QED
    BY <2>1, <2>2, <2>3 DEF Rest, Due
<1>3. /\ Rest("clk_i")' = Rest("clk_i") /\ Rest("clk_i") \in Nat /\ HalfPeriod' = HalfPeriod
      /\ ToRise' = ToRise
  BY <1>1, <1>2 DEF Processes, HalfPeriod, ToRise
<1>4. wake["clk_gen"] = -1 =>
        wake'["clk_gen"] = -1 /\ (Due("clk_gen")' <=> locked.now # locked.next)
  BY <1>1 DEF Update, Due, Processes
<1>5. at.clk_gen # "locked" =>
        /\ locked.now /\ locked.next /\ Rest("clk_gen")' = Rest("clk_gen")
        /\ Due("clk_gen")' => wake'["clk_gen"] = -1
  <2>1. SUFFICES ASSUME at.clk_gen # "locked"
        PROVE  /\ locked.now /\ locked.next /\ Rest("clk_gen")' = Rest("clk_gen")
               /\ Due("clk_gen")' => wake'["clk_gen"] = -1
    OBVIOUS
  <2>2. locked.now /\ locked.next /\ wake["clk_gen"] >= 0
    BY <1>1, <2>1 DEF PaceInv, Generating, Rest, Due
  <2>3. Due("clk_gen")' => wake["clk_gen"] = 0
    BY <1>1, <2>2 DEF Update, Due, PaceInv, ClockInv, TypeOK
  <2>4. wake["clk_gen"] = 0 => wake'["clk_gen"] = -1
    BY <1>1 DEF Update, Processes
  <2> QED
    BY <1>2, <2>2, <2>3, <2>4 DEF Processes
<1>6. at.clk_gen = "locked" => ~locked.now /\ lead = 0
  BY <1>1 DEF PaceInv, Generating, Due
<1>7. locked \in [now : BOOLEAN, next : BOOLEAN]
  BY DEF PaceInv, ClockInv, TypeOK
<1>8. Generating'
  BY <1>1, <1>3, <1>4, <1>5, <1>6, <1>7 DEF PaceInv, Generating
<1>9. Regular'
  BY <1>1, <1>3, ClockFacts DEF PaceInv, Regular
<1>10. Pace'
  <2>1. SUFFICES ASSUME locked'.now, Symmetric
        PROVE  /\ 2 * clock.hi * lead <= MULT * (ToRise' - ToHigh')
               /\ clock.hi % MULT = 0 => 2 * clock.hi * lead >= MULT * (ToRise' - ToHigh' - 2 * clock.hi)
    BY <1>1 DEF Pace, Symmetric
  <2>2. CASE at.clk_gen # "locked"
    <3>1. locked.now /\ ToHigh' = ToHigh
      BY <1>1, <1>3, <1>5, <2>2 DEF ToHigh
    <3> QED
      BY <1>3, <2>1, <3>1 DEF PaceInv, Pace
  <2>3. CASE at.clk_gen = "locked"
    <3>1. lead = 0 /\ ToHigh' = 0
      BY <1>1, <1>6, <2>3 DEF ToHigh
    <3>3. ToRise' \in 0 .. 2 * clock.hi
      <4>1. pos_duration > 0
        BY <1>1, <2>1, ClockFacts DEF PaceInv, ClockInv, Measuring
      <4>2. ToRise \in 0 .. 2 * clock.hi
        BY <1>3, <2>1, <4>1, ClockFacts DEF PaceInv, Regular, Symmetric, ToRise
      <4> QED
        BY <1>3, <4>2
    <3>4. clock.hi \in Nat \ {0} /\ MULT \in Nat \ {0}
      BY ClockFacts DEF PaceInv
    <3> QED
      BY <3>1, <3>3, <3>4, RatioStarts
  <2> QED
    BY <2>2, <2>3
<1> QED
  BY <1>1, <1>8, <1>9, <1>10 DEF PaceInv

\* The edges of clk_o keep pace with those of clk_i, for any phase and ratio.
THEOREM PaceInvariant == Spec => []PaceInv
<1>1. PaceInv /\ [Next]_vars => PaceInv'
  <2> SUFFICES ASSUME PaceInv, [Next]_vars PROVE PaceInv'
    OBVIOUS
  <2>1. CASE UNCHANGED vars
    BY <2>1 DEF vars, PaceInv, ClockInv, TypeOK, Waiting, Measuring, Measured, Left, Due, Rest, ToRise,
       ToHigh, Generating, Regular, Pace, Symmetric, HalfPeriod
  <2> QED
    BY <2>1, EdgePace, MeasurePace, TogglePace, TickPace, UpdatePace DEF Next
<1> QED
  BY PaceInit, <1>1, PTL DEF Spec

\* clk_gen: MULT rising edges of clk_o for DIV of clk_i, for ever, when MULT
\* divides the high phase; never fewer when it does not.
THEOREM RatioIsKept == Spec => []EdgesInRatio
<1>1. ASSUME PaceInv, clock.hi = clock.lo, ~clock.first
      PROVE  lead <= MULT /\ (clock.hi % MULT = 0 => lead >= -(DIV + MULT))
  <2>1. CASE ~locked.now
    <3>1. lead = 0
      BY <1>1, <2>1, Zenon DEF PaceInv, Generating
    <3>2. MULT \in Nat /\ DIV \in Nat
      BY ClockGenAssumption
    <3> QED
      BY <3>1, <3>2
  <2>2. CASE locked.now
    <3>1. /\ ToRise \in 0 .. 2 * clock.hi /\ ToHigh \in 0 .. 2 * HalfPeriod
          /\ HalfPeriod \in Nat /\ MULT * HalfPeriod <= DIV * clock.hi
          /\ lead \in Int /\ clock.hi \in Nat \ {0} /\ MULT \in Nat \ {0} /\ DIV \in Nat
      BY <1>1, <2>2, ClockFacts, TimesToEdges, HalfPeriodFacts DEF PaceInv, ClockInv, TypeOK, Symmetric
    <3>2. /\ 2 * clock.hi * lead <= MULT * (ToRise - ToHigh)
          /\ clock.hi % MULT = 0 => 2 * clock.hi * lead >= MULT * (ToRise - ToHigh - 2 * clock.hi)
      BY <1>1, <2>2 DEF PaceInv, Pace, Symmetric
    <3> QED
      BY <3>1, <3>2, Ratio
  <2> QED
    BY <2>1, <2>2
<1>2. PaceInv => EdgesInRatio
  BY <1>1 DEF EdgesInRatio
<1> QED
  BY PaceInvariant, <1>2, PTL

-----------------------------------------------------------------------------
(* The SDRAM.  Its words are cells once the shifts of the word address are *)
(* seen to write row, bank and column one after the other, which no two    *)
(* cells share; the commands and the backdoors follow one by one.          *)

\* Powers of two count the subsets of an interval: they are positive, and the
\* shifts of the address add up.
LEMMA Subsets ==
  \A i, j \in Int : \A n \in Nat :
    n = j - i + 1 =>
      /\ IsFiniteSet(SUBSET (i .. j)) /\ Cardinality(SUBSET (i .. j)) = 2^n
      /\ 2^n \in Nat \ {0}
<1> SUFFICES ASSUME NEW i \in Int, NEW j \in Int, NEW n \in Nat, n = j - i + 1
             PROVE  /\ IsFiniteSet(SUBSET (i .. j)) /\ Cardinality(SUBSET (i .. j)) = 2^n
                    /\ 2^n \in Nat \ {0}
  OBVIOUS
<1>1. IsFiniteSet(i .. j) /\ Cardinality(i .. j) = n
  BY FS_Interval
<1>2. IsFiniteSet(SUBSET (i .. j)) /\ Cardinality(SUBSET (i .. j)) = 2^n
  BY <1>1, FS_SUBSET
<1>3. Cardinality(SUBSET (i .. j)) \in Nat
  BY <1>2, FS_CardinalityType
<1>4. Cardinality(SUBSET (i .. j)) # 0
  <2>1. {} \in SUBSET (i .. j)
    OBVIOUS
  <2> QED
    BY <1>2, <2>1, FS_EmptySet
<1> QED
  BY <1>2, <1>3, <1>4

LEMMA PowerOfTwo == ASSUME NEW n \in Nat PROVE 2^n \in Nat \ {0}
<1>1. 1 \in Int /\ n \in Int /\ n = n - 1 + 1
  OBVIOUS
<1> QED
  BY ONLY <1>1, Subsets, n \in Nat, Zenon

\* The subsets of two disjoint sets together are the pairs of a subset of each.
LEMMA SplitSubsets ==
  ASSUME NEW S, NEW T, S \cap T = {}
  PROVE  ExistsBijection((SUBSET S) \X (SUBSET T), SUBSET (S \cup T))
<1> DEFINE pairs == (SUBSET S) \X (SUBSET T)
           f == [p \in pairs |-> p[1] \cup p[2]]
<1>1. f \in [pairs -> SUBSET (S \cup T)]
  OBVIOUS
<1>2. ASSUME NEW p \in pairs PROVE p[1] = f[p] \cap S /\ p[2] = f[p] \cap T
  <2>1. f[p] = p[1] \cup p[2] /\ p[1] \subseteq S /\ p[2] \subseteq T
    OBVIOUS
  <2> QED
    BY <2>1
<1>3. ASSUME NEW p \in pairs, NEW q \in pairs, f[p] = f[q] PROVE p = q
  <2>1. p = <<p[1], p[2]>> /\ q = <<q[1], q[2]>>
    OBVIOUS
  <2>2. p[1] = f[p] \cap S /\ p[2] = f[p] \cap T
    BY <1>2
  <2>3. q[1] = f[q] \cap S /\ q[2] = f[q] \cap T
    BY <1>2
  <2> HIDE DEF f, pairs
  <2> QED
    BY <1>3, <2>1, <2>2, <2>3
<1>4. ASSUME NEW U \in SUBSET (S \cup T) PROVE \E p \in pairs : f[p] = U
  <2>1. <<U \cap S, U \cap T>> \in pairs
    OBVIOUS
  <2>2. f[<<U \cap S, U \cap T>>] = (U \cap S) \cup (U \cap T)
    BY <2>1
  <2>3. (U \cap S) \cup (U \cap T) = U
    OBVIOUS
  <2> QED
    BY <2>1, <2>2, <2>3
<1> HIDE DEF f, pairs
<1>5. f \in Bijection(pairs, SUBSET (S \cup T))
  BY <1>1, <1>3, <1>4 DEF Bijection, Injection, Surjection, IsInjective
<1> QED
  BY <1>5 DEF ExistsBijection, pairs

LEMMA PowersMultiply ==
  ASSUME NEW m \in Nat, NEW n \in Nat PROVE 2^(m + n) = 2^m * 2^n
<1> DEFINE S == 1 .. m
           T == m + 1 .. m + n
<1>1. 1 .. m + n = S \cup T /\ S \cap T = {}
  OBVIOUS
<1> HIDE DEF S, T
<1>2. IsFiniteSet(SUBSET S) /\ Cardinality(SUBSET S) = 2^m
  <2>1. 1 \in Int /\ m \in Int /\ m = m - 1 + 1
    OBVIOUS
  <2> QED
    BY ONLY <2>1, Subsets, m \in Nat, Zenon DEF S
<1>3. IsFiniteSet(SUBSET T) /\ Cardinality(SUBSET T) = 2^n
  <2>1. m + 1 \in Int /\ m + n \in Int /\ n = (m + n) - (m + 1) + 1
    OBVIOUS
  <2> QED
    BY ONLY <2>1, Subsets, n \in Nat, Zenon DEF T
<1>4. Cardinality(SUBSET (S \cup T)) = 2^(m + n)
  <2>1. 1 \in Int /\ m + n \in Int /\ m + n \in Nat /\ m + n = (m + n) - 1 + 1
    OBVIOUS
  <2> QED
    BY ONLY <1>1, <2>1, Subsets, Zenon
<1>5. /\ IsFiniteSet((SUBSET S) \X (SUBSET T))
      /\ Cardinality((SUBSET S) \X (SUBSET T)) = Cardinality(SUBSET S) * Cardinality(SUBSET T)
  BY <1>2, <1>3, FS_Product
<1>6. Cardinality(SUBSET (S \cup T)) = Cardinality((SUBSET S) \X (SUBSET T))
  BY <1>1, <1>5, SplitSubsets, FS_Bijection
<1> QED
  BY <1>2, <1>3, <1>4, <1>5, <1>6

\* Two numbers written with the same last digit and the same rest are one.
LEMMA Digits ==
  ASSUME NEW C \in Nat \ {0}, NEW u \in Nat, NEW v \in Nat,
         NEW c \in 0 .. C - 1, NEW d \in 0 .. C - 1, u * C + c = v * C + d
  PROVE  u = v /\ c = d
<1>1. ASSUME NEW x \in Nat, NEW y \in Nat, x < y PROVE y * C >= x * C + C
  <2>1. (y - x - 1) * C >= 0
    BY <1>1
  <2>2. (y - x - 1) * C = y * C - x * C - C
    BY <1>1
  <2>3. y * C \in Int /\ x * C \in Int
    OBVIOUS
  <2> QED
    BY <2>1, <2>2, <2>3
<1>2. u * C \in Int /\ v * C \in Int
  OBVIOUS
<1>3. ~ (u < v)
  <2> SUFFICES ASSUME u < v PROVE FALSE
    OBVIOUS
  <2>1. v * C >= u * C + C
    BY <1>1
  <2> QED
    BY <1>2, <2>1
<1>4. ~ (v < u)
  <2> SUFFICES ASSUME v < u PROVE FALSE
    OBVIOUS
  <2>1. u * C >= v * C + C
    BY <1>1
  <2> QED
    BY <1>2, <2>1
<1>5. u = v
  BY <1>3, <1>4
<1> QED
  BY <1>2, <1>5

\* A digit in front of another: the numbers they write, and how to read them.
LEMMA DigitsInRange ==
  ASSUME NEW C \in Nat \ {0}, NEW U \in Nat, NEW u \in 0 .. U - 1, NEW c \in 0 .. C - 1
  PROVE  u * C + c \in 0 .. U * C - 1
<1>1. (U - 1 - u) * C >= 0 /\ (U - 1 - u) * C = U * C - C - u * C
  OBVIOUS
<1>2. u * C >= 0 /\ u * C \in Int /\ U * C \in Int
  OBVIOUS
<1> QED
  BY <1>1, <1>2

LEMMA DigitsOf ==
  ASSUME NEW C \in Nat \ {0}, NEW U \in Nat, NEW w \in 0 .. U * C - 1
  PROVE  \E q \in 0 .. U - 1 : \E r \in 0 .. C - 1 : w = q * C + r
<1>1. w \in Nat /\ w < U * C
  OBVIOUS
<1>2. w \div C \in Nat /\ w % C \in 0 .. C - 1
  BY <1>1
<1>3. PICK q \in Nat : q = w \div C
  BY <1>2
<1>4. PICK r \in 0 .. C - 1 : r = w - C * q
  BY <1>1, <1>2, <1>3
<1> DEFINE z == q * C
           all == U * C
<1>5. z \in Int /\ C * q = z /\ all \in Int
  OBVIOUS
<1>6. q >= U => (q - U) * C >= 0 /\ (q - U) * C = z - all
  OBVIOUS
<1>7. w < all
  BY <1>1
<1> HIDE DEF z, all
<1>8. w = z + r
  BY <1>1, <1>4, <1>5
<1>9. q < U
  <2> SUFFICES ASSUME q >= U PROVE FALSE
    OBVIOUS
  <2>1. z - all >= 0
    BY <1>6
  <2> QED
    BY <1>1, <1>5, <1>7, <1>8, <2>1
<1>10. q \in 0 .. U - 1
  BY <1>9
<1> QED
  BY <1>8, <1>10 DEF z

\* The device: its sizes as numbers of rows, banks and columns, and the word of
\* each cell.
RowCount == 2^row_bits
ColCount == 2^col_bits
Cell(p) == (p[1] * ROW_SIZE + p[2]) * ColCount + p[3]

\* The powers of two of the geometry, multiplied out.
LEMMA Geometry ==
  /\ RowCount \in Nat \ {0} /\ ROW_SIZE \in Nat \ {0} /\ ColCount \in Nat \ {0}
  /\ 2^(bank_bits + col_bits) = ROW_SIZE * ColCount
  /\ Size = (RowCount * ROW_SIZE) * ColCount
  /\ RowCount * ROW_SIZE \in Nat /\ Size \in Nat
  /\ Banks = 0 .. ROW_SIZE - 1 /\ Rows = 0 .. RowCount - 1 /\ Columns = 0 .. ColCount - 1
  /\ OFFSET \in Nat /\ AddressMod \in Nat /\ 4 * Size < AddressMod
  /\ CellPlaces = Rows \X Banks \X Columns
<1>1. row_bits \in Nat /\ bank_bits \in Nat /\ col_bits \in Nat
      /\ OFFSET \in Nat /\ AddressMod \in Nat /\ ROW_SIZE = 2^bank_bits /\ 4 * Size < AddressMod
  BY SDRAMAssumption
<1>2. RowCount \in Nat \ {0} /\ ROW_SIZE \in Nat \ {0} /\ ColCount \in Nat \ {0}
  BY <1>1, PowerOfTwo DEF RowCount, ColCount
<1>3. 2^(bank_bits + col_bits) = ROW_SIZE * ColCount
  BY <1>1, PowersMultiply DEF ColCount
<1>4. Size = (RowCount * ROW_SIZE) * ColCount
  <2>1. row_bits + bank_bits + col_bits = (row_bits + bank_bits) + col_bits /\ row_bits + bank_bits \in Nat
    BY <1>1
  <2>2. Size = 2^(row_bits + bank_bits) * ColCount
    BY <1>1, <2>1, PowersMultiply DEF Size, ColCount
  <2>3. 2^(row_bits + bank_bits) = RowCount * ROW_SIZE
    BY <1>1, PowersMultiply DEF RowCount
  <2> QED
    BY <2>2, <2>3
<1>5. RowCount * ROW_SIZE \in Nat
  BY <1>2
<1>6. Size \in Nat
  BY <1>2, <1>4, <1>5
<1> QED
  BY <1>1, <1>2, <1>3, <1>4, <1>5, <1>6 DEF Banks, Rows, Columns, RowCount, ColCount, CellPlaces

\* Every cell is a word of the device, two cells are two words, and every word is
\* a cell.
LEMMA CellInRange ==
  ASSUME NEW p \in CellPlaces
  PROVE  /\ p[1] * ROW_SIZE + p[2] \in 0 .. RowCount * ROW_SIZE - 1
         /\ Cell(p) \in 0 .. Size - 1
         /\ p[1] \in 0 .. RowCount - 1 /\ p[2] \in 0 .. ROW_SIZE - 1 /\ p[3] \in 0 .. ColCount - 1
         /\ p = <<p[1], p[2], p[3]>>
<1>1. /\ p[1] \in 0 .. RowCount - 1 /\ p[2] \in 0 .. ROW_SIZE - 1 /\ p[3] \in 0 .. ColCount - 1
      /\ p = <<p[1], p[2], p[3]>>
  BY Geometry
<1>2. p[1] * ROW_SIZE + p[2] \in 0 .. RowCount * ROW_SIZE - 1
  BY <1>1, Geometry, DigitsInRange
<1>3. Cell(p) \in 0 .. (RowCount * ROW_SIZE) * ColCount - 1
  BY <1>1, <1>2, Geometry, DigitsInRange DEF Cell
<1> QED
  BY <1>1, <1>2, <1>3, Geometry

\* The shifts of the word address write row, bank and column one after the other.
LEMMA WordAddressIsCell ==
  ASSUME NEW p \in CellPlaces
  PROVE  to_word_address(p[1], p[2], p[3]) = Cell(p)
<1>1. p[1] \in Nat /\ p[2] \in Nat /\ p[3] \in Nat /\ Cell(p) \in Nat /\ Cell(p) < AddressMod
  <2>1. Cell(p) \in 0 .. Size - 1
    BY CellInRange
  <2> QED
    BY <2>1, CellInRange, Geometry
<1>2. p[1] * (ROW_SIZE * ColCount) + p[2] * ColCount + p[3] = Cell(p)
  <2> DEFINE r == p[1]
             b == p[2]
             c == p[3]
  <2> HIDE DEF r, b, c
  <2>1. r \in Nat /\ b \in Nat /\ c \in Nat /\ ROW_SIZE \in Nat /\ ColCount \in Nat
    BY <1>1, Geometry DEF r, b, c
  <2>2. r * (ROW_SIZE * ColCount) + b * ColCount + c = (r * ROW_SIZE + b) * ColCount + c
    BY <2>1
  <2> QED
    BY <2>2 DEF r, b, c, Cell
<1>3. to_word_address(p[1], p[2], p[3]) = Cell(p) % AddressMod
  BY <1>2, Geometry DEF to_word_address, ColCount
<1>4. Cell(p) % AddressMod = Cell(p)
  <2>1. AddressMod \in Nat /\ AddressMod > 0
    BY <1>1, Geometry
  <2> QED
    BY <1>1, <2>1
<1> QED
  BY <1>3, <1>4

LEMMA CellsDiffer ==
  ASSUME NEW p \in CellPlaces, NEW q \in CellPlaces, Cell(p) = Cell(q)
  PROVE  p = q
<1> DEFINE u == p[1] * ROW_SIZE + p[2]
           v == q[1] * ROW_SIZE + q[2]
<1>1. u \in Nat /\ v \in Nat
  BY CellInRange, Geometry
<1>2. u * ColCount + p[3] = v * ColCount + q[3]
  BY DEF Cell
<1> HIDE DEF u, v
<1>3. u = v /\ p[3] = q[3]
  <2>1. p[3] \in 0 .. ColCount - 1 /\ q[3] \in 0 .. ColCount - 1
    BY CellInRange
  <2>2. ColCount \in Nat \ {0}
    BY Geometry
  <2> QED
    BY ONLY <1>1, <1>2, <2>1, <2>2, Digits
<1>4. p[1] \in Nat /\ q[1] \in Nat
  BY CellInRange, Geometry
<1>5. p[1] * ROW_SIZE + p[2] = q[1] * ROW_SIZE + q[2]
  BY <1>3 DEF u, v
<1>6. p[1] = q[1] /\ p[2] = q[2]
  <2>1. p[2] \in 0 .. ROW_SIZE - 1 /\ q[2] \in 0 .. ROW_SIZE - 1
    BY CellInRange
  <2>2. ROW_SIZE \in Nat \ {0}
    BY Geometry
  <2> DEFINE r == p[1]
             s == q[1]
             a == p[2]
             b == q[2]
  <2>3. /\ r \in Nat /\ s \in Nat /\ a \in 0 .. ROW_SIZE - 1 /\ b \in 0 .. ROW_SIZE - 1
        /\ r * ROW_SIZE + a = s * ROW_SIZE + b
    BY <1>4, <1>5, <2>1
  <2> HIDE DEF r, s, a, b
  <2>4. r = s /\ a = b
    BY ONLY <2>2, <2>3, Digits
  <2> QED
    BY <2>4 DEF r, s, a, b
<1> QED
  BY <1>3, <1>6, CellInRange

LEMMA CellOf ==
  ASSUME NEW w \in 0 .. Size - 1
  PROVE  \E p \in CellPlaces : Cell(p) = w
<1>1. PICK u \in 0 .. RowCount * ROW_SIZE - 1, c \in 0 .. ColCount - 1 : w = u * ColCount + c
  BY Geometry, DigitsOf
<1>2. PICK r \in 0 .. RowCount - 1, b \in 0 .. ROW_SIZE - 1 : u = r * ROW_SIZE + b
  BY Geometry, DigitsOf
<1>3. <<r, b, c>> \in CellPlaces
  BY Geometry
<1>4. Cell(<<r, b, c>>) = (r * ROW_SIZE + b) * ColCount + c
  BY DEF Cell
<1> QED
  BY <1>1, <1>2, <1>3, <1>4

\* The cells of a map of words, and what the handlers keep: words in the map and
\* in read_buf, and rows the device has.
CellsOf(m) == [p \in CellPlaces |-> Held(m, Cell(p))]
Words(m) == \A x \in DOMAIN m : m[x] \in Word

SDRAMInvariant ==
  /\ Words(mem)
  /\ read_buf \in Seq(Word)
  /\ row_addr \in [Banks -> Rows] /\ dq_pins \in Word
  /\ strobe.copy \in {0, 1} /\ strobe.clear \in {0, 1}

LEMMA HeldIsWord == ASSUME NEW m, Words(m), NEW x PROVE Held(m, x) \in Word
<1>1. Zero \in Word
  BY SDRAMAssumption DEF Zero, Word
<1> QED
  BY <1>1 DEF Words, Held

LEMMA InsertHeld ==
  ASSUME NEW m, NEW a, NEW w, NEW x
  PROVE  Held(Insert(m, a, w), x) = IF x = a THEN w ELSE Held(m, x)
BY DEF Held, Insert

LEMMA InsertWords ==
  ASSUME NEW m, Words(m), NEW a, NEW w \in Word
  PROVE  Words(Insert(m, a, w))
BY DEF Words, Insert

LEMMA CellsAre == Cells = CellsOf(mem) /\ Cells' = CellsOf(mem')
BY WordAddressIsCell DEF Cells, CellsOf

\* Reading inserts what the cell already read as; writing changes its cell alone.
LEMMA ReadCells ==
  ASSUME NEW m, NEW a
  PROVE  CellsOf(Insert(m, a, Held(m, a))) = CellsOf(m)
<1>1. \A x : Held(Insert(m, a, Held(m, a)), x) = Held(m, x)
  BY InsertHeld
<1> QED
  BY <1>1 DEF CellsOf

LEMMA WriteCells ==
  ASSUME NEW m, NEW p \in CellPlaces, NEW w
  PROVE  CellsOf(Insert(m, Cell(p), w)) = [CellsOf(m) EXCEPT ![p] = w]
<1>1. ASSUME NEW q \in CellPlaces
      PROVE  Held(Insert(m, Cell(p), w), Cell(q)) = IF q = p THEN w ELSE Held(m, Cell(q))
  <2>1. CASE q = p
    BY <2>1, InsertHeld
  <2>2. CASE q # p
    <3>1. Cell(q) # Cell(p)
      BY <2>2, CellsDiffer
    <3> QED
      BY <2>2, <3>1, InsertHeld
  <2> QED
    BY <2>1, <2>2
<1> QED
  BY <1>1 DEF CellsOf

\* configure_region loads words, the swapped ones and the last one too.
LEMMA ConfiguredWords == Words(configured_region)
<1>1. Len(Image) \in Nat /\ 0 \in Byte /\ conf_addr \in Nat
      /\ \A n \in 1 .. Len(Image) : Image[n] \in Byte
  BY SDRAMAssumption
<1>2. Whole \in Nat /\ Tail4 \in 0 .. 3 /\ Len(Image) = 4 * Whole + Tail4
  BY <1>1 DEF Whole, Tail4
<1>3. ASSUME NEW n \in Nat, n < Whole PROVE Raw(n) \in Word
  <2>1. ASSUME NEW k \in 0 .. 3 PROVE Image[4 * n + k + 1] \in Byte
    BY <1>1, <1>2, <1>3
  <2> QED
    BY <2>1 DEF Raw, Word
<1>4. ASSUME NEW w \in Word PROVE Swapped(w) \in Word
  BY DEF Swapped, Word
<1>5. LastWord \in Word
  <2> SUFFICES ASSUME NEW k \in 0 .. 3
               PROVE  (IF k < Tail4 THEN Image[4 * Whole + k + 1]
                       ELSE IF Whole = 0 THEN 0 ELSE Raw(Whole - 1)[k]) \in Byte
    BY DEF LastWord, Word
  <2>1. k < Tail4 => Image[4 * Whole + k + 1] \in Byte
    BY <1>1, <1>2
  <2>2. Whole # 0 => Raw(Whole - 1)[k] \in Byte
    <3>1. Whole # 0 => Raw(Whole - 1) \in Word
      BY <1>2, <1>3
    <3> QED
      BY <3>1 DEF Word
  <2> QED
    BY <1>1, <2>1, <2>2
<1>6. ASSUME NEW x \in DOMAIN configured_region PROVE configured_region[x] \in Word
  <2> DEFINE first == conf_addr \div 4
             n == x - first
             count == (Len(Image) + 3) \div 4
  <2>1. first \in Nat /\ count \in Nat /\ count <= Whole + 1
    BY <1>1, <1>2
  <2>2. x \in first .. first + count - 1
    BY DEF configured_region
  <2>3. configured_region[x] =
          IF n = Whole THEN LastWord ELSE IF msb THEN Raw(n) ELSE Swapped(Raw(n))
    BY <2>2 DEF configured_region
  <2> HIDE DEF first, count
  <2>4. n \in Nat /\ n <= Whole
    BY <1>2, <2>1, <2>2
  <2> HIDE DEF n
  <2>5. n # Whole => Raw(n) \in Word
    BY <1>2, <1>3, <2>4
  <2> QED
    BY <1>4, <1>5, <2>3, <2>5
<1> QED
  BY <1>6 DEF Words

LEMMA InitArray == InitSDRAM => SDRAMInvariant /\ Array!Init
<1> SUFFICES ASSUME InitSDRAM PROVE SDRAMInvariant /\ Array!Init
  OBVIOUS
<1>1. Words(mem)
  BY ConfiguredWords DEF InitSDRAM
<1>2. Zero \in Word
  BY SDRAMAssumption DEF Zero, Word
<1>3. 0 \in Rows
  BY Geometry
<1>4. SDRAMInvariant
  <2>1. read_buf \in Seq(Word)
    BY DEF InitSDRAM
  <2>2. row_addr \in [Banks -> Rows]
    BY <1>3 DEF InitSDRAM
  <2>3. dq_pins \in Word
    BY <1>2 DEF InitSDRAM
  <2>4. strobe.copy \in {0, 1} /\ strobe.clear \in {0, 1}
    BY DEF InitSDRAM
  <2> QED
    BY <1>1, <2>1, <2>2, <2>3, <2>4 DEF SDRAMInvariant
<1>5. CellPlaces = Array!Places
  BY DEF CellPlaces, Array!Places, Array!Banks, Banks, Columns
<1>6. Cells \in [Array!Places -> Word]
  <2>1. ASSUME NEW p \in CellPlaces PROVE Held(mem, Cell(p)) \in Word
    BY <1>1, HeldIsWord
  <2> QED
    BY <1>5, <2>1, CellsAre DEF CellsOf
<1>7. pins.cke = 0 /\ strobe.copy = 0 /\ strobe.clear = 0
  BY DEF InitSDRAM
<1>8. row_addr = [b \in Array!Banks |-> 0] /\ read_buf = <<>> /\ dq_pins = Zero
  BY DEF InitSDRAM, Array!Banks, Banks
<1> QED
  BY <1>4, <1>6, <1>7, <1>8 DEF Array!Init

\* The values of CMD_T.
LEMMA CommandSet ==
  /\ {CMD[c] : c \in DOMAIN CMD} = {14, 6, 10, 8, 4, 5, 2, 0}
  /\ {CMD[c] : c \in DOMAIN CMD \ {"REFRESH", "LOAD_MEM_REG"}} = {14, 6, 10, 8, 4, 5}
  /\ CMD.NOP_1 = 14 /\ CMD.ACTIVATE = 6 /\ CMD.READ = 10 /\ CMD.WRITE = 8
  /\ CMD.PRECHARGE = 4 /\ CMD.PRECHARGE_ALL = 5 /\ CMD.REFRESH = 2 /\ CMD.LOAD_MEM_REG = 0
<1>1. DOMAIN CMD = {"NOP_1", "ACTIVATE", "READ", "WRITE", "PRECHARGE", "PRECHARGE_ALL",
                    "REFRESH", "LOAD_MEM_REG"}
  BY DEF CMD
<1>2. CMD.NOP_1 = 14 /\ CMD.ACTIVATE = 6 /\ CMD.READ = 10 /\ CMD.WRITE = 8
      /\ CMD.PRECHARGE = 4 /\ CMD.PRECHARGE_ALL = 5 /\ CMD.REFRESH = 2 /\ CMD.LOAD_MEM_REG = 0
  BY DEF CMD
<1> HIDE DEF CMD
<1>3. {CMD[c] : c \in DOMAIN CMD} = {14, 6, 10, 8, 4, 5, 2, 0}
  BY <1>1, <1>2
<1>4. {CMD[c] : c \in DOMAIN CMD \ {"REFRESH", "LOAD_MEM_REG"}} = {14, 6, 10, 8, 4, 5}
  BY <1>1, <1>2
<1> QED
  BY <1>2, <1>3, <1>4

\* The pins spell the command the table gives for the value they are decoded to.
LEMMA Decoding ==
  ASSUME NEW p, Fits(p)
  PROVE  /\ agg(p) \in {16, 14, 6, 10, 8, 4, 5, 2, 0}
         /\ agg(p) = 16 => p.cs_n = 1
         /\ agg(p) = 14 => Array!Is(p, 1, 1, 1)
         /\ agg(p) = 6 => Array!Is(p, 0, 1, 1)
         /\ agg(p) = 10 => Array!Is(p, 1, 0, 1)
         /\ agg(p) = 8 => Array!Is(p, 1, 0, 0)
         /\ agg(p) \in {4, 5} => Array!Is(p, 0, 1, 0) /\ A10(p) = agg(p) - 4
         /\ agg(p) = 2 => Array!Is(p, 0, 0, 1)
         /\ agg(p) = 0 => Array!Is(p, 0, 0, 0)
<1>1. /\ p.cs_n \in {0, 1} /\ p.ras_n \in {0, 1} /\ p.cas_n \in {0, 1} /\ p.we_n \in {0, 1}
      /\ p.a \in Nat
  BY DEF Fits
<1>2. A10(p) \in {0, 1}
  <2>1. 2^10 = 1024
    OBVIOUS
  <2> QED
    BY <1>1, <2>1 DEF A10
<1>3. agg(p) = IF p.cs_n = 1 THEN 16
               ELSE p.ras_n * 8 + p.cas_n * 4 + p.we_n * 2 + A10(p)
  BY DEF agg, CS_H
<1>4. agg(p) \in {16, 14, 6, 10, 8, 4, 5, 2, 0}
  BY CommandSet DEF Fits, CS_H
<1> DEFINE ras == p.ras_n
           cas == p.cas_n
           we == p.we_n
           bit == A10(p)
<1>5. ras \in {0, 1} /\ cas \in {0, 1} /\ we \in {0, 1} /\ bit \in {0, 1}
  BY <1>1, <1>2
<1>6. p.cs_n = 1 => agg(p) = 16
  BY <1>3
<1>7. p.cs_n = 0 => agg(p) = ras * 8 + cas * 4 + we * 2 + bit
  BY <1>3
<1> HIDE DEF ras, cas, we, bit
<1>8. p.cs_n = 0 =>
        /\ agg(p) # 16
        /\ agg(p) = 14 => ras = 1 /\ cas = 1 /\ we = 1
        /\ agg(p) = 6 => ras = 0 /\ cas = 1 /\ we = 1
        /\ agg(p) = 10 => ras = 1 /\ cas = 0 /\ we = 1
        /\ agg(p) = 8 => ras = 1 /\ cas = 0 /\ we = 0
        /\ agg(p) \in {4, 5} => ras = 0 /\ cas = 1 /\ we = 0 /\ bit = agg(p) - 4
        /\ agg(p) = 2 => ras = 0 /\ cas = 0 /\ we = 1
        /\ agg(p) = 0 => ras = 0 /\ cas = 0 /\ we = 0
  BY <1>5, <1>7
<1> QED
  BY <1>1, <1>4, <1>6, <1>8 DEF ras, cas, we, bit, Array!Is

\* Shifting the mask up leaves only its first bit to be tested.
LEMMA FirstByteOnly ==
  ASSUME NEW dm \in 0 .. 15
  PROVE  Masked(dm) \subseteq Array!Masks(dm) /\ (0 \in Array!Masks(dm) => 0 \in Masked(dm))
<1>1. 2^0 = 1 /\ 2^1 = 2 /\ 2^2 = 4 /\ 2^3 = 8
  OBVIOUS
<1>2. (dm * 1) % 2 = dm % 2 /\ dm \div 1 = dm
  OBVIOUS
<1>3. (dm * 2) % 2 = 0 /\ (dm * 4) % 2 = 0 /\ (dm * 8) % 2 = 0
  OBVIOUS
<1>4. ASSUME NEW k \in Masked(dm) PROVE k = 0 /\ dm % 2 = 1
  <2>1. k \in {0, 1, 2, 3} /\ (dm * 2^k) % 2 = 1
    BY DEF Masked
  <2> QED
    BY <1>1, <1>2, <1>3, <2>1
<1>5. 0 \in Array!Masks(dm) <=> dm % 2 = 1
  BY <1>1, <1>2 DEF Array!Masks
<1>6. dm % 2 = 1 => 0 \in Masked(dm)
  BY <1>1, <1>2 DEF Masked
<1> QED
  BY <1>4, <1>5, <1>6

LEMMA DrivenIsWord ==
  ASSUME NEW p, Fits(p), SDRAMInvariant
  PROVE  Driven(p) \in Word /\ Driven(p) = Array!Driven(p)
BY DEF Fits, SDRAMInvariant, Driven, Array!Driven

\* A handler at a time: what it does to the map, the table does to the cells.
LEMMA NopClock ==
  ASSUME SDRAMInvariant, NEW p, Fits(p), Nop(p)
  PROVE  SDRAMInvariant' /\ Array!Clock(p)
<1>1. pins' = p /\ p.cke = 1 /\ agg(p) \in {16, 14} /\ UNCHANGED <<strobe, mem, row_addr>>
  BY CommandSet DEF Nop, Handles, CS_H
<1>2. p.cs_n = 1 \/ Array!Is(p, 1, 1, 1)
  BY <1>1, Decoding
<1>3. Cells' = Cells
  BY <1>1, CellsAre
<1>4. CASE read_buf = <<>>
  <2>1. dq_pins' = Array!Driven(p) /\ dq_pins' \in Word /\ UNCHANGED read_buf
    BY <1>4, DrivenIsWord DEF Nop, Pending
  <2>2. SDRAMInvariant'
    BY <1>1, <2>1 DEF SDRAMInvariant, Words
  <2>3. Array!Nop(p)
    BY <1>1, <1>2, <1>3, <1>4, <2>1 DEF Array!Nop
  <2> QED
    BY <1>1, <2>2, <2>3 DEF Array!Clock
<1>5. CASE read_buf # <<>>
  <2> DEFINE n == Len(read_buf)
  <2>1. dq_pins' = read_buf[n] /\ read_buf' = SubSeq(read_buf, 1, n - 1)
    BY <1>5 DEF Nop
  <2>2. read_buf \in Seq(Word) /\ n \in Nat /\ n >= 1
    BY <1>5, EmptySeq, LenProperties DEF SDRAMInvariant
  <2>3. read_buf[n] \in Word /\ read_buf' \in Seq(Word)
    BY <2>1, <2>2, ElementOfSeq, SubSeqProperties
  <2>4. read_buf' = SubSeq(read_buf, 1, n - 1) \o SubSeq(read_buf, n + 1, n)
    <3>1. SubSeq(read_buf, n + 1, n) = <<>>
      BY <2>2, SubSeqProperties
    <3> QED
      BY <2>1, <2>3, <3>1
  <2>5. SDRAMInvariant'
    BY <1>1, <2>1, <2>3 DEF SDRAMInvariant, Words
  <2>6. Array!Nop(p)
    <3>1. n \in 1 .. Len(read_buf) /\ read_buf' = Array!RemoveAt(read_buf, n)
      BY <2>2, <2>4 DEF Array!RemoveAt
    <3>2. \E i \in 1 .. Len(read_buf) :
            dq_pins' = read_buf[i] /\ read_buf' = Array!RemoveAt(read_buf, i)
      BY <2>1, <3>1
    <3> QED
      BY <1>1, <1>2, <1>3, <1>5, <3>2 DEF Array!Nop
  <2> QED
    BY <1>1, <2>5, <2>6 DEF Array!Clock
<1> QED
  BY <1>4, <1>5

\* The cell of a row that may be open and a column.
LEMMA OpenPlace ==
  ASSUME SDRAMInvariant, NEW p, Fits(p), p.a \in Columns
  PROVE  /\ Array!Place(p) \in CellPlaces /\ address(p) = Cell(Array!Place(p))
         /\ Cells[Array!Place(p)] = Held(mem, address(p))
<1> DEFINE place == <<row_addr[p.ba], p.ba, p.a>>
<1>1. place \in CellPlaces
  BY DEF Fits, SDRAMInvariant, CellPlaces
<1>2. place[1] = row_addr[p.ba] /\ place[2] = p.ba /\ place[3] = p.a
  OBVIOUS
<1>3. place = Array!Place(p)
  BY DEF Array!Place
<1> HIDE DEF place
<1>4. address(p) = Cell(place)
  BY <1>1, <1>2, WordAddressIsCell DEF address
<1>5. Cells[place] = Held(mem, Cell(place))
  BY <1>1, CellsAre DEF CellsOf
<1> QED
  BY <1>1, <1>3, <1>4, <1>5

LEMMA ReadClock ==
  ASSUME SDRAMInvariant, NEW p, Fits(p), Read(p)
  PROVE  SDRAMInvariant' /\ Array!Clock(p)
<1>1. /\ pins' = p /\ p.cke = 1 /\ agg(p) = 10 /\ UNCHANGED <<strobe, row_addr>>
      /\ read_buf' = Append(read_buf, Held(mem, address(p)))
      /\ mem' = Insert(mem, address(p), Held(mem, address(p))) /\ dq_pins' = Driven(p)
  BY CommandSet DEF Read, Handles
<1>2. Array!Is(p, 1, 0, 1)
  BY <1>1, Decoding
<1>3. p.a \in Columns
  BY <1>1, CommandSet DEF Fits
<1>4. Held(mem, address(p)) \in Word
  BY HeldIsWord DEF SDRAMInvariant
<1>5. Cells' = Cells
  BY <1>1, ReadCells, CellsAre
<1>6. Words(mem')
  BY <1>1, <1>4, InsertWords DEF SDRAMInvariant
<1>7. SDRAMInvariant'
  <2>1. read_buf' \in Seq(Word)
    BY <1>1, <1>4 DEF SDRAMInvariant
  <2>2. dq_pins' \in Word
    BY <1>1, DrivenIsWord
  <2> QED
    BY <1>1, <1>4, <1>6, <2>1, <2>2 DEF SDRAMInvariant, Words
<1>8. Array!Read(p)
  BY <1>1, <1>2, <1>3, <1>5, OpenPlace, DrivenIsWord DEF Array!Read
<1> QED
  BY <1>1, <1>7, <1>8 DEF Array!Clock

LEMMA WriteClock ==
  ASSUME SDRAMInvariant, NEW p, Fits(p), Write(p)
  PROVE  SDRAMInvariant' /\ Array!Clock(p)
<1> DEFINE w == [k \in 0 .. 3 |-> IF k \in Masked(p.dm) THEN Held(mem, address(p))[k]
                                                        ELSE Driven(p)[k]]
<1>1. /\ pins' = p /\ p.cke = 1 /\ agg(p) = 8 /\ UNCHANGED <<strobe, row_addr, read_buf>>
      /\ mem' = Insert(mem, address(p), w) /\ dq_pins' = Driven(p)
  BY CommandSet DEF Write, Handles, Pending
<1>2. Array!Is(p, 1, 0, 0)
  BY <1>1, Decoding
<1>3. p.a \in Columns /\ p.dm \in 0 .. 15
  BY <1>1, CommandSet DEF Fits
<1>4. Held(mem, address(p)) \in Word /\ Driven(p) \in Word /\ Driven(p) = Array!Driven(p)
  BY HeldIsWord, DrivenIsWord DEF SDRAMInvariant
<1>5. w \in Word
  BY <1>4 DEF Word
<1>6. w = [k \in 0 .. 3 |-> IF k \in Masked(p.dm) THEN Cells[Array!Place(p)][k]
                                                  ELSE Array!Driven(p)[k]]
  BY <1>3, <1>4, OpenPlace
<1> HIDE DEF w
<1>7. Cells' = [Cells EXCEPT ![Array!Place(p)] = w]
  BY <1>1, <1>3, OpenPlace, WriteCells, CellsAre
<1>8. Words(mem')
  BY <1>1, <1>5, InsertWords DEF SDRAMInvariant
<1>9. SDRAMInvariant'
  BY <1>1, <1>4, <1>8 DEF SDRAMInvariant, Words
<1>10. Array!Write(p)
  <2>1. Masked(p.dm) \in SUBSET Array!Masks(p.dm) /\ (0 \in Array!Masks(p.dm) => 0 \in Masked(p.dm))
    BY <1>3, FirstByteOnly
  <2>2. Cells' = [Cells EXCEPT ![Array!Place(p)] =
          [k \in 0 .. 3 |-> IF k \in Masked(p.dm) THEN @[k] ELSE Array!Driven(p)[k]]]
    BY <1>6, <1>7
  <2> HIDE DEF w
  <2> QED
    BY <1>1, <1>2, <1>4, <2>1, <2>2 DEF Array!Write
<1> QED
  BY <1>1, <1>9, <1>10 DEF Array!Clock

\* The commands that neither read nor write.
LEMMA PendingClock ==
  ASSUME SDRAMInvariant, NEW p, Fits(p), Pending(p), UNCHANGED <<strobe, mem>>,
         row_addr' \in [Banks -> Rows]
  PROVE  /\ SDRAMInvariant' /\ Cells' = Cells
         /\ dq_pins' = Array!Driven(p) /\ UNCHANGED read_buf
<1>1. dq_pins' = Array!Driven(p) /\ dq_pins' \in Word /\ UNCHANGED read_buf
  BY DrivenIsWord DEF Pending
<1>2. Cells' = Cells
  BY CellsAre
<1> QED
  BY <1>1, <1>2 DEF SDRAMInvariant, Words

LEMMA OpenClock ==
  ASSUME SDRAMInvariant, NEW p, Fits(p), Activate(p) \/ Precharge(p) \/ PrechargeAll(p)
  PROVE  SDRAMInvariant' /\ Array!Clock(p)
<1>1. 0 \in Rows /\ p.ba \in Banks /\ row_addr \in [Banks -> Rows] /\ Array!Banks = Banks
  BY Geometry DEF Fits, SDRAMInvariant, Array!Banks, Banks
<1>2. CASE Activate(p)
  <2>1. /\ pins' = p /\ p.cke = 1 /\ agg(p) = 6 /\ UNCHANGED <<strobe, mem>> /\ Pending(p)
        /\ row_addr' = [row_addr EXCEPT ![p.ba] = p.a]
    BY <1>2, CommandSet DEF Activate, Handles
  <2>2. p.a \in Rows /\ Array!Is(p, 0, 1, 1)
    BY <2>1, CommandSet, Decoding DEF Fits
  <2>3. row_addr' \in [Banks -> Rows]
    BY <1>1, <2>1, <2>2
  <2>4. Array!Active(p)
    BY <2>1, <2>2, <2>3, PendingClock DEF Array!Active
  <2> QED
    BY <2>1, <2>3, <2>4, PendingClock DEF Array!Clock
<1>3. CASE Precharge(p)
  <2>1. /\ pins' = p /\ p.cke = 1 /\ agg(p) = 4 /\ UNCHANGED <<strobe, mem>> /\ Pending(p)
        /\ row_addr' = [row_addr EXCEPT ![p.ba] = 0]
    BY <1>3, CommandSet DEF Precharge, Handles
  <2>2. A10(p) = 0 /\ Array!Is(p, 0, 1, 0)
    BY <2>1, Decoding
  <2>3. row_addr' \in [Banks -> Rows]
    BY <1>1, <2>1
  <2>4. Array!Precharge(p)
    BY <2>1, <2>2, <2>3, PendingClock DEF Array!Precharge, A10
  <2> QED
    BY <2>1, <2>3, <2>4, PendingClock DEF Array!Clock
<1>4. CASE PrechargeAll(p)
  <2>1. /\ pins' = p /\ p.cke = 1 /\ agg(p) = 5 /\ UNCHANGED <<strobe, mem>> /\ Pending(p)
        /\ row_addr' = [b \in Banks |-> 0]
    BY <1>4, CommandSet DEF PrechargeAll, Handles
  <2>2. A10(p) = 1 /\ Array!Is(p, 0, 1, 0)
    BY <2>1, Decoding
  <2>3. row_addr' \in [Banks -> Rows]
    BY <1>1, <2>1
  <2>4. Array!Precharge(p)
    BY <1>1, <2>1, <2>2, <2>3, PendingClock DEF Array!Precharge, A10
  <2> QED
    BY <2>1, <2>3, <2>4, PendingClock DEF Array!Clock
<1> QED
  BY <1>2, <1>3, <1>4

LEMMA NoEffectClock ==
  ASSUME SDRAMInvariant, NEW p, Fits(p), NoEffect(p)
  PROVE  SDRAMInvariant' /\ Array!Clock(p)
<1>1. /\ pins' = p /\ UNCHANGED <<strobe, mem, row_addr>> /\ Pending(p)
      /\ p.cke = 0 \/ agg(p) \notin {14, 6, 10, 8, 4, 5, 16}
  BY CommandSet DEF NoEffect, CS_H
<1>2. row_addr' \in [Banks -> Rows]
  BY <1>1 DEF SDRAMInvariant
<1>3. p.cke \in {0, 1}
  BY DEF Fits
<1>4. CASE p.cke = 0
  BY <1>1, <1>2, <1>4, PendingClock DEF Array!Clock
<1>5. CASE p.cke = 1
  <2>1. Array!Is(p, 0, 0, 1) \/ Array!Is(p, 0, 0, 0)
    BY <1>1, <1>5, Decoding
  <2>2. Array!NoEffect(p)
    BY <1>1, <1>2, <2>1, PendingClock DEF Array!NoEffect
  <2> QED
    BY <1>1, <1>2, <1>5, <2>2, PendingClock DEF Array!Clock
<1> QED
  BY <1>3, <1>4, <1>5

\* A block of the backdoors, in words.
LEMMA FromWishbone ==
  ASSUME NEW here, NEW bytes, Block(here, bytes)
  PROVE  /\ fromWishbone(here) \in Nat /\ bytes \div 4 \in Nat
         /\ here = OFFSET + 4 * fromWishbone(here) /\ bytes = 4 * (bytes \div 4)
         /\ fromWishbone(here) + bytes \div 4 <= Size
<1>1. /\ here \in Nat /\ bytes \in Nat /\ (here - OFFSET) % 4 = 0 /\ bytes % 4 = 0
      /\ here >= OFFSET /\ here + bytes <= OFFSET + 4 * Size
  BY DEF Block
<1>2. OFFSET \in Nat /\ Size \in Nat /\ AddressMod \in Nat /\ 4 * Size < AddressMod
  BY Geometry
<1>3. here - OFFSET \in Nat /\ here - OFFSET < AddressMod
  BY <1>1, <1>2
<1>4. (here - OFFSET) % AddressMod = here - OFFSET
  BY <1>2, <1>3
<1>5. fromWishbone(here) = (here - OFFSET) \div 4
  BY <1>4 DEF fromWishbone
<1>6. ASSUME NEW k \in Nat, k % 4 = 0 PROVE k \div 4 \in Nat /\ k = 4 * (k \div 4)
  BY <1>6
<1>7. bytes \div 4 \in Nat /\ bytes = 4 * (bytes \div 4)
  BY <1>1, <1>6
<1>8. fromWishbone(here) \in Nat /\ here - OFFSET = 4 * fromWishbone(here)
  BY <1>1, <1>3, <1>5, <1>6
<1> DEFINE w == fromWishbone(here)
           n == bytes \div 4
<1>9. w \in Nat /\ n \in Nat /\ here - OFFSET = 4 * w /\ bytes = 4 * n
  BY <1>7, <1>8
<1> HIDE DEF w, n
<1>10. here = OFFSET + 4 * w /\ w + n <= Size
  BY <1>1, <1>2, <1>9
<1> QED
  BY <1>9, <1>10 DEF w, n

LEMMA AddressOfCell ==
  ASSUME NEW p \in CellPlaces
  PROVE  Array!Address(p) = OFFSET + 4 * Cell(p) /\ Cell(p) \in 0 .. Size - 1
BY CellInRange DEF Array!Address, Cell, ColCount

\* Cells are found at the addresses of the words of the device.
LEMMA CellAt ==
  ASSUME NEW w \in 0 .. Size - 1
  PROVE  Array!At(OFFSET + 4 * w) \in CellPlaces /\ Cell(Array!At(OFFSET + 4 * w)) = w
<1>1. CellPlaces = Array!Places
  BY DEF CellPlaces, Array!Places, Array!Banks, Banks, Columns
<1>2. PICK q \in CellPlaces : Cell(q) = w
  BY CellOf
<1>3. q \in Array!Places /\ Array!Address(q) = OFFSET + 4 * w
  BY <1>1, <1>2, AddressOfCell
<1> DEFINE p == Array!At(OFFSET + 4 * w)
<1>4. p \in Array!Places /\ Array!Address(p) = OFFSET + 4 * w
  BY <1>3 DEF Array!At
<1> HIDE DEF p
<1>5. OFFSET \in Nat /\ Size \in Nat
  BY Geometry
<1>6. p \in CellPlaces
  BY <1>1, <1>4
<1>7. Cell(p) = w
  BY <1>4, <1>5, <1>6, AddressOfCell
<1> QED
  BY <1>6, <1>7 DEF p

\* The handler copies a word of the block from where it was.
LEMMA CopyCells ==
  ASSUME NEW m, Words(m), NEW s, Block(s.copy_from, s.copy_size), Block(s.copy_to, s.copy_size),
         s.copy_to <= s.copy_from \/ s.copy_to >= s.copy_from + s.copy_size
  PROVE  /\ Words(Copied(m, s))
         /\ CellsOf(Copied(m, s)) =
              [p \in CellPlaces |->
                 LET d == Array!Address(p) - s.copy_to IN
                 IF d \in 0 .. s.copy_size - 1
                   THEN CellsOf(m)[Array!At(s.copy_from + d)] ELSE CellsOf(m)[p]]
<1> DEFINE from == fromWishbone(s.copy_from)
           to == fromWishbone(s.copy_to)
           n == s.copy_size \div 4
           block == to .. to + n - 1
<1>1. /\ from \in Nat /\ to \in Nat /\ n \in Nat /\ from + n <= Size /\ to + n <= Size
      /\ s.copy_from = OFFSET + 4 * from /\ s.copy_to = OFFSET + 4 * to /\ s.copy_size = 4 * n
  BY FromWishbone
<1>2. Copied(m, s) =
        [x \in DOMAIN m \cup block \cup from .. from + n - 1 |->
           IF x \in block THEN Held(m, Smeared(from, to, x - to)) ELSE Held(m, x)]
  BY DEF Copied
<1> HIDE DEF from, to, n
<1>3. Words(Copied(m, s))
  BY <1>2, HeldIsWord DEF Words
<1>4. OFFSET \in Nat /\ Size \in Nat
  BY Geometry
<1>5. to <= from \/ to >= from + n
  BY <1>1, <1>4
<1>6. ASSUME NEW i \in 0 .. n - 1 PROVE Smeared(from, to, i) = from + i
  <2>1. CASE to > from
    <3>1. to - from \in Nat /\ i < to - from
      BY <1>1, <1>5, <2>1
    <3>2. i % (to - from) = i
      BY <3>1
    <3> QED
      BY <2>1, <3>2 DEF Smeared
  <2>2. CASE ~ (to > from)
    BY <2>2 DEF Smeared
  <2> QED
    BY <2>1, <2>2
<1>7. ASSUME NEW x \in Nat
      PROVE  Held(Copied(m, s), x) = IF x \in block THEN Held(m, from + (x - to)) ELSE Held(m, x)
  <2>1. CASE x \in block
    <3>1. x - to \in 0 .. n - 1
      BY <1>1, <2>1
    <3>2. Smeared(from, to, x - to) = from + (x - to)
      BY <1>6, <3>1
    <3> HIDE DEF block
    <3>3. Held(Copied(m, s), x) = Held(m, Smeared(from, to, x - to))
      BY <1>2, <2>1 DEF Held
    <3> QED
      BY <2>1, <3>2, <3>3
  <2>2. CASE x \notin block
    <3> HIDE DEF block
    <3> QED
      BY <1>2, <2>2 DEF Held
  <2> QED
    BY <2>1, <2>2
<1>8. ASSUME NEW p \in CellPlaces, NEW d, d = Array!Address(p) - s.copy_to
      PROVE  Held(Copied(m, s), Cell(p)) =
               IF d \in 0 .. s.copy_size - 1
                 THEN CellsOf(m)[Array!At(s.copy_from + d)] ELSE CellsOf(m)[p]
  <2>1. Cell(p) \in 0 .. Size - 1 /\ Cell(p) \in Nat /\ d = 4 * (Cell(p) - to)
    BY <1>1, <1>4, <1>8, AddressOfCell
  <2>2. d \in 0 .. s.copy_size - 1 <=> Cell(p) \in block
    BY <1>1, <2>1
  <2>3. CASE Cell(p) \in block
    <3> DEFINE w == from + (Cell(p) - to)
    <3>1. w \in 0 .. Size - 1 /\ s.copy_from + d = OFFSET + 4 * w
      BY <1>1, <1>4, <2>1, <2>3
    <3> HIDE DEF w
    <3>2. CellsOf(m)[Array!At(s.copy_from + d)] = Held(m, w)
      BY <3>1, CellAt DEF CellsOf
    <3>3. Held(Copied(m, s), Cell(p)) = Held(m, w)
      BY <1>7, <2>1, <2>3 DEF w
    <3> QED
      BY <2>2, <2>3, <3>2, <3>3
  <2>4. CASE Cell(p) \notin block
    <3>1. Held(Copied(m, s), Cell(p)) = CellsOf(m)[p]
      BY <1>7, <2>1, <2>4 DEF CellsOf
    <3> QED
      BY <2>2, <2>4, <3>1
  <2> QED
    BY <2>3, <2>4
<1>9. ASSUME NEW p \in CellPlaces
      PROVE  CellsOf(Copied(m, s))[p] =
               LET d == Array!Address(p) - s.copy_to IN
               IF d \in 0 .. s.copy_size - 1
                 THEN CellsOf(m)[Array!At(s.copy_from + d)] ELSE CellsOf(m)[p]
  BY <1>8 DEF CellsOf
<1>10. CellsOf(Copied(m, s)) = [p \in CellPlaces |-> CellsOf(Copied(m, s))[p]]
  BY DEF CellsOf
<1> QED
  BY <1>3, <1>9, <1>10

\* The handler clears the words of the block and no other.
LEMMA ClearCells ==
  ASSUME NEW m, Words(m), NEW s, s.clear_to \in Nat, Block(s.clear_from, s.clear_to - s.clear_from)
  PROVE  /\ Words(Cleared(m, s))
         /\ CellsOf(Cleared(m, s)) =
              [p \in CellPlaces |->
                 IF Array!Address(p) \in s.clear_from .. s.clear_to - 1
                   THEN Zero ELSE CellsOf(m)[p]]
<1> DEFINE from == fromWishbone(s.clear_from)
           to == fromWishbone(s.clear_to)
           block == from .. to - 1
<1>1. OFFSET \in Nat /\ Size \in Nat /\ s.clear_from \in Nat
      /\ s.clear_from >= OFFSET
  BY Geometry DEF Block
<1>2. /\ from \in Nat /\ to \in Nat
      /\ s.clear_from = OFFSET + 4 * from /\ s.clear_to = OFFSET + 4 * to
  <2>1. from \in Nat /\ s.clear_from = OFFSET + 4 * from
    BY FromWishbone
  <2>2. Block(s.clear_to, 0)
    <3> DEFINE a == s.clear_from
               b == s.clear_to
    <3>1. /\ a \in Nat /\ b \in Nat /\ a >= OFFSET /\ b - a >= 0
          /\ (a - OFFSET) % 4 = 0 /\ (b - a) % 4 = 0 /\ a + (b - a) <= OFFSET + 4 * Size
      BY <1>1 DEF Block
    <3> HIDE DEF a, b
    <3>2. (b - OFFSET) % 4 = 0 /\ b >= OFFSET /\ b + 0 <= OFFSET + 4 * Size
      BY <1>1, <3>1
    <3> QED
      BY <3>1, <3>2 DEF a, b, Block
  <2>3. to \in Nat /\ s.clear_to = OFFSET + 4 * to
    BY <2>2, FromWishbone
  <2> QED
    BY <2>1, <2>3
<1>3. Cleared(m, s) = [x \in DOMAIN m \cup block |-> IF x \in block THEN Zero ELSE m[x]]
  BY DEF Cleared
<1> HIDE DEF from, to
<1>4. Zero \in Word
  BY SDRAMAssumption DEF Zero, Word
<1>5. Words(Cleared(m, s))
  BY <1>3, <1>4 DEF Words
<1>6. ASSUME NEW x PROVE Held(Cleared(m, s), x) = IF x \in block THEN Zero ELSE Held(m, x)
  <2> HIDE DEF block
  <2> QED
    BY <1>3 DEF Held
<1>7. ASSUME NEW p \in CellPlaces
      PROVE  Array!Address(p) \in s.clear_from .. s.clear_to - 1 <=> Cell(p) \in block
  <2>1. Cell(p) \in 0 .. Size - 1 /\ Array!Address(p) = OFFSET + 4 * Cell(p)
    BY AddressOfCell
  <2> QED
    BY <1>1, <1>2, <2>1
<1> HIDE DEF block
<1> QED
  BY <1>5, <1>6, <1>7 DEF CellsOf

\* The handler acts on a level, the backdoor on a rise: with one strobe at a time
\* a level seen is a rise.
LEMMA BackdoorStep ==
  ASSUME SDRAMInvariant, NEW s, Asks(s), Separate(s), backdoor_handler(s)
  PROVE  SDRAMInvariant' /\ Array!Backdoor(s)
<1> DEFINE m == IF s.copy = 1 THEN Copied(mem, s) ELSE mem
<1>1. /\ strobe' = s /\ mem' = IF s.clear = 1 THEN Cleared(m, s) ELSE m
      /\ UNCHANGED <<read_buf, row_addr, dq_pins, pins>>
  BY DEF backdoor_handler
<1>2. /\ s.copy \in {0, 1} /\ s.clear \in {0, 1} /\ strobe.copy \in {0, 1} /\ strobe.clear \in {0, 1}
      /\ Words(mem)
  BY DEF Asks, SDRAMInvariant
<1>3. Array!Rises(s, "copy") <=> s.copy = 1
  <2>1. s.copy = 1 => strobe.copy = 0
    BY <1>2 DEF Separate, backdoor_handler
  <2> QED
    BY <2>1 DEF Array!Rises
<1>4. Array!Rises(s, "clear") <=> s.clear = 1
  <2>1. s.clear = 1 => strobe.clear = 0
    BY <1>2 DEF Separate, backdoor_handler
  <2> QED
    BY <2>1 DEF Array!Rises
<1>5. Words(m) /\ CellsOf(m) = [p \in CellPlaces |-> Array!Copied(s, p)]
  <2>1. CASE s.copy = 1
    <3>1. Words(Copied(mem, s))
          /\ CellsOf(Copied(mem, s)) =
               [p \in CellPlaces |->
                 LET d == Array!Address(p) - s.copy_to IN
                 IF d \in 0 .. s.copy_size - 1
                   THEN CellsOf(mem)[Array!At(s.copy_from + d)] ELSE CellsOf(mem)[p]]
      BY <1>2, <2>1, CopyCells DEF Asks
    <3> QED
      BY <1>3, <2>1, <3>1, CellsAre DEF Array!Copied
  <2>2. CASE s.copy # 1
    BY <1>2, <1>3, <2>2, CellsAre DEF Array!Copied, CellsOf
  <2> QED
    BY <2>1, <2>2
<1> HIDE DEF m
<1>6. Words(mem') /\ CellsOf(mem') =
        [p \in CellPlaces |->
           IF Array!Rises(s, "clear") /\ Array!Address(p) \in s.clear_from .. s.clear_to - 1
             THEN Zero ELSE Array!Copied(s, p)]
  <2>1. CASE s.clear = 1
    <3>1. Words(Cleared(m, s))
          /\ CellsOf(Cleared(m, s)) =
               [p \in CellPlaces |->
                  IF Array!Address(p) \in s.clear_from .. s.clear_to - 1
                    THEN Zero ELSE CellsOf(m)[p]]
      BY <1>5, <2>1, ClearCells DEF Asks
    <3> QED
      BY <1>1, <1>4, <1>5, <2>1, <3>1
  <2>2. CASE s.clear # 1
    BY <1>1, <1>4, <1>5, <2>2
  <2> QED
    BY <2>1, <2>2
<1>7. SDRAMInvariant'
  BY <1>1, <1>2, <1>6 DEF SDRAMInvariant
<1>8. CellPlaces = Array!Places
  BY DEF CellPlaces, Array!Places, Array!Banks, Banks, Columns
<1>9. Array!Backdoor(s)
  BY <1>1, <1>6, <1>8, CellsAre DEF Array!Backdoor
<1> QED
  BY <1>7, <1>9

LEMMA ArrayStep ==
  SDRAMInvariant /\ [NextSDRAM]_sdram_vars => SDRAMInvariant' /\ [Array!Next]_(Array!vars)
<1> SUFFICES ASSUME SDRAMInvariant, [NextSDRAM]_sdram_vars
             PROVE  SDRAMInvariant' /\ [Array!Next]_(Array!vars)
  OBVIOUS
<1>1. ASSUME NEW p \in Pins, sdram_handler(p)
      PROVE  SDRAMInvariant' /\ Array!Clock(p)
  <2>1. Fits(p)
    BY SDRAMAssumption
  <2> QED
    BY <1>1, <2>1, NopClock, ReadClock, WriteClock, OpenClock, NoEffectClock DEF sdram_handler
<1>2. ASSUME NEW s \in Strobes, Separate(s), backdoor_handler(s)
      PROVE  SDRAMInvariant' /\ Array!Backdoor(s)
  <2>1. Asks(s)
    BY SDRAMAssumption
  <2> QED
    BY <1>2, <2>1, BackdoorStep
<1>3. CASE UNCHANGED sdram_vars
  <2>1. UNCHANGED <<mem, read_buf, row_addr, dq_pins, pins, strobe>>
    BY <1>3 DEF sdram_vars
  <2>2. SDRAMInvariant'
    BY <2>1 DEF SDRAMInvariant, Words
  <2>3. UNCHANGED Array!vars
    BY <2>1, CellsAre DEF Array!vars
  <2> QED
    BY <2>2, <2>3
<1> QED
  BY <1>1, <1>2, <1>3 DEF NextSDRAM, Array!Next

\* For every geometry, memory content and controller that keeps to the table,
\* the maps, rows and shifted addresses of the handlers act as the array of cells
\* the command table describes (generic_sdram.hpp:104-237).
THEOREM CellsAreTheArray == SDRAMSpec => ImplementsArray
<1>1. InitSDRAM => SDRAMInvariant /\ Array!Init
  BY InitArray
<1>2. SDRAMInvariant /\ [NextSDRAM]_sdram_vars => SDRAMInvariant' /\ [Array!Next]_(Array!vars)
  BY ArrayStep
<1> QED
  BY <1>1, <1>2, PTL DEF SDRAMSpec, ImplementsArray, Array!Spec
=============================================================================
