-------------------------- MODULE RoutedSystemProofs --------------------------
(***************************************************************************)
(* RoutedSystem implements AddressSpace, for any number of initiators,     *)
(* memories and ROMs, and any address map whose regions are disjoint and   *)
(* whose masks take each region to the addresses its target starts at.     *)
(***************************************************************************)
EXTENDS RoutedSystem, TLAPS

ASSUME ConfigAssumption ==
  /\ \A i, j \in Targets, a \in WordAddresses :
       Router!Matches(i, a) /\ Router!Matches(j, a) => i = j
  /\ \A i \in Memories, a \in WordAddresses : Router!Matches(i, a) =>
       Router!masked_address(i, a) = a - initiatorsConfig[i].baseAddress
  /\ \A i \in Roms, a \in WordAddresses : Router!Matches(i, a) =>
       Router!masked_address(i, a) - baseaddr = a - initiatorsConfig[i].baseAddress
  /\ \A a \in WordAddresses : a % 4 = 0
  /\ \A a \in RomCells : RomWord(a) \in Word
  /\ \A a \in RomTails : \E word \in Word : TailIs(a, word)

StoreOK ==
  /\ mem \in [Memories -> [0 .. SIZE - 1 -> Word]]
  /\ ops \in [Memories -> [{"READ", "WRITE"} -> Nat]]
  /\ writer \in [Memories -> [{"READ", "WRITE"} -> SUBSET Threads]]
  /\ \A m \in Memories : \A d \in {"READ", "WRITE"} : \A th \in writer[m][d] : th[2] = d
  /\ data \in [Buffers -> Word]

Inv == I!IInv /\ StoreOK

LEMMA HelperFacts ==
  /\ \A c \in HelperCalls : c.dir \in I!Dirs /\ c.byt \in BOOLEAN
  /\ \A c \in HelperCalls : AtOnce(I!PayloadOf(c)) \subseteq 0 .. I!Pulse + I!RestTime - 1
  /\ \A c \in HelperCalls : c.dir = "READ" => c.byt = FALSE
BY SystemAssumption DEF I!Dirs, AtOnce, I!Pulse, I!RestTime

-----------------------------------------------------------------------------
(* The threads of the system are those of Initiator *)

LEMMA ThreadStep == ASSUME NEW th \in Threads, Transport(th) PROVE I!Kernel
<1>1. \/ \E why \in Failures : I!CallFails(th, why)
      \/ \E resp \in I!Responses : I!CallReturnsAtOnce(th, resp)
  <2>1. ASSUME NEW i \in Targets, Refused(th, i)
        PROVE M!Status(Forwarded(th, i)) \in I!Responses
    BY DEF M!Status, I!Responses
  <2>2. QED
    BY <2>1 DEF Transport, NoRoute, WriteMemory, ReadMemory, Refused, SecondWriter, StrayMemory,
         ReadRom, ReadPastImage, RomReports, Done, Failures, I!Responses
<1>2. 0 \in AtOnce(I!Payload(th)) BY DEF AtOnce
<1>3. QED BY <1>1, <1>2 DEF I!Kernel, Threads

LEMMA IStep == [Next]_vars => [I!Next]_(I!vars)
<1>1. ASSUME Helper PROVE I!Helper
  BY <1>1 DEF Helper, Dowrite, Doread, I!Helper
<1>2. ASSUME TimeStep PROVE I!Kernel
  BY <1>2 DEF TimeStep, I!Kernel
<1>3. QED
  BY <1>1, <1>2, ThreadStep DEF Next, Kernel, Stopped, vars, threads, I!vars, I!Next

LEMMA InitInv == Init => Inv
<1> SUFFICES ASSUME Init PROVE Inv OBVIOUS
<1>1. I!IInv BY HelperFacts, I!InitIInv DEF Init
<1>2. StoreOK BY SystemAssumption DEF Init, M!Init, StoreOK
<1>3. QED BY <1>1, <1>2 DEF Inv

LEMMA CallFacts ==
  ASSUME Inv, NEW th \in Threads, pc[th] = "triggered"
  PROVE  /\ main.step = "pulse" /\ main.thread = th /\ main.call \in HelperCalls
         /\ I!Payload(th) = I!PayloadOf(main.call)
         /\ th[2] = main.call.dir /\ th[1] \in Initiators /\ th = <<th[1], th[2]>>
         /\ Asked = {<<th[1], main.call>>}
BY DEF Inv, I!IInv, I!TypeOK, I!MainOK, I!InStep, Threads, I!Threads, I!Dirs, Asked

LEMMA PayloadFacts ==
  ASSUME Inv, NEW th \in Threads, NEW i \in Targets, GoesTo(th, i)
  PROVE  LET c == main.call
             p == Forwarded(th, i)
         IN /\ p.cmd = c.dir /\ p.ptr = c.ptr /\ p.len = 4
            /\ p.wid = (IF c.dir = "WRITE" THEN c.wid ELSE 4)
            /\ p.byt = (c.dir = "WRITE" /\ c.byt)
            /\ p.addr = Router!masked_address(i, c.addr)
            /\ Router!Decodes(i, c.addr)
            /\ c.ptr \in Buffers /\ c.wid \in Nat /\ c.byt \in BOOLEAN
            /\ c.addr \in WordAddresses /\ c.addr \in Nat
<1>1. pc[th] = "triggered" BY DEF GoesTo
<1>2. main.call \in HelperCalls /\ I!Payload(th) = I!PayloadOf(main.call) BY <1>1, CallFacts
<1>3. main.call.len = 4 BY <1>2, SystemAssumption
<1>4. main.call.addr \in WordAddresses BY <1>2 DEF WordAddresses
<1>5. QED BY <1>2, <1>3, <1>4, SystemAssumption DEF Forwarded, GoesTo, I!PayloadOf

LEMMA Located ==
  ASSUME NEW a \in WordAddresses, NEW i \in Targets, Router!Decodes(i, a)
  PROVE  /\ a \in Mapped /\ RegionOf(a) = i
         /\ Offset(a) = a - initiatorsConfig[i].baseAddress /\ Offset(a) \in Nat
         /\ i \in Memories => Router!masked_address(i, a) = Offset(a)
         /\ i \in Roms => Router!masked_address(i, a) - baseaddr = Offset(a)
<1>1. Router!Matches(i, a) BY DEF Router!Decodes
<1>2. RegionOf(a) = i BY <1>1, ConfigAssumption DEF RegionOf
<1>3. a \in Nat BY SystemAssumption DEF WordAddresses
<1>4. Offset(a) = a - initiatorsConfig[i].baseAddress BY <1>2 DEF Offset
<1>5. Offset(a) \in Nat BY <1>1, <1>3, <1>4, SystemAssumption DEF Router!Matches
<1>6. QED BY <1>1, <1>2, <1>4, <1>5, ConfigAssumption DEF Mapped

\* Two cells of one memory are two words of it.
LEMMA CellsApart ==
  ASSUME NEW a \in RamCells, NEW b \in RamCells, RegionOf(a) = RegionOf(b),
         Offset(a) \div 4 = Offset(b) \div 4
  PROVE  a = b
<1>1. PICK i \in Targets : Router!Matches(i, a) /\ RegionOf(a) = i
  BY ConfigAssumption DEF RamCells, Mapped, RegionOf
<1>2. Router!Matches(i, b)
  BY <1>1, ConfigAssumption DEF RamCells, Mapped, RegionOf
<1>3. a \in Nat /\ b \in Nat /\ a % 4 = 0 /\ b % 4 = 0
  BY SystemAssumption, ConfigAssumption DEF RamCells, Mapped, WordAddresses
<1>4. DEFINE base == initiatorsConfig[i].baseAddress
<1>5. base \in Nat /\ a >= base /\ b >= base
  BY <1>1, <1>2, <1>3, SystemAssumption DEF Router!Matches
<1>6. (a - base) \div 4 = (b - base) \div 4 BY <1>1 DEF Offset
<1> HIDE DEF base
<1>7. QED BY <1>3, <1>5, <1>6

-----------------------------------------------------------------------------
(* The invariant of the composition *)

\* An access a memory accepts is to one of its words, named by the call's address.
LEMMA Accepted ==
  ASSUME Inv, NEW th \in Threads, NEW i \in Memories, GoesTo(th, i), M!InMemory(Forwarded(th, i))
  PROVE  LET a == main.call.addr IN
         /\ a \in RamCells /\ RegionOf(a) = i
         /\ M!Adr(Forwarded(th, i)) = Offset(a) \div 4
         /\ Offset(a) \div 4 \in 0 .. SIZE - 1
         /\ main.call.dir = "WRITE" => ~main.call.byt /\ main.call.wid >= 4
<1>1. i \in Targets BY SystemAssumption
<1>2. main.call.addr \in WordAddresses /\ Router!Decodes(i, main.call.addr)
      /\ Forwarded(th, i).addr = Router!masked_address(i, main.call.addr)
  BY <1>1, PayloadFacts
<1>3. Forwarded(th, i).addr = Offset(main.call.addr) /\ Offset(main.call.addr) \in Nat
      /\ main.call.addr \in Mapped /\ RegionOf(main.call.addr) = i
  BY <1>1, <1>2, Located
<1>4. Offset(main.call.addr) \div 4 \in Nat BY <1>3
<1>5. M!Adr(Forwarded(th, i)) = Offset(main.call.addr) \div 4 /\ M!Adr(Forwarded(th, i)) < SIZE
  BY <1>3 DEF M!InMemory, M!Adr
<1>6. main.call.addr \in RamCells BY <1>3, <1>5 DEF RamCells
<1>7. M!Status(Forwarded(th, i)) = "OK" BY DEF M!InMemory
<1>8. main.call.dir = "WRITE" => ~main.call.byt /\ main.call.wid >= 4
  BY <1>1, <1>7, PayloadFacts DEF M!Status
<1>9. QED BY <1>3, <1>4, <1>5, <1>6, <1>8, SystemAssumption

LEMMA WordsTyped ==
  ASSUME StoreOK, NEW m \in Memories, NEW n \in 0 .. SIZE - 1
  PROVE  mem[m][n] \in Word
<1>1. mem[m] \in [0 .. SIZE - 1 -> Word] BY DEF StoreOK
<1>2. QED BY <1>1

LEMMA CountTyped ==
  ASSUME StoreOK, NEW th \in Threads, NEW m \in Memories, M!Count(m, th[2], th)
  PROVE  /\ ops' \in [Memories -> [{"READ", "WRITE"} -> Nat]]
         /\ writer' \in [Memories -> [{"READ", "WRITE"} -> SUBSET Threads]]
         /\ \A n \in Memories : \A d \in {"READ", "WRITE"} : \A t \in writer'[n][d] : t[2] = d
<1>1. th[2] \in {"READ", "WRITE"} BY DEF Threads, I!Threads, I!Dirs
<1>2. LongMod \in Nat \ {0} BY SystemAssumption
<1>3. \A k \in Nat : (k + 1) % LongMod \in Nat BY <1>2
<1>4. ops[m][th[2]] \in Nat BY <1>1 DEF StoreOK
<1>5. (ops[m][th[2]] + 1) % LongMod \in Nat BY <1>3, <1>4
<1>6. ops' \in [Memories -> [{"READ", "WRITE"} -> Nat]]
  BY <1>1, <1>5 DEF StoreOK, M!Count
<1>7. QED BY <1>1, <1>6 DEF StoreOK, M!Count

LEMMA StoreStep == ASSUME Inv, Next PROVE StoreOK'
<1> USE DEF Inv
<1>1. CASE UNCHANGED <<mem, ops, writer, data>> BY <1>1 DEF StoreOK
<1>2. ASSUME NEW i \in Initiators, NEW c \in HelperCalls, Dowrite(i, c) PROVE StoreOK'
  <2>1. c.ptr \in Buffers /\ c.value \in Word BY SystemAssumption
  <2>2. QED BY <1>2, <2>1 DEF Dowrite, StoreOK
<1>3. ASSUME NEW th \in Threads, NEW i \in Targets,
             \/ WriteMemory(th, i) \/ ReadMemory(th, i) \/ SecondWriter(th, i)
             \/ ReadRom(th, i) \/ ReadPastImage(th, i)
      PROVE  StoreOK'
  <2>0. GoesTo(th, i)
    BY <1>3 DEF WriteMemory, ReadMemory, SecondWriter, ReadRom, ReadPastImage
  <2>1. Forwarded(th, i).ptr = main.call.ptr /\ main.call.ptr \in Buffers
    BY <2>0, PayloadFacts
  <2>2. data[Forwarded(th, i).ptr] \in Word BY <2>1 DEF StoreOK
  <2>3. ASSUME i \in Memories, M!InMemory(Forwarded(th, i))
        PROVE  /\ M!Adr(Forwarded(th, i)) \in 0 .. SIZE - 1
               /\ M!WordAt(i, Forwarded(th, i)) \in Word
    BY <2>0, <2>3, Accepted, WordsTyped DEF M!WordAt
  <2>4. CASE WriteMemory(th, i)
    <3>1. i \in Memories /\ M!InMemory(Forwarded(th, i)) /\ M!Count(i, th[2], th)
      BY <2>4 DEF WriteMemory, M!Write
    <3>2. mem' = [mem EXCEPT ![i][M!Adr(Forwarded(th, i))] = data[Forwarded(th, i).ptr]]
      BY <2>4 DEF WriteMemory, M!Write
    <3>3. mem' \in [Memories -> [0 .. SIZE - 1 -> Word]]
      BY <2>2, <2>3, <3>1, <3>2 DEF StoreOK
    <3>4. QED BY <2>4, <3>1, <3>3, CountTyped DEF WriteMemory, StoreOK
  <2>5. CASE ReadMemory(th, i)
    <3>1. i \in Memories /\ M!InMemory(Forwarded(th, i)) /\ M!Count(i, th[2], th) /\ mem' = mem
      BY <2>5 DEF ReadMemory, M!Read
    <3>2. data' \in [Buffers -> Word]
      BY <2>1, <2>3, <2>5, <3>1 DEF ReadMemory, StoreOK
    <3>3. QED BY <3>1, <3>2, CountTyped DEF StoreOK
  <2>6. CASE SecondWriter(th, i)
    <3>1. i \in Memories /\ M!InMemory(Forwarded(th, i)) BY <2>6 DEF SecondWriter
    <3>2. UNCHANGED <<ops, writer>> BY <2>6 DEF SecondWriter
    <3>3. CASE th[2] = "WRITE"
      <4>1. /\ mem' = [mem EXCEPT ![i][M!Adr(Forwarded(th, i))] = data[Forwarded(th, i).ptr]]
            /\ UNCHANGED data
        BY <2>6, <3>3 DEF SecondWriter
      <4>2. mem' \in [Memories -> [0 .. SIZE - 1 -> Word]]
        BY <2>2, <2>3, <3>1, <4>1 DEF StoreOK
      <4>3. QED BY <3>2, <4>1, <4>2 DEF StoreOK
    <3>4. CASE th[2] # "WRITE"
      <4>1. /\ data' = [data EXCEPT ![Forwarded(th, i).ptr] = M!WordAt(i, Forwarded(th, i))]
            /\ UNCHANGED mem
        BY <2>6, <3>4 DEF SecondWriter
      <4>2. data' \in [Buffers -> Word] BY <2>1, <2>3, <3>1, <4>1 DEF StoreOK
      <4>3. QED BY <3>2, <4>1, <4>2 DEF StoreOK
    <3>5. QED BY <3>3, <3>4
  <2>7. CASE ReadRom(th, i)
    <3>1. R!Image(Forwarded(th, i)) \in Word
      <4>1. i \in Roms /\ R!Readable(Forwarded(th, i)) BY <2>7 DEF ReadRom
      <4>2. DEFINE a == main.call.addr
      <4>3. a \in Mapped /\ RegionOf(a) = i /\ R!Relative(Forwarded(th, i)) = Offset(a)
            /\ Forwarded(th, i).len = 4 /\ Offset(a) \in Nat
        BY <2>0, <4>1, PayloadFacts, Located DEF R!Relative
      <4>4. a \in RomCells BY <4>1, <4>3 DEF RomCells, R!Readable, R!Bytes
      <4>5. R!Image(Forwarded(th, i)) = RomWord(a) BY <4>3 DEF R!Image, RomWord
      <4>6. QED BY <4>4, <4>5, ConfigAssumption
    <3>2. QED BY <2>1, <2>7, <3>1 DEF ReadRom, StoreOK
  <2>8. CASE ReadPastImage(th, i)
    BY <2>1, <2>8 DEF ReadPastImage, StoreOK
  <2>9. QED BY <1>3, <2>4, <2>5, <2>6, <2>7, <2>8
<1>4. QED
  BY <1>1, <1>2, <1>3 DEF Next, Helper, Kernel, Stopped, vars, store, TimeStep, Transport, Doread,
     NoRoute, Refused, StrayMemory, RomReports

LEMMA NextInv == Inv /\ [Next]_vars => Inv'
<1> SUFFICES ASSUME Inv, [Next]_vars PROVE Inv' OBVIOUS
<1>1. I!IInv'
  BY HelperFacts, IStep, I!NextIInv DEF Inv
<1>2. StoreOK'
  BY StoreStep DEF Inv, StoreOK, vars, store
<1>3. QED BY <1>1, <1>2 DEF Inv

-----------------------------------------------------------------------------
(* The words of the memories and ROMs are the cells of the flat space *)

LEMMA CellFacts ==
  /\ RamCells \cap RomCells = {}
  /\ \A a \in RamCells : RegionOf(a) \in Memories /\ a \in WordAddresses
  /\ \A a \in RamCells : Offset(a) \div 4 \in 0 .. SIZE - 1
<1>1. RamCells \cap RomCells = {} BY SystemAssumption DEF RamCells, RomCells
<1>2. \A a \in RamCells : RegionOf(a) \in Memories /\ a \in WordAddresses
  BY DEF RamCells, Mapped
<1>3. ASSUME NEW a \in RamCells PROVE Offset(a) \div 4 \in 0 .. SIZE - 1
  <2>1. PICK i \in Targets : Router!Matches(i, a) /\ RegionOf(a) = i
    BY ConfigAssumption DEF RamCells, Mapped, RegionOf
  <2>2. a \in Nat /\ initiatorsConfig[i].baseAddress \in Nat
    BY <2>1, SystemAssumption DEF RamCells, Mapped, WordAddresses
  <2>3. Offset(a) \in Nat BY <2>1, <2>2 DEF Offset, Router!Matches
  <2>4. Offset(a) \div 4 \in Nat BY <2>3
  <2>5. Offset(a) \div 4 < SIZE BY DEF RamCells
  <2>6. QED BY <2>4, <2>5, SystemAssumption
<1>4. QED BY <1>1, <1>2, <1>3

LEMMA CellsTyped == ASSUME StoreOK PROVE Cells \in [RamCells \cup RomCells -> Word]
<1>1. \A a \in RamCells : mem[RegionOf(a)][Offset(a) \div 4] \in Word
  BY CellFacts, WordsTyped
<1>2. \A a \in RomCells : RomWord(a) \in Word BY ConfigAssumption
<1>3. QED BY <1>1, <1>2 DEF Cells

LEMMA CellsSame == mem' = mem => Cells' = Cells
  BY DEF Cells

LEMMA CellsAfterWrite ==
  ASSUME StoreOK, NEW a \in RamCells, NEW w,
         mem' = [mem EXCEPT ![RegionOf(a)][Offset(a) \div 4] = w]
  PROVE  Cells' = [Cells EXCEPT ![a] = w]
<1>1. \A b \in RamCells :
        mem'[RegionOf(b)][Offset(b) \div 4] =
          IF b = a THEN w ELSE mem[RegionOf(b)][Offset(b) \div 4]
  <2>1. TAKE b \in RamCells
  <2>2. RegionOf(b) \in Memories /\ Offset(b) \div 4 \in 0 .. SIZE - 1 BY CellFacts
  <2>3. mem \in [Memories -> [0 .. SIZE - 1 -> Word]] BY DEF StoreOK
  <2>4. CASE RegionOf(b) = RegionOf(a)
    <3>1. mem[RegionOf(a)] \in [0 .. SIZE - 1 -> Word] BY <2>2, <2>3, <2>4
    <3>2. mem'[RegionOf(b)] = [mem[RegionOf(a)] EXCEPT ![Offset(a) \div 4] = w]
      BY <2>2, <2>3, <2>4
    <3>3. mem'[RegionOf(b)][Offset(b) \div 4] =
            IF Offset(b) \div 4 = Offset(a) \div 4 THEN w ELSE mem[RegionOf(b)][Offset(b) \div 4]
      BY <2>2, <2>4, <3>1, <3>2
    <3>4. QED BY <2>4, <3>3, CellsApart
  <2>5. CASE RegionOf(b) # RegionOf(a)
    BY <2>2, <2>3, <2>5
  <2>6. QED BY <2>4, <2>5
<1>2. a \notin RomCells BY CellFacts
<1>3. QED BY <1>1, <1>2 DEF Cells

\* A counter somebody else has written is one another initiator uses.
LEMMA SharedIs ==
  ASSUME Inv, NEW th \in Threads, NEW i \in Targets, GoesTo(th, i), main.call.addr \in RamCells
  PROVE  Flat!Shared(th[1], main.call) <=> ~M!MayCount(RegionOf(main.call.addr), th[2], th)
<1>1. pc[th] = "triggered" BY DEF GoesTo
<1>2. th = <<th[1], th[2]>> /\ th[2] = main.call.dir /\ th[2] \in {"READ", "WRITE"}
  BY <1>1, CallFacts DEF Threads, I!Threads, I!Dirs
<1>3. RegionOf(main.call.addr) \in Memories BY CellFacts
<1>4. DEFINE W == writer[RegionOf(main.call.addr)][th[2]]
<1>5. Users[RegionOf(main.call.addr)][main.call.dir] = {t[1] : t \in W}
  BY <1>2, <1>3 DEF Users
<1>6. \A t \in W : t[2] = th[2] /\ t = <<t[1], t[2]>>
  BY <1>2, <1>3 DEF Inv, StoreOK, Threads, I!Threads
<1>7. ({t[1] : t \in W} \subseteq {th[1]}) <=> (W \subseteq {th})
  BY <1>2, <1>6
<1>8. QED BY <1>5, <1>7 DEF Flat!Shared, M!MayCount

LEMMA CountedIs ==
  ASSUME Inv, NEW th \in Threads, NEW i \in Targets, GoesTo(th, i), main.call.addr \in RamCells,
         M!Count(RegionOf(main.call.addr), th[2], th)
  PROVE  Flat!Counted(th[1], main.call)
<1>1. th[2] = main.call.dir /\ th[2] \in {"READ", "WRITE"}
  BY CallFacts DEF GoesTo, Threads, I!Threads, I!Dirs
<1>2. DEFINE r == RegionOf(main.call.addr)
<1>3. r \in Memories BY CellFacts
<1>4. writer' = [writer EXCEPT ![r][th[2]] = {th}] BY DEF M!Count
<1>5. \A m \in Memories : \A d \in {"READ", "WRITE"} :
        writer'[m][d] = IF m = r /\ d = th[2] THEN {th} ELSE writer[m][d]
  BY <1>1, <1>3, <1>4 DEF Inv, StoreOK
<1>6. \A m \in Memories : \A d \in {"READ", "WRITE"} :
        {t[1] : t \in writer'[m][d]} =
          IF m = r /\ d = th[2] THEN {th[1]} ELSE {t[1] : t \in writer[m][d]}
  BY <1>5
<1>7. Users' = [Users EXCEPT ![r][th[2]] = {th[1]}]
  BY <1>1, <1>3, <1>6 DEF Users
<1>8. QED BY <1>1, <1>7 DEF Flat!Counted, M!Count

-----------------------------------------------------------------------------
(* Every step of the system is one of the flat space, or none *)

LEMMA InitSim == Init => Flat!Init
<1> SUFFICES ASSUME Init PROVE Flat!Init OBVIOUS
<1>1. StoreOK BY InitInv DEF Inv
<1>2. Cells \in [RamCells \cup RomCells -> Word] BY <1>1, CellsTyped
<1>3. \A a \in RomCells : Cells[a] = RomWord(a) BY CellFacts DEF Cells
<1>4. Asked = {} /\ (~I!Running) = FALSE
  BY DEF Init, I!Init, I!Idle, Asked, I!Running
<1>5. Users = [m \in Memories |-> [d \in {"READ", "WRITE"} |-> {}]]
      /\ ops = [m \in Memories |-> [d \in {"READ", "WRITE"} |-> 0]]
  BY DEF Init, M!Init, Users
<1>6. data \in [Buffers -> Word] BY <1>1 DEF StoreOK
<1>7. QED BY <1>2, <1>3, <1>4, <1>5, <1>6 DEF Flat!Init, Flat!Dirs

LEMMA StoreSame ==
  UNCHANGED <<mem, ops, writer>> => UNCHANGED <<Cells, Users, ops>>
BY DEF Cells, Users

LEMMA HelperSim ==
  ASSUME Inv, NEW i \in Initiators, NEW c \in HelperCalls, Dowrite(i, c) \/ Doread(i, c)
  PROVE  Flat!Ask(i, c)
<1>1. /\ I!Running /\ main.step = "ready" /\ I!Running'
      /\ main'.step = "written" /\ main'.call = c /\ main'.thread[1] = i
      /\ UNCHANGED <<mem, ops, writer>>
  BY DEF Dowrite, Doread, I!Dowrite, I!Doread, I!Running
<1>2. Asked = {} /\ Asked' = {<<i, c>>} BY <1>1 DEF Asked
<1>3. data' = IF c.dir = "WRITE" THEN [data EXCEPT ![c.ptr] = c.value] ELSE data
  BY DEF Dowrite, Doread, I!Dowrite, I!Doread
<1>4. (~I!Running) = FALSE /\ (~I!Running)' = FALSE BY <1>1
<1>5. QED BY <1>1, <1>2, <1>3, <1>4, StoreSame DEF Flat!Ask

LEMMA TimeSim == ASSUME Inv, TimeStep PROVE UNCHANGED Flat!vars
<1>1. UNCHANGED <<mem, ops, writer, data>> BY DEF TimeStep
<1>2. I!Running = I!Running'
  BY DEF TimeStep, I!StrobeRises, I!StrobeFalls, I!HelperReturns, I!Tick, I!Advance, I!Running
<1>3. Asked' = Asked
  <2> USE DEF Inv, I!IInv, I!TypeOK, I!MainOK, I!ThreadsOK, I!InStep
  <2>1. CASE I!StrobeRises
    <3>1. main.step = "written" /\ main.thread \in I!Threads BY <2>1 DEF I!StrobeRises
    <3>2. pc[main.thread] = "wait" BY <3>1
    <3>3. main'.step = "pulse" /\ main'.thread = main.thread /\ main'.call = main.call
          /\ pc'[main.thread] = "triggered"
      BY <2>1, <3>1, <3>2 DEF I!StrobeRises
    <3>4. QED BY <3>1, <3>3 DEF Asked
  <2>2. CASE I!StrobeFalls
    <3>1. main.step = "pulse" /\ main.left = 0 /\ main.thread \in I!Threads /\ main'.step = "rest"
      BY <2>2 DEF I!StrobeFalls
    <3>2. pc[main.thread] # "triggered" BY <3>1 DEF I!Pulse
    <3>3. QED BY <3>1, <3>2 DEF Asked
  <2>3. CASE I!HelperReturns
    BY <2>3 DEF I!HelperReturns, I!Idle, Asked
  <2>4. CASE I!Tick
    <3>1. /\ main.step # "written" /\ main'.step = main.step /\ main'.thread = main.thread
          /\ pc' = pc /\ \A th \in I!Threads : pc[th] # "triggered"
      BY <2>4 DEF I!Tick, I!Advance
    <3>2. main.step = "pulse" => main.thread \in I!Threads OBVIOUS
    <3>3. QED BY <3>1, <3>2 DEF Asked
  <2>5. QED BY <2>1, <2>2, <2>3, <2>4 DEF TimeStep
<1>4. QED BY <1>1, <1>2, <1>3, StoreSame DEF Flat!vars

\* A call that returns is no longer asked; one that fails still is.
LEMMA AfterCall ==
  ASSUME Inv, NEW th \in Threads, pc[th] = "triggered"
  PROVE  /\ Asked = {<<th[1], main.call>>}
         /\ \A resp : I!CallReturnsAtOnce(th, resp) =>
              I!Running /\ Asked' = {} /\ (I!Running' <=> resp = "OK")
         /\ \A why \in Failures : I!CallFails(th, why) =>
              I!Running /\ Asked' = Asked /\ ~I!Running'
<1>1. main.step = "pulse" /\ main.thread = th /\ Asked = {<<th[1], main.call>>}
  BY CallFacts
<1>2. ASSUME NEW resp, I!CallReturnsAtOnce(th, resp)
      PROVE  I!Running /\ Asked' = {} /\ (I!Running' <=> resp = "OK")
  <2>1. main' = main /\ pc' = [pc EXCEPT ![th] = "wait"] BY <1>2 DEF I!CallReturnsAtOnce
  <2>2. pc \in [I!Threads -> {"wait", "triggered", "calling"}]
    BY DEF Inv, I!IInv, I!TypeOK, I!ThreadsOK
  <2>3. pc'[th] = "wait" BY <2>1, <2>2 DEF Threads
  <2>4. Asked' = {} BY <1>1, <2>1, <2>3 DEF Asked
  <2>5. QED BY <1>2, <2>4 DEF I!CallReturnsAtOnce, I!Response, I!Running
<1>3. ASSUME NEW why \in Failures, I!CallFails(th, why)
      PROVE  I!Running /\ Asked' = Asked /\ ~I!Running'
  BY <1>3 DEF I!CallFails, Asked, Failures, I!Running
<1>4. QED BY <1>1, <1>2, <1>3

LEMMA FailSim ==
  ASSUME Inv, NEW th \in Threads, pc[th] = "triggered",
         \/ \E why \in Failures : I!CallFails(th, why)
         \/ \E resp : resp # "OK" /\ I!CallReturnsAtOnce(th, resp),
         UNCHANGED <<mem, ops, writer, data>>,
         ~Flat!Legal(main.call)
  PROVE  Flat!Fail(th[1], main.call)
<1>1. I!Running /\ ~I!Running' /\ Asked' \in SUBSET Asked BY AfterCall
<1>2. UNCHANGED <<Cells, Users, ops>> BY StoreSame
<1>3. QED BY <1>1, <1>2 DEF Flat!Fail

LEMMA WriteMemorySim ==
  ASSUME Inv, NEW th \in Threads, NEW i \in Targets, WriteMemory(th, i)
  PROVE  Flat!Write(th[1], main.call)
<1>1. i \in Memories /\ GoesTo(th, i) /\ th[2] = "WRITE" /\ pc[th] = "triggered"
      /\ M!InMemory(Forwarded(th, i)) /\ M!MayCount(i, "WRITE", th) /\ M!Count(i, "WRITE", th)
      /\ mem' = [mem EXCEPT ![i][M!Adr(Forwarded(th, i))] = data[Forwarded(th, i).ptr]]
      /\ I!CallReturnsAtOnce(th, "OK") /\ data' = data
  BY DEF WriteMemory, M!Write, Done, GoesTo
<1>2. /\ main.call.addr \in RamCells /\ RegionOf(main.call.addr) = i
      /\ M!Adr(Forwarded(th, i)) = Offset(main.call.addr) \div 4
  BY <1>1, Accepted
<1>3. main.call.dir = "WRITE" /\ Forwarded(th, i).ptr = main.call.ptr
  BY <1>1, CallFacts, PayloadFacts
<1>4. Flat!Accepted(main.call) BY <1>1, <1>3, Accepted DEF Flat!Accepted
<1>5. Cells' = [Cells EXCEPT ![main.call.addr] = data[main.call.ptr]]
  BY <1>1, <1>2, <1>3, CellsAfterWrite DEF Inv
<1>6. ~Flat!Shared(th[1], main.call) BY <1>1, <1>2, SharedIs
<1>7. Flat!Counted(th[1], main.call) BY <1>1, <1>2, CountedIs
<1>8. I!Running /\ I!Running' /\ Asked' = {} BY <1>1, AfterCall
<1>9. QED BY <1>1, <1>2, <1>3, <1>4, <1>5, <1>6, <1>7, <1>8 DEF Flat!Write, Flat!Serves

LEMMA ReadMemorySim ==
  ASSUME Inv, NEW th \in Threads, NEW i \in Targets, ReadMemory(th, i)
  PROVE  Flat!Read(th[1], main.call)
<1>1. i \in Memories /\ GoesTo(th, i) /\ th[2] = "READ" /\ pc[th] = "triggered"
      /\ M!InMemory(Forwarded(th, i)) /\ M!MayCount(i, "READ", th) /\ M!Count(i, "READ", th)
      /\ data' = [data EXCEPT ![Forwarded(th, i).ptr] = M!WordAt(i, Forwarded(th, i))]
      /\ I!CallReturnsAtOnce(th, "OK") /\ mem' = mem
  BY DEF ReadMemory, M!Read, Done, GoesTo
<1>2. /\ main.call.addr \in RamCells /\ RegionOf(main.call.addr) = i
      /\ M!Adr(Forwarded(th, i)) = Offset(main.call.addr) \div 4
  BY <1>1, Accepted
<1>3. main.call.dir = "READ" /\ Forwarded(th, i).ptr = main.call.ptr
  BY <1>1, CallFacts, PayloadFacts
<1>4. M!WordAt(i, Forwarded(th, i)) = Cells[main.call.addr]
  BY <1>2 DEF M!WordAt, Cells
<1>5. data' = [data EXCEPT ![main.call.ptr] = Cells[main.call.addr]] BY <1>1, <1>3, <1>4
<1>6. ~Flat!Shared(th[1], main.call) BY <1>1, <1>2, SharedIs
<1>7. Flat!Counted(th[1], main.call) BY <1>1, <1>2, CountedIs
<1>8. I!Running /\ I!Running' /\ Asked' = {} BY <1>1, AfterCall
<1>9. Cells' = Cells BY <1>1, CellsSame
<1>10. QED BY <1>2, <1>3, <1>5, <1>6, <1>7, <1>8, <1>9 DEF Flat!Read, Flat!Serves

LEMMA SecondWriterSim ==
  ASSUME Inv, NEW th \in Threads, NEW i \in Targets, SecondWriter(th, i)
  PROVE  Flat!Fail(th[1], main.call)
<1>1. i \in Memories /\ GoesTo(th, i) /\ pc[th] = "triggered"
      /\ M!InMemory(Forwarded(th, i)) /\ ~M!MayCount(i, th[2], th)
      /\ I!CallFails(th, "second_writer") /\ UNCHANGED <<ops, writer>>
  BY DEF SecondWriter, GoesTo
<1>2. /\ main.call.addr \in RamCells /\ RegionOf(main.call.addr) = i
      /\ M!Adr(Forwarded(th, i)) = Offset(main.call.addr) \div 4
      /\ Forwarded(th, i).ptr = main.call.ptr
  BY <1>1, Accepted, PayloadFacts
<1>3. Flat!Shared(th[1], main.call) BY <1>1, <1>2, SharedIs
<1>4. I!Running /\ ~I!Running' /\ Asked' = Asked BY <1>1, AfterCall DEF Failures
<1>5. UNCHANGED <<Users, ops>> BY <1>1 DEF Users
<1>6. \/ Cells' = [Cells EXCEPT ![main.call.addr] = data[main.call.ptr]] /\ data' = data
      \/ Cells' = Cells /\ data' = [data EXCEPT ![main.call.ptr] = Cells[main.call.addr]]
  <2>1. CASE th[2] = "WRITE"
    <3>1. mem' = [mem EXCEPT ![i][M!Adr(Forwarded(th, i))] = data[Forwarded(th, i).ptr]]
          /\ data' = data
      BY <2>1 DEF SecondWriter
    <3>2. QED BY <1>2, <3>1, CellsAfterWrite DEF Inv
  <2>2. CASE th[2] # "WRITE"
    <3>1. data' = [data EXCEPT ![Forwarded(th, i).ptr] = M!WordAt(i, Forwarded(th, i))]
          /\ mem' = mem
      BY <2>2 DEF SecondWriter
    <3>2. M!WordAt(i, Forwarded(th, i)) = Cells[main.call.addr]
      BY <1>2 DEF M!WordAt, Cells
    <3>3. QED BY <1>2, <3>1, <3>2, CellsSame
  <2>3. QED BY <2>1, <2>2
<1>7. QED BY <1>3, <1>4, <1>5, <1>6 DEF Flat!Fail

LEMMA RefusedSim ==
  ASSUME Inv, NEW th \in Threads, NEW i \in Targets, Refused(th, i)
  PROVE  Flat!Fail(th[1], main.call)
<1>1. i \in Memories /\ GoesTo(th, i) /\ pc[th] = "triggered"
      /\ UNCHANGED <<mem, ops, writer, data>>
      /\ M!Status(Forwarded(th, i)) # "OK"
      /\ I!CallReturnsAtOnce(th, M!Status(Forwarded(th, i)))
  BY DEF Refused, GoesTo
<1>2. DEFINE c == main.call
<1>3. /\ c.addr \in WordAddresses /\ Router!Decodes(i, c.addr)
      /\ Forwarded(th, i).addr = Router!masked_address(i, c.addr)
      /\ Forwarded(th, i).len = 4 /\ c.wid \in Nat /\ c.byt \in BOOLEAN
      /\ Forwarded(th, i).byt = (c.dir = "WRITE" /\ c.byt)
      /\ Forwarded(th, i).wid = (IF c.dir = "WRITE" THEN c.wid ELSE 4)
  BY <1>1, PayloadFacts
<1>4. RegionOf(c.addr) = i /\ Forwarded(th, i).addr = Offset(c.addr) /\ Offset(c.addr) \in Nat
  BY <1>1, <1>3, Located
<1>5. c.addr \notin RomCells \cup RomTails
  BY <1>1, <1>4, SystemAssumption DEF RomCells, RomTails
<1>6. \/ M!Adr(Forwarded(th, i)) > SIZE
      \/ Forwarded(th, i).byt
      \/ Forwarded(th, i).len > 4 \/ Forwarded(th, i).wid < Forwarded(th, i).len
  BY <1>1 DEF M!Status
<1>7. ASSUME M!Adr(Forwarded(th, i)) > SIZE PROVE ~Flat!Legal(c)
  <2>1. Offset(c.addr) \div 4 \in Nat /\ SIZE \in Nat BY <1>4, SystemAssumption
  <2>2. Offset(c.addr) \div 4 > SIZE BY <1>4, <1>7 DEF M!Adr
  <2>3. c.addr \notin RamCells \cup RamEnds BY <2>1, <2>2 DEF RamCells, RamEnds
  <2>4. QED BY <1>5, <2>3 DEF Flat!Legal
<1>8. ASSUME Forwarded(th, i).byt PROVE ~Flat!Legal(c)
  <2>1. c.dir = "WRITE" /\ c.byt BY <1>3, <1>8
  <2>2. QED BY <2>1 DEF Flat!Legal, Flat!Accepted
<1>9. ASSUME Forwarded(th, i).len > 4 \/ Forwarded(th, i).wid < Forwarded(th, i).len
      PROVE  ~Flat!Legal(c)
  <2>1. Forwarded(th, i).wid < 4 BY <1>3, <1>9
  <2>2. c.dir = "WRITE" /\ ~(c.wid >= 4) BY <1>3, <2>1
  <2>3. QED BY <2>2 DEF Flat!Legal, Flat!Accepted
<1>10. ~Flat!Legal(c) BY <1>6, <1>7, <1>8, <1>9
<1>11. QED BY <1>1, <1>10, FailSim

\* What the router's target does with the word after a memory is not promised.
LEMMA StrayMemorySim ==
  ASSUME Inv, NEW th \in Threads, NEW i \in Targets, StrayMemory(th, i)
  PROVE  Flat!BeyondMemory(th[1], main.call)
<1>1. i \in Memories /\ GoesTo(th, i) /\ pc[th] = "triggered"
      /\ UNCHANGED <<mem, ops, writer, data>>
      /\ M!Status(Forwarded(th, i)) = "OK" /\ M!Adr(Forwarded(th, i)) = SIZE
      /\ I!CallFails(th, "stray")
  BY DEF StrayMemory, GoesTo, M!Stray
<1>2. DEFINE c == main.call
<1>3. /\ c.addr \in WordAddresses /\ Router!Decodes(i, c.addr)
      /\ Forwarded(th, i).addr = Router!masked_address(i, c.addr)
      /\ Forwarded(th, i).len = 4
      /\ Forwarded(th, i).byt = (c.dir = "WRITE" /\ c.byt)
      /\ Forwarded(th, i).wid = (IF c.dir = "WRITE" THEN c.wid ELSE 4)
      /\ c.dir \in {"READ", "WRITE"} /\ c.wid \in Nat
  BY <1>1, PayloadFacts, CallFacts, SystemAssumption
<1>4. c.addr \in Mapped /\ RegionOf(c.addr) = i /\ Forwarded(th, i).addr = Offset(c.addr)
  BY <1>1, <1>3, Located
<1>5. c.addr \in RamEnds BY <1>1, <1>4 DEF RamEnds, M!Adr
<1>6. ~Forwarded(th, i).byt /\ ~(Forwarded(th, i).wid < Forwarded(th, i).len)
  BY <1>1 DEF M!Status
<1>7. Flat!Accepted(c)
  <2>1. CASE c.dir = "WRITE"
    <3>1. ~c.byt BY <1>3, <1>6, <2>1
    <3>2. c.wid >= 4 BY <1>3, <1>6, <2>1
    <3>3. QED BY <3>1, <3>2 DEF Flat!Accepted
  <2>2. CASE c.dir = "READ" BY <2>2 DEF Flat!Accepted
  <2>3. QED BY <1>3, <2>1, <2>2
<1>8. I!Running /\ Asked' = Asked /\ ~I!Running' BY <1>1, AfterCall DEF Failures
<1>9. UNCHANGED <<Cells, Users, ops>> BY <1>1, StoreSame
<1>10. QED BY <1>1, <1>5, <1>7, <1>8, <1>9 DEF Flat!BeyondMemory

LEMMA NoRouteSim ==
  ASSUME Inv, NEW th \in Threads, pc[th] = "triggered", NoRoute(th)
  PROVE  Flat!Fail(th[1], main.call)
<1>1. I!Payload(th).addr = main.call.addr BY CallFacts DEF I!PayloadOf
<1>2. main.call.addr \notin Mapped BY <1>1 DEF NoRoute, Router!Unmapped, Mapped
<1>3. main.call.addr \notin RamCells \cup RamEnds \cup RomCells \cup RomTails
  BY <1>2 DEF RamCells, RamEnds, RomCells, RomTails
<1>4. ~Flat!Legal(main.call) BY <1>3 DEF Flat!Legal
<1>5. QED BY <1>4, FailSim DEF NoRoute, Failures

\* What the ROM's checks say of the call.
LEMMA RomFacts ==
  ASSUME Inv, NEW th \in Threads, NEW i \in Roms, GoesTo(th, i)
  PROVE  /\ R!Relative(Forwarded(th, i)) = Offset(main.call.addr)
         /\ main.call.addr \in Mapped /\ RegionOf(main.call.addr) = i
         /\ main.call.addr \notin RamCells \cup RamEnds
         /\ main.call.addr \in RomCells <=> R!Bytes(Forwarded(th, i)) \subseteq DOMAIN ROM
         /\ Offset(main.call.addr) \in R!Bytes(Forwarded(th, i))
<1>1. i \in Targets BY SystemAssumption
<1>2. /\ main.call.addr \in WordAddresses /\ Router!Decodes(i, main.call.addr)
      /\ Forwarded(th, i).addr = Router!masked_address(i, main.call.addr)
      /\ Forwarded(th, i).len = 4
  BY <1>1, PayloadFacts
<1>3. /\ main.call.addr \in Mapped /\ RegionOf(main.call.addr) = i
      /\ R!Relative(Forwarded(th, i)) = Offset(main.call.addr) /\ Offset(main.call.addr) \in Nat
  BY <1>1, <1>2, Located DEF R!Relative
<1>4. main.call.addr \notin RamCells \cup RamEnds
  BY <1>3, SystemAssumption DEF RamCells, RamEnds
<1>5. R!Bytes(Forwarded(th, i)) = Offset(main.call.addr) .. Offset(main.call.addr) + 3
  BY <1>2, <1>3 DEF R!Bytes
<1>6. main.call.addr \in RomCells <=> R!Bytes(Forwarded(th, i)) \subseteq DOMAIN ROM
  BY <1>3, <1>5 DEF RomCells
<1>7. QED BY <1>3, <1>4, <1>5, <1>6

LEMMA ReadRomSim ==
  ASSUME Inv, NEW th \in Threads, NEW i \in Targets, ReadRom(th, i)
  PROVE  Flat!Read(th[1], main.call)
<1>1. i \in Roms /\ GoesTo(th, i) /\ R!Readable(Forwarded(th, i)) /\ pc[th] = "triggered"
      /\ data' = [data EXCEPT ![Forwarded(th, i).ptr] = R!Image(Forwarded(th, i))]
      /\ I!CallReturnsAtOnce(th, "OK") /\ UNCHANGED <<mem, ops, writer>>
  BY DEF ReadRom, Done, GoesTo
<1>2. main.call.dir = "READ" /\ Forwarded(th, i).ptr = main.call.ptr
  BY <1>1, PayloadFacts DEF R!Readable
<1>3. main.call.addr \in RomCells /\ main.call.addr \notin RamCells
  BY <1>1, RomFacts DEF R!Readable
<1>4. R!Image(Forwarded(th, i)) = Cells[main.call.addr]
  BY <1>1, <1>3, RomFacts DEF R!Image, RomWord, Cells
<1>5. ~Flat!Shared(th[1], main.call) BY <1>3 DEF Flat!Shared
<1>6. I!Running /\ I!Running' /\ Asked' = {} BY <1>1, AfterCall
<1>7. UNCHANGED <<Cells, Users, ops>> BY <1>1, StoreSame
<1>8. data' = [data EXCEPT ![main.call.ptr] = Cells[main.call.addr]] BY <1>1, <1>2, <1>4
<1>9. QED BY <1>2, <1>3, <1>5, <1>6, <1>7, <1>8 DEF Flat!Read, Flat!Serves

\* A read that ends beyond the image: the bytes inside it are those of the image.
LEMMA ReadPastImageSim ==
  ASSUME Inv, NEW th \in Threads, NEW i \in Targets, ReadPastImage(th, i)
  PROVE  Flat!ReadTail(th[1], main.call)
<1>1. PICK word \in Word :
        /\ R!EndsAs(Forwarded(th, i), word)
        /\ data' = [data EXCEPT ![Forwarded(th, i).ptr] = word]
  BY DEF ReadPastImage
<1>2. i \in Roms /\ GoesTo(th, i) /\ R!PastEnd(Forwarded(th, i)) /\ pc[th] = "triggered"
      /\ I!CallReturnsAtOnce(th, "OK") /\ UNCHANGED <<mem, ops, writer>>
  BY DEF ReadPastImage, Done, GoesTo
<1>3. main.call.dir = "READ" /\ Forwarded(th, i).ptr = main.call.ptr
  BY <1>2, PayloadFacts DEF R!PastEnd
<1>4. Offset(main.call.addr) \in DOMAIN ROM /\ main.call.addr \notin RomCells
  BY <1>2, RomFacts DEF R!PastEnd, R!Outside
<1>5. main.call.addr \in RomTails BY <1>2, <1>4, RomFacts DEF RomTails
<1>6. TailIs(main.call.addr, word) BY <1>1, <1>2, RomFacts DEF TailIs, R!EndsAs
<1>7. ~Flat!Shared(th[1], main.call) BY <1>2, RomFacts DEF Flat!Shared
<1>8. I!Running /\ I!Running' /\ Asked' = {} BY <1>2, AfterCall
<1>9. UNCHANGED <<Cells, Users, ops>> BY <1>2, StoreSame
<1>10. data' = [data EXCEPT ![main.call.ptr] = word] BY <1>1, <1>3
<1>11. QED BY <1>3, <1>5, <1>6, <1>7, <1>8, <1>9, <1>10 DEF Flat!ReadTail, Flat!Serves

LEMMA RomReportsSim ==
  ASSUME Inv, NEW th \in Threads, NEW i \in Targets, RomReports(th, i)
  PROVE  Flat!Fail(th[1], main.call)
<1>1. i \in Roms /\ GoesTo(th, i) /\ pc[th] = "triggered"
      /\ UNCHANGED <<mem, ops, writer, data>>
      /\ \E why \in Failures : I!CallFails(th, why)
      /\ (R!Outside(Forwarded(th, i)) \/ th[2] = "WRITE")
  BY DEF RomReports, GoesTo, Failures
<1>2. main.call.addr \notin RamCells \cup RamEnds BY <1>1, RomFacts
<1>3. ~(main.call.dir = "READ" /\ main.call.addr \in RomCells \cup RomTails)
  <2>1. CASE th[2] = "WRITE" BY <1>1, <2>1, CallFacts
  <2>2. CASE R!Outside(Forwarded(th, i))
    <3>1. Offset(main.call.addr) \notin DOMAIN ROM BY <1>1, <2>2, RomFacts DEF R!Outside
    <3>2. QED BY <1>1, <3>1, RomFacts DEF RomTails
  <2>3. QED BY <1>1, <2>1, <2>2
<1>4. ~Flat!Legal(main.call) BY <1>2, <1>3 DEF Flat!Legal
<1>5. QED BY <1>1, <1>4, FailSim

LEMMA NextSim == ASSUME Inv, [Next]_vars PROVE [Flat!Next]_(Flat!vars)
<1>1. CASE UNCHANGED vars
  BY <1>1 DEF vars, threads, store, Flat!vars, Cells, Asked, Users, I!Running
<1>2. CASE Helper
  BY <1>2, HelperSim DEF Helper, Flat!Next
<1>3. CASE TimeStep BY <1>3, TimeSim
<1>4. ASSUME NEW th \in Threads, Transport(th) PROVE Flat!Next
  <2>1. pc[th] = "triggered"
    BY <1>4 DEF Transport, NoRoute, WriteMemory, ReadMemory, Refused, SecondWriter, StrayMemory,
       ReadRom, ReadPastImage, RomReports, GoesTo, I!CallFails
  <2>2. \/ Flat!Write(th[1], main.call) \/ Flat!Read(th[1], main.call)
        \/ Flat!ReadTail(th[1], main.call) \/ Flat!BeyondMemory(th[1], main.call)
        \/ Flat!Fail(th[1], main.call)
    BY <1>4, <2>1, NoRouteSim, WriteMemorySim, ReadMemorySim, RefusedSim, StrayMemorySim,
       SecondWriterSim, ReadRomSim, ReadPastImageSim, RomReportsSim DEF Transport
  <2>3. <<th[1], main.call>> \in Asked BY <2>1, CallFacts
  <2>4. QED BY <2>2, <2>3 DEF Flat!Next, Flat!Serve
<1>5. QED BY <1>1, <1>2, <1>3, <1>4 DEF Next, Kernel, Stopped

LEMMA AlwaysInv == Spec => []Inv
  BY InitInv, NextInv, PTL DEF Spec

\* Whatever the initiators ask, each call reads or writes the word its address
\* means in one flat space, once, or ends the simulation.
THEOREM ImplementsSafely == Spec => Flat!Spec
  BY InitSim, NextSim, AlwaysInv, PTL DEF Spec, Flat!Spec
=============================================================================
