--------------------------- MODULE EthBridgeProofs ---------------------------
(***************************************************************************)
(* Packets go out as the MAC has handed them over, and datagrams come in   *)
(* one at a time, for buffers and packets of any size; a packet that is    *)
(* longer than the buffer is the one thing that can leave it.              *)
(***************************************************************************)
EXTENDS EthBridge, SequenceTheorems, TLAPS

Frames == {bytes \in Seq(Byte) : Len(bytes) >= 1}
Fitting == {bytes \in Frames : Len(bytes) <= MAX_BUF_SIZE}
Before(process) == process \in todo

Addresses == {remote, bridge, "none"} \cup {d.from : d \in Datagrams}

\* What is in the signals, the socket and the histories.
Shapes ==
  /\ tx \in [new : {0, 1}, byte : Byte] /\ tx_next \in [new : {0, 1}, byte : Byte]
  /\ rx_next \in [new : {0, 1}, byte : Byte, of : Nat] /\ rec \in [at : {"poll", "byte"}, rem : Nat, of : Nat]
  /\ mac \in [left : Seq(Byte), idle : 0 .. Gap] /\ sockstr \in Addresses
  /\ handed \in Seq(Frames) /\ socket \in Seq([bytes : Fitting, from : Addresses])
  /\ sent \in Seq([bytes : Seq(Byte), to : Addresses])

(***************************************************************************)
(* Where a packet is.  The MAC is at the packet handed last; the signal    *)
(* lags behind it once the MAC has run, and pack is at what the signal     *)
(* shows.                                                                  *)
(***************************************************************************)
Fresh == tx_next.new = 1 /\ tx.new = 0     \* the MAC has just begun a packet
Packet == handed[Len(handed)]
Driven == Len(Packet) - Len(mac.left)      \* bytes the MAC has driven
Begun == IF Fresh THEN Len(handed) - 1 ELSE Len(handed)
Seen == IF Before("mac") \/ tx_next.new = 0 THEN Driven ELSE Driven - 1

Stored(n) == tx_idx = n /\ \A i \in 1 .. n : tx_buffer[i - 1] = handed[Begun][i]
Full == Begun >= 1 /\ Len(sent) = Begun - 1 /\ Stored(Len(handed[Begun]))

\* The MAC: while tx_new_pkt is up, the byte driven and those left are the
\* packet's; it goes down for as long as the MAC has been idle.
MacInStep ==
  /\ tx_next.new = 1 <=> mac.idle = 0
  /\ tx_next.new = 0 => mac.left = <<>>
  /\ tx_next.new = 1 =>
       /\ Len(handed) >= 1 /\ Driven >= 1 /\ tx_next.byte = Packet[Driven]
       /\ \A i \in 1 .. Len(mac.left) : mac.left[i] = Packet[Driven + i]
  /\ IF Before("mac") THEN tx = tx_next
     ELSE /\ tx_next.new = 1 => (tx.new = 1 <=> Driven > 1)
          /\ tx_next.new = 0 => (tx.new = 1 <=> mac.idle = 1)

\* pack, while there is a byte in the signal.
PackSees ==
  /\ Seen \in 1 .. Len(Packet) /\ tx.byte = Packet[Seen] /\ Len(handed) >= 1
  /\ Len(sent) = Len(handed) - 1 /\ ~Before("transmit")
  /\ IF ~Before("pack") THEN tx_state = "PROCESSING" /\ Stored(Seen)
     ELSE IF Seen = 1 THEN tx_state = "IDLE"
     ELSE tx_state = "PROCESSING" /\ Stored(Seen - 1)

\* pack, while there is none: the packet is complete, and sent before the MAC's
\* next byte is in the signal.
First == mac.idle = (IF Before("mac") THEN 1 ELSE 2) \* the first cycle without a byte
PackWaits ==
  CASE tx_state = "PROCESSING" -> Full /\ Before("pack") /\ First /\ ~Before("transmit")
    [] tx_state = "FINALIZING" ->
         /\ Full /\ ~Before("transmit")
         /\ IF Before("pack") THEN Before("mac") => mac.idle >= 2 ELSE First
    [] OTHER ->
         /\ Before("mac") => mac.idle >= 2
         /\ IF Before("transmit") THEN Full /\ ~Before("pack") ELSE Len(sent) = Begun

Sending == Running => MacInStep /\ (IF tx.new = 1 THEN PackSees ELSE PackWaits)

\* receive: at its poll the flag has been taken back.
Receiving ==
  /\ Before("receive") => rx = rx_next
  /\ rec.at = "poll" => rx_next.new = 0
  /\ rx.new = 1 => rx.of = rec.of
  /\ rx_next.new = 1 => rx_next.of = rec.of

Bridge == TypeOK /\ Shapes /\ Sending /\ SentAsHanded /\ Receiving

LEMMA MacStep ==
  ASSUME Bridge, MacStarts \/ MacContinues \/ MacIdles
  PROVE  TypeOK' /\ Shapes' /\ SentAsHanded' /\ Sending'
<1> USE DEF Bridge, Before
<1>0. /\ mac.left \in Seq(Byte) /\ mac.idle \in 0 .. Gap /\ Gap \in Nat /\ Gap >= 2
      /\ handed \in Seq(Frames) /\ Len(handed) \in Nat /\ Len(sent) \in Nat
      /\ tx_next.new \in {0, 1} /\ tx.new \in {0, 1} /\ Len(mac.left) \in Nat
      /\ Running /\ "mac" \in todo /\ tx = tx_next /\ tx_next = [new |-> tx_next.new, byte |-> tx_next.byte]
  BY EthBridgeAssumption DEF Shapes, MacStarts, MacContinues, MacIdles, Runs, Sending, MacInStep
<1>1. TypeOK'
  BY DEF TypeOK, MacStarts, MacContinues, MacIdles, Runs, receiver, sender, Running
<1>2. CASE MacStarts
  <2>1. PICK p \in Packets : Drives(p) /\ handed' = Append(handed, p)
    BY <1>2 DEF MacStarts
  <2>2. p \in Seq(Byte) /\ Len(p) \in Nat \ {0} /\ p \in Frames /\ MAX_BUF_SIZE \in Nat
    BY LenProperties, EthBridgeAssumption DEF Frames
  <2>3. /\ handed' \in Seq(Frames) /\ Len(handed') = Len(handed) + 1
        /\ \A i \in 1 .. Len(handed) : handed'[i] = handed[i]
        /\ handed'[Len(handed) + 1] = p
    BY <1>0, <2>1, <2>2, AppendProperties
  <2>4. /\ Head(p) \in Byte /\ Tail(p) \in Seq(Byte) /\ Len(Tail(p)) = Len(p) - 1
        /\ \A i \in 1 .. Len(Tail(p)) : Tail(p)[i] = p[i + 1]
    <3>1. p # <<>>
      BY <2>2
    <3> QED
      BY <2>2, <3>1, HeadTailProperties
  <2>5. Head(p) = p[1]
    BY <2>2
  <2>6. Shapes'
    <3>1. tx_next' \in [new : {0, 1}, byte : Byte] /\ mac' \in [left : Seq(Byte), idle : 0 .. Gap]
      <4>1. 0 \in 0 .. Gap
        BY <1>0
      <4> QED
        BY <2>1, <2>4, <4>1 DEF Drives
    <3> QED
      BY <1>2, <2>3, <3>1 DEF Shapes, MacStarts, sender, receiver, network
  <2>7. SentAsHanded'
    BY <1>0, <1>2, <2>3 DEF SentAsHanded, MacStarts, network
  <2>8. mac.idle >= 2 /\ tx_next.new = 0 /\ tx.new = 0
    BY <1>0, <1>2 DEF MacStarts, Sending, MacInStep
  <2>9. MacInStep'
    <3>1. /\ tx_next'.new = 1 /\ tx_next'.byte = p[1] /\ mac'.left = Tail(p) /\ mac'.idle = 0
          /\ todo' = todo \ {"mac"} /\ tx' = tx
      BY <1>2, <2>1, <2>5 DEF Drives, MacStarts, Runs
    <3>2. Packet' = p /\ Driven' = 1 /\ Len(handed') >= 1
      BY <1>0, <2>2, <2>3, <2>4, <3>1 DEF Packet, Driven
    <3>3. \A i \in 1 .. Len(mac'.left) : mac'.left[i] = p[1 + i]
      BY <2>2, <2>4, <3>1
    <3> QED
      BY <2>8, <3>1, <3>2, <3>3 DEF MacInStep
  <2>10. Fresh' /\ ~Fresh /\ Begun' = Len(handed) /\ Begun = Len(handed) /\ UNCHANGED sender
    BY <1>0, <1>2, <2>1, <2>3, <2>8 DEF MacStarts, Drives, Fresh, Begun
  <2>11. Full => Full'
    BY <1>0, <1>2, <2>3, <2>10 DEF Full, Stored, MacStarts, sender, network
  <2>12. PackWaits'
    BY <1>0, <1>2, <2>8, <2>10, <2>11 DEF PackWaits, First, Sending, MacStarts, Runs, sender, network
  <2> QED
    BY <1>1, <2>6, <2>7, <2>8, <2>9, <2>12, <1>2 DEF Sending, MacStarts
<1>3. CASE MacContinues
  <2>1. /\ mac.left # <<>> /\ Len(mac.left) >= 1 /\ tx_next'.new = 1 /\ tx_next'.byte = Head(mac.left)
        /\ mac'.left = Tail(mac.left) /\ mac'.idle = 0 /\ todo' = todo \ {"mac"}
        /\ UNCHANGED <<tx, handed, sent, tx_state, tx_buffer, tx_idx, report>>
    BY <1>0, <1>3, EmptySeq DEF MacContinues, Drives, Runs, sender, network
  <2>2. /\ Head(mac.left) \in Byte /\ Tail(mac.left) \in Seq(Byte) /\ Len(Tail(mac.left)) = Len(mac.left) - 1
        /\ \A i \in 1 .. Len(Tail(mac.left)) : Tail(mac.left)[i] = mac.left[i + 1]
        /\ Head(mac.left) = mac.left[1]
    BY <1>0, <2>1, HeadTailProperties
  <2>3. tx_next.new = 1 /\ tx.new = 1 /\ MacInStep /\ PackSees
    BY <1>0, <2>1 DEF Sending, MacInStep
  <2>4. Shapes'
    <3>1. tx_next' \in [new : {0, 1}, byte : Byte] /\ mac' \in [left : Seq(Byte), idle : 0 .. Gap]
      <4>1. 0 \in 0 .. Gap
        BY <1>0
      <4> QED
        BY <1>3, <2>2, <4>1 DEF Drives, MacContinues
    <3> QED
      BY <1>3, <3>1 DEF Shapes, MacContinues, sender, receiver, network
  <2>5. SentAsHanded'
    BY <2>1 DEF SentAsHanded
  <2>6. Packet \in Frames /\ Len(Packet) \in Nat /\ Packet' = Packet
    <3>1. Packet \in Frames
      BY <1>0, <2>3, ElementOfSeq DEF Packet, PackSees
    <3> QED
      BY <2>1, <3>1 DEF Packet, Frames
  <2>7. Driven' = Driven + 1 /\ Driven \in Int /\ Driven >= 1
    <3>1. Len(mac'.left) = Len(mac.left) - 1 /\ Driven >= 1
      BY <2>1, <2>2, <2>3 DEF MacInStep
    <3>2. Driven = Len(Packet) - Len(mac.left) /\ Driven' = Len(Packet) - Len(mac'.left)
      BY <2>6 DEF Driven
    <3> QED
      BY <1>0, <2>6, <3>1, <3>2
  <2>8. MacInStep'
    <3>1. tx_next'.byte = Packet[Driven']
      BY <2>1, <2>2, <2>3, <2>6, <2>7 DEF MacInStep
    <3>2. ASSUME NEW i \in 1 .. Len(mac'.left) PROVE mac'.left[i] = Packet[Driven' + i]
      <4>1. i + 1 \in 1 .. Len(mac.left) /\ mac'.left[i] = mac.left[i + 1]
        BY <1>0, <2>1, <2>2
      <4>2. mac.left[i + 1] = Packet[Driven + (i + 1)] /\ Driven + (i + 1) = Driven' + i
        BY <2>3, <2>7, <4>1 DEF MacInStep
      <4> QED
        BY <4>1, <4>2
    <3> QED
      BY <2>1, <2>3, <2>6, <2>7, <3>1, <3>2 DEF MacInStep
  <2>9. Begun = Len(handed) /\ Begun' = Begun /\ Seen' = Seen
    BY <1>0, <2>1, <2>3, <2>7 DEF Begun, Fresh, Seen
  <2>10. PackSees'
    BY <2>1, <2>3, <2>6, <2>9 DEF PackSees, Stored
  <2> QED
    BY <1>1, <2>1, <2>3, <2>4, <2>5, <2>8, <2>10 DEF Sending
<1>4. CASE MacIdles
  <2>1. /\ mac.left = <<>> /\ tx_next' = [tx_next EXCEPT !.new = 0]
        /\ mac' = [mac EXCEPT !.idle = IF @ < Gap THEN @ + 1 ELSE @] /\ todo' = todo \ {"mac"}
        /\ UNCHANGED <<tx, handed, sent, tx_state, tx_buffer, tx_idx, report>>
    BY <1>4 DEF MacIdles, Runs, sender, network
  <2>2. /\ tx_next'.new = 0 /\ mac'.left = <<>>
        /\ mac'.idle = IF mac.idle < Gap THEN mac.idle + 1 ELSE mac.idle
    BY <1>0, <2>1 DEF Shapes
  <2>3. Shapes'
    <3>1. tx_next' \in [new : {0, 1}, byte : Byte] /\ mac' \in [left : Seq(Byte), idle : 0 .. Gap]
      <4>1. (IF mac.idle < Gap THEN mac.idle + 1 ELSE mac.idle) \in 0 .. Gap
        BY <1>0
      <4> QED
        BY <2>1, <4>1 DEF Shapes
    <3> QED
      BY <1>4, <3>1 DEF Shapes, MacIdles, sender, receiver, network
  <2>4. SentAsHanded'
    BY <2>1 DEF SentAsHanded
  <2>5. MacInStep /\ ~Fresh /\ ~Fresh' /\ Begun = Len(handed) /\ Begun' = Begun
    BY <1>0, <2>1, <2>2 DEF Sending, MacInStep, Fresh, Begun
  <2>6. MacInStep'
    BY <1>0, <2>1, <2>2, <2>5 DEF MacInStep
  <2>7. CASE tx.new = 1
    <3>1. Seen' = Seen /\ Packet' = Packet
      BY <1>0, <2>1, <2>2 DEF Seen, Driven, Packet
    <3> QED
      BY <1>0, <1>1, <2>1, <2>3, <2>4, <2>5, <2>6, <2>7, <3>1 DEF Sending, PackSees, Stored
  <2>8. CASE tx.new = 0
    <3>1. First => First'
      BY <1>0, <2>1, <2>2 DEF First
    <3>2. Full => Full'
      BY <2>1, <2>5 DEF Full, Stored
    <3>3. PackWaits'
      BY <1>0, <2>1, <2>2, <2>5, <2>8, <3>1, <3>2 DEF PackWaits, Sending
    <3> QED
      BY <1>1, <2>1, <2>3, <2>4, <2>6, <2>8, <3>3 DEF Sending
  <2> QED
    BY <1>0, <2>7, <2>8
<1> QED
  BY <1>2, <1>3, <1>4

LEMMA PackStep ==
  ASSUME Bridge, pack
  PROVE  TypeOK' /\ Shapes' /\ SentAsHanded' /\ Sending'
<1> USE DEF Bridge, Before
<1>1. /\ "pack" \in todo /\ Running /\ MacInStep
      /\ UNCHANGED <<tx, tx_next, rx_next, mac, rec, handed, sent, socket, sockstr, rx_buffer>>
      /\ "mac" \in todo' <=> "mac" \in todo
      /\ IF tx.new = 1 THEN PackSees ELSE PackWaits
  BY DEF Sending, pack, PackIdle, PackProcessing, PackFinalizing, Runs, bus, receiver, network
<1>2. Shapes' /\ SentAsHanded' /\ MacInStep'
  BY <1>1 DEF Shapes, SentAsHanded, MacInStep, Packet, Driven
<1>3. /\ UNCHANGED <<Fresh, Packet, Begun, Seen>> /\ (First' <=> First)
  BY <1>1 DEF Fresh, Packet, Begun, Driven, Seen, First
<1>4. MAX_BUF_SIZE \in Nat \ {0} /\ tx.byte \in Byte /\ tx.new \in {0, 1}
  BY EthBridgeAssumption DEF Shapes
<1>5. tx.new = 1 => ~Fresh /\ Begun = Len(handed)
  BY DEF Fresh, Begun
<1>6. CASE tx.new = 1
  <2>1. /\ Seen \in 1 .. Len(Packet) /\ Packet \in Frames /\ Len(Packet) \in Nat
        /\ tx.byte = Packet[Seen] /\ Seen \in Nat /\ tx_idx \in Nat
    BY <1>1, <1>6, ElementOfSeq, LenProperties DEF PackSees, Packet, Frames, Shapes, TypeOK
  <2> DEFINE Overflows == /\ Seen - 1 >= MAX_BUF_SIZE /\ report' = "stray"
                          /\ UNCHANGED sender /\ todo' = todo \ {"pack"}
  <2>0. \/ Overflows
        \/ /\ todo' = todo \ {"pack"} /\ report' = report /\ Seen - 1 < MAX_BUF_SIZE
           /\ \E k \in Nat : k = Seen - 1 /\ Store(k) /\ tx_state' = "PROCESSING"
           /\ Seen > 1 => tx_state = "PROCESSING" /\ Stored(Seen - 1)
    <3>1. CASE PackIdle
      BY <1>1, <1>4, <1>6, <2>1, <3>1 DEF PackIdle, PackSees, Runs
    <3>2. CASE PackProcessing
      BY <1>1, <1>4, <1>6, <2>1, <3>2 DEF PackProcessing, PackSees, Runs, Stored
    <3>3. CASE PackFinalizing
      BY <1>1, <1>6, <3>3 DEF PackFinalizing, PackSees
    <3> QED
      BY <3>1, <3>2, <3>3 DEF pack
  <2>7. CASE Overflows
    <3>1. Len(sent) = Len(handed) - 1 /\ Len(handed) \in Nat /\ Len(Packet) > MAX_BUF_SIZE
      BY <1>1, <1>4, <1>6, <2>1, <2>7, LenProperties DEF PackSees, Shapes
    <3>2. TypeOK'
      BY <1>1, <2>7, <3>1 DEF TypeOK, sender, Packet
    <3>3. Sending'
      BY <2>7 DEF Sending, Running
    <3> QED
      BY <1>2, <3>2, <3>3
  <2> SUFFICES ASSUME ~Overflows PROVE TypeOK' /\ Shapes' /\ SentAsHanded' /\ Sending'
    BY <2>7
  <2>2. /\ todo' = todo \ {"pack"} /\ report' = report /\ Seen - 1 < MAX_BUF_SIZE
        /\ \E k \in Nat : k = Seen - 1 /\ Store(k) /\ tx_state' = "PROCESSING"
        /\ Seen > 1 => tx_state = "PROCESSING" /\ Stored(Seen - 1)
    BY <2>0
  <2>3. /\ tx_idx' = Seen /\ tx_state' = "PROCESSING"
        /\ tx_buffer' = [tx_buffer EXCEPT ![Seen - 1] = tx.byte] /\ tx_buffer \in [0 .. MAX_BUF_SIZE - 1 -> Byte]
    BY <2>1, <2>2 DEF Store, TypeOK, Buffer
  <2>4. TypeOK'
    BY <1>1, <1>4, <2>1, <2>2, <2>3 DEF TypeOK, Buffer
  <2>5. Stored(Seen)'
    <3>1. ASSUME NEW i \in 1 .. Seen PROVE tx_buffer'[i - 1] = Packet[i]
      <4>1. CASE i = Seen
        BY <1>4, <2>1, <2>2, <2>3, <4>1
      <4>2. CASE i # Seen
        <5>1. Seen > 1 /\ Stored(Seen - 1) /\ i \in 1 .. Seen - 1
          BY <2>1, <2>2, <4>2
        <5>2. tx_buffer[i - 1] = Packet[i]
          BY <1>5, <1>6, <5>1 DEF Stored, Packet
        <5>3. tx_buffer'[i - 1] = tx_buffer[i - 1]
          BY <1>4, <2>1, <2>3, <5>1
        <5> QED
          BY <5>2, <5>3
      <4> QED
        BY <4>1, <4>2
    <3> QED
      BY <1>1, <1>3, <1>5, <1>6, <2>3, <3>1 DEF Stored, Packet
  <2>6. PackSees'
    BY <1>1, <1>3, <1>6, <2>1, <2>2, <2>3, <2>5 DEF PackSees
  <2> QED
    BY <1>1, <1>2, <1>6, <2>2, <2>4, <2>6 DEF Sending
<1>7. CASE tx.new = 0
  <2>1. CASE PackIdle
    <3>1. UNCHANGED sender /\ report' = report /\ tx_state = "IDLE" /\ todo' = todo \ {"pack"}
      BY <1>7, <2>1 DEF PackIdle, Runs
    <3>2. TypeOK' /\ PackWaits'
      BY <1>1, <1>3, <1>7, <3>1 DEF TypeOK, PackWaits, Full, Stored, sender
    <3> QED
      BY <1>2, <1>1, <1>7, <3>2 DEF Sending
  <2>2. CASE PackProcessing
    <3>1. /\ UNCHANGED <<tx_buffer, tx_idx, report>> /\ tx_state = "PROCESSING" /\ tx_state' = "FINALIZING"
          /\ todo' = todo \ {"pack"}
      BY <1>7, <2>2 DEF PackProcessing, Runs
    <3>2. TypeOK' /\ PackWaits'
      BY <1>1, <1>3, <1>7, <3>1 DEF TypeOK, PackWaits, Full, Stored
    <3> QED
      BY <1>2, <1>1, <1>7, <3>2 DEF Sending
  <2>3. CASE PackFinalizing
    <3>1. /\ UNCHANGED <<tx_buffer, tx_idx, report>> /\ tx_state = "FINALIZING" /\ tx_state' = "IDLE"
          /\ todo' = (todo \ {"pack"}) \cup {"transmit"}
      BY <2>3 DEF PackFinalizing
    <3>2. TypeOK' /\ PackWaits'
      BY <1>1, <1>3, <1>7, <3>1 DEF TypeOK, PackWaits, Full, Stored
    <3> QED
      BY <1>2, <1>1, <1>7, <3>2 DEF Sending
  <2> QED
    BY <2>1, <2>2, <2>3 DEF pack
<1> QED
  BY <1>4, <1>6, <1>7

LEMMA TransmitStep ==
  ASSUME Bridge, Transmit
  PROVE  TypeOK' /\ Shapes' /\ SentAsHanded' /\ Sending'
<1> USE DEF Bridge, Before
<1>1. /\ "transmit" \in todo /\ Running /\ MacInStep /\ todo' = todo \ {"transmit"}
      /\ UNCHANGED <<tx, tx_next, rx_next, mac, rec, handed, sockstr, rx_buffer, tx_state, tx_buffer, tx_idx>>
  BY DEF Sending, Transmit, Runs, bus, receiver, sender
<1>2. tx.new = 0 /\ PackWaits /\ Full /\ ~Before("pack") /\ tx_state = "IDLE" /\ (Before("mac") => mac.idle >= 2)
  BY <1>1 DEF Sending, PackSees, PackWaits, Shapes, TypeOK
<1>3. /\ Begun \in 1 .. Len(handed) /\ handed[Begun] \in Frames /\ handed \in Seq(Frames)
      /\ sent \in Seq([bytes : Seq(Byte), to : Addresses])
      /\ Len(sent) = Begun - 1 /\ Len(sent) \in Nat
  BY <1>2, ElementOfSeq DEF Full, Begun, Shapes
<1>4. Contents = handed[Begun]
  <2>1. handed[Begun] \in Seq(Byte) /\ tx_idx = Len(handed[Begun])
    BY <1>2, <1>3 DEF Full, Stored, Frames
  <2>2. handed[Begun] = [k \in 1 .. tx_idx |-> handed[Begun][k]]
    BY <2>1, LenProperties
  <2>3. \A k \in 1 .. tx_idx : tx_buffer[k - 1] = handed[Begun][k]
    BY <1>2 DEF Full, Stored
  <2> QED
    BY <2>2, <2>3 DEF Contents
<1>5. MacInStep' /\ Begun' = Begun /\ TypeOK'
  BY <1>1 DEF MacInStep, Packet, Driven, Fresh, Begun, TypeOK, Transmit, Running
<1>6. CASE report' = report /\ sent' = Append(sent, [bytes |-> Contents, to |-> sockstr])
  <2>1. sockstr \in Addresses /\ Contents \in Seq(Byte)
    BY <1>3, <1>4 DEF Shapes, Frames
  <2>2. /\ sent' \in Seq([bytes : Seq(Byte), to : Addresses]) /\ Len(sent') = Begun
        /\ \A k \in 1 .. Len(sent) : sent'[k] = sent[k]
        /\ sent'[Begun].bytes = handed[Begun]
    <3>1. [bytes |-> Contents, to |-> sockstr] \in [bytes : Seq(Byte), to : Addresses]
      BY <2>1
    <3> QED
      BY <1>3, <1>4, <1>6, <3>1, AppendProperties
  <2>3. SentAsHanded'
    BY <1>1, <1>3, <2>2 DEF SentAsHanded
  <2>4. PackWaits'
    BY <1>1, <1>2, <1>5, <2>2 DEF PackWaits
  <2>5. socket' \in Seq([bytes : Fitting, from : Addresses])
    <3>1. CASE socket' = socket
      BY <3>1 DEF Shapes
    <3>2. CASE socket' = Append(socket, [bytes |-> Contents, from |-> bridge])
      <4>1. [bytes |-> Contents, from |-> bridge] \in [bytes : Fitting, from : Addresses]
        BY <1>2, <1>3, <1>4 DEF Addresses, Fitting, Full, Stored, TypeOK
      <4> QED
        BY <3>2, <4>1, AppendProperties DEF Shapes
    <3> QED
      BY <3>1, <3>2, <1>1, <1>6 DEF Transmit, Running
  <2>6. Shapes'
    BY <1>1, <2>2, <2>5 DEF Shapes
  <2> QED
    BY <1>1, <1>2, <1>5, <2>3, <2>4, <2>6 DEF Sending
<1>7. CASE report' = "transmit" /\ UNCHANGED <<sent, socket>>
  <2>1. Shapes' /\ SentAsHanded' /\ Sending'
    BY <1>1, <1>7 DEF Shapes, SentAsHanded, Sending, Running
  <2> QED
    BY <1>5, <2>1
<1> QED
  BY <1>6, <1>7 DEF Transmit, Running

\* receive touches nothing that is on its way out but sockstr.
LEMMA SendingKept ==
  ASSUME Bridge, UNCHANGED <<tx, tx_next, mac, sender, handed, sent, report>>,
         \A p \in {"mac", "pack", "transmit"} : p \in todo' <=> p \in todo
  PROVE  SentAsHanded' /\ Sending'
<1>1. /\ UNCHANGED <<Fresh, Packet, Driven, Begun>> /\ (\A p \in {"mac", "pack", "transmit"} : Before(p)' <=> Before(p))
  BY DEF Fresh, Packet, Driven, Begun, Before
<1>2. UNCHANGED Seen /\ (First' <=> First) /\ (Full' <=> Full) /\ (\A n \in Int : Stored(n)' <=> Stored(n))
  BY <1>1 DEF Seen, First, Full, Stored, sender
<1>3. MacInStep => MacInStep'
  BY <1>1 DEF MacInStep
<1>4. tx.new = 1 /\ PackSees => PackSees'
  BY <1>1, <1>2 DEF PackSees, Stored, sender
<1>5. PackWaits => PackWaits'
  BY <1>1, <1>2 DEF PackWaits, sender
<1> QED
  BY <1>3, <1>4, <1>5 DEF Bridge, SentAsHanded, Sending, Running

LEMMA ReceiveStep ==
  ASSUME Bridge, receive
  PROVE  TypeOK' /\ Shapes' /\ SentAsHanded' /\ Sending' /\ Receiving'
<1> USE DEF Bridge
<1>1. /\ "receive" \in todo /\ Running /\ todo' = todo \ {"receive"} /\ rx = rx_next
      /\ UNCHANGED <<tx, tx_next, rx, mac, sender, handed, sent, report>>
  BY DEF receive, NothingReceived, Received, ByteOut, Runs, bus, network, Receiving, Before
<1>2. SentAsHanded' /\ Sending'
  BY <1>1, SendingKept
<1>3. /\ MAX_BUF_SIZE \in Nat \ {0} /\ rec \in [at : {"poll", "byte"}, rem : Nat, of : Nat]
      /\ rx_buffer \in [0 .. MAX_BUF_SIZE - 1 -> Byte] /\ rec.rem \in 0 .. MAX_BUF_SIZE
      /\ rx_next \in [new : {0, 1}, byte : Byte, of : Nat] /\ rec.of \in Nat
  BY EthBridgeAssumption DEF Shapes, TypeOK, Buffer
<1>4. CASE NothingReceived
  <2>1. UNCHANGED <<rx_next, rec, rx_buffer, sockstr, socket>>
    BY <1>4 DEF NothingReceived, bus, receiver, network
  <2> QED
    BY <1>1, <1>2, <2>1 DEF TypeOK, Shapes, Receiving, sender, Before
<1>5. CASE Received
  <2> DEFINE d == Head(socket)
  <2>1. d \in [bytes : Fitting, from : Addresses] /\ Tail(socket) \in Seq([bytes : Fitting, from : Addresses])
    BY <1>5, HeadTailProperties DEF Shapes, Received
  <2>2. d.bytes \in Seq(Byte) /\ Len(d.bytes) \in 1 .. MAX_BUF_SIZE /\ d.from \in Addresses
    BY <2>1, LenProperties DEF Frames, Fitting
  <2>3. /\ rx_buffer' = Overwritten(d.bytes) /\ sockstr' = d.from /\ socket' = Tail(socket) /\ rec.at = "poll"
        /\ \/ UNCHANGED <<rec, rx_next>>
           \/ /\ rx_next' = [rx_next EXCEPT !.new = 0]
              /\ rec' = [at |-> "byte", rem |-> Len(d.bytes), of |-> rec.of + 1]
    BY <1>5 DEF Received
  <2> HIDE DEF d
  <2>4. rx_buffer' \in [0 .. MAX_BUF_SIZE - 1 -> Byte]
    <3>1. ASSUME NEW i \in 0 .. MAX_BUF_SIZE - 1
          PROVE  (IF i < Len(d.bytes) THEN d.bytes[i + 1] ELSE rx_buffer[i]) \in Byte
      <4>1. CASE i < Len(d.bytes)
        <5>1. i + 1 \in 1 .. Len(d.bytes)
          BY <1>3, <2>2, <4>1
        <5> QED
          BY <2>2, <4>1, <5>1, ElementOfSeq
      <4>2. CASE ~(i < Len(d.bytes))
        BY <1>3, <4>2
      <4> QED
        BY <4>1, <4>2
    <3> QED
      BY <2>3, <3>1 DEF Overwritten
  <2>5. TypeOK'
    BY <1>1, <1>3, <2>2, <2>3, <2>4 DEF TypeOK, Buffer, sender
  <2>6. /\ rx_next' \in [new : {0, 1}, byte : Byte, of : Nat]
        /\ rec' \in [at : {"poll", "byte"}, rem : Nat, of : Nat]
    BY <1>3, <2>2, <2>3
  <2>7. Shapes'
    BY <1>1, <2>1, <2>2, <2>3, <2>6 DEF Shapes
  <2>8. Receiving'
    <3>1. rx_next.new = 0 /\ rx.new = 0 /\ rx' = rx /\ ~Before("receive")'
      BY <1>1, <2>3 DEF Receiving, Before
    <3>2. rx_next'.new = 0
      BY <1>3, <2>3, <3>1
    <3> QED
      BY <3>1, <3>2 DEF Receiving
  <2> QED
    BY <1>2, <2>5, <2>7, <2>8
<1>6. CASE ByteOut
  <2>1. PICK b \in ReadAt(rec.rem) : rx_next' = [new |-> Flag(rec.rem), byte |-> b, of |-> rec.of]
    BY <1>6 DEF ByteOut
  <2>2. b \in Byte
    BY <1>3 DEF ReadAt
  <2>3. /\ UNCHANGED <<rx_buffer, sockstr, socket>> /\ rec.at = "byte" /\ rec.rem \in 1 .. MAX_BUF_SIZE
        /\ rec' = IF rec.rem > 1 THEN [rec EXCEPT !.rem = @ - 1] ELSE [rec EXCEPT !.rem = 0, !.at = "poll"]
    BY <1>3, <1>6 DEF ByteOut, More, network, TypeOK
  <2>4. /\ rec' \in [at : {"poll", "byte"}, rem : Nat, of : Nat] /\ rec'.of = rec.of
        /\ rec'.rem \in 0 .. MAX_BUF_SIZE /\ (rec'.at = "byte" => rec'.rem > 0)
    <3>1. CASE rec.rem > 1
      <4>1. rec' = [rec EXCEPT !.rem = @ - 1] /\ rec.rem - 1 \in 1 .. MAX_BUF_SIZE
        BY <1>3, <2>3, <3>1
      <4> QED
        BY <1>3, <4>1
    <3>2. CASE ~(rec.rem > 1)
      <4>1. rec' = [rec EXCEPT !.rem = 0, !.at = "poll"] /\ 0 \in 0 .. MAX_BUF_SIZE
        BY <1>3, <2>3, <3>2
      <4>2. rec'.rem = 0 /\ rec'.at = "poll" /\ rec'.of = rec.of
        BY <1>3, <4>1
      <4> QED
        BY <1>3, <4>1, <4>2
    <3> QED
      BY <3>1, <3>2
  <2>5. TypeOK'
    BY <1>1, <1>3, <2>3, <2>4 DEF TypeOK, Buffer, sender
  <2>6. Shapes'
    BY <1>1, <1>3, <2>1, <2>2, <2>3, <2>4 DEF Shapes, Flag
  <2>7. Receiving'
    <3>1. rec'.at = "poll" => Flag(rec.rem) = 0
      BY <1>3, <2>3 DEF Flag
    <3> QED
      BY <1>1, <2>1, <2>4, <3>1 DEF Receiving, Before
  <2> QED
    BY <1>2, <2>5, <2>6, <2>7
<1> QED
  BY <1>4, <1>5, <1>6 DEF receive

LEMMA EdgeStep ==
  ASSUME Bridge, ClockEdge
  PROVE  TypeOK' /\ Shapes' /\ SentAsHanded' /\ Sending' /\ Receiving'
<1> USE DEF Bridge
<1>1. /\ Running /\ todo = {} /\ tx' = tx_next /\ rx' = rx_next /\ todo' = {"pack", "receive", "mac"}
      /\ UNCHANGED <<tx_next, rx_next, mac, sender, receiver, sockstr, network, handed, report>>
  BY DEF ClockEdge
<1>2. TypeOK' /\ Shapes' /\ SentAsHanded' /\ Receiving'
  BY <1>1 DEF TypeOK, Shapes, SentAsHanded, Receiving, sender, receiver, network, Before
<1>3. /\ Len(handed) \in Nat /\ Len(sent) \in Nat /\ Len(mac.left) \in Nat /\ mac.idle \in Nat
      /\ tx_next.new \in {0, 1} /\ tx.new \in {0, 1} /\ MacInStep
  BY <1>1, EthBridgeAssumption DEF Shapes, Sending
<1>4. MacInStep'
  BY <1>1, <1>3 DEF MacInStep, Packet, Driven, Before
<1>5. ~Fresh' /\ Begun' = Len(handed) /\ Packet' = Packet /\ Driven' = Driven /\ Seen' = Driven
  BY <1>1, <1>3 DEF Fresh, Begun, Packet, Driven, Seen, Before
<1>6. Len(handed) >= 1 => Packet \in Frames /\ Len(Packet) \in Nat /\ Driven \in Int
  <2>1. Len(handed) >= 1 => Packet \in Frames
    BY <1>3, ElementOfSeq DEF Packet, Shapes
  <2> QED
    BY <1>3, <2>1 DEF Frames, Driven
<1>7. ~Before("mac") /\ ~Before("pack") /\ ~Before("transmit") /\ Before("mac")' /\ Before("pack")' /\ ~Before("transmit")'
  BY <1>1 DEF Before
<1>8. CASE tx.new = 1
  <2>1. ~Fresh /\ Begun = Len(handed) /\ PackSees
    BY <1>1, <1>8 DEF Fresh, Begun, Sending
  <2>2. /\ tx_state = "PROCESSING" /\ Stored(Seen) /\ Len(handed) >= 1 /\ Len(sent) = Len(handed) - 1
        /\ Seen = IF tx_next.new = 0 THEN Driven ELSE Driven - 1
        /\ Seen \in 1 .. Len(Packet)
    BY <1>7, <2>1 DEF PackSees, Seen
  <2>3. CASE tx_next.new = 1
    <3>1. Seen' \in 1 .. Len(Packet) /\ Seen' > 1 /\ Seen' - 1 = Seen
      BY <1>3, <1>5, <1>6, <2>2, <2>3 DEF Driven
    <3>2. Stored(Seen - 1)'
      BY <1>1, <1>5, <2>1, <2>2, <3>1 DEF Stored, sender
    <3>3. PackSees'
      <4>1. tx'.byte = Packet'[Seen']
        BY <1>1, <1>3, <1>5, <2>3 DEF MacInStep
      <4>2. tx_state' = "PROCESSING" /\ Len(sent') = Len(handed') - 1
        BY <1>1, <2>2 DEF sender, network
      <4> QED
        BY <1>1, <1>5, <1>7, <2>2, <3>1, <3>2, <4>1, <4>2 DEF PackSees
    <3> QED
      BY <1>1, <1>2, <1>4, <2>3, <3>3 DEF Sending
  <2>4. CASE tx_next.new = 0
    <3>1. mac.left = <<>> /\ mac.idle = 1 /\ Seen = Len(Packet)
      BY <1>3, <1>6, <1>7, <1>8, <2>2, <2>4 DEF MacInStep, Driven
    <3>2. Full' /\ First'
      BY <1>1, <1>5, <1>7, <2>1, <2>2, <3>1 DEF Full, Stored, First, Packet, sender, network
    <3>3. PackWaits'
      BY <1>1, <1>7, <2>2, <3>2 DEF PackWaits, sender
    <3> QED
      BY <1>1, <1>2, <1>4, <2>4, <3>3 DEF Sending
  <2> QED
    BY <1>3, <2>3, <2>4
<1>9. CASE tx.new = 0
  <2>1. PackWaits
    BY <1>1, <1>9 DEF Sending
  <2>2. CASE tx_next.new = 1
    <3>1. Fresh /\ Begun = Len(handed) - 1 /\ mac.idle = 0 /\ Driven = 1 /\ Len(handed) >= 1
      BY <1>3, <1>6, <1>7, <1>9, <2>2 DEF Fresh, Begun, MacInStep
    <3>2. tx_state = "IDLE" /\ Len(sent) = Len(handed) - 1
      BY <1>7, <2>1, <3>1 DEF PackWaits, First, TypeOK
    <3>3. 1 \in 1 .. Len(Packet)
      BY <1>6, <3>1 DEF Frames
    <3>4. PackSees'
      BY <1>1, <1>3, <1>5, <1>7, <2>2, <3>1, <3>2, <3>3 DEF PackSees, sender, network, MacInStep
    <3> QED
      BY <1>1, <1>2, <1>4, <2>2, <3>4 DEF Sending
  <2>3. CASE tx_next.new = 0
    <3>1. Begun = Len(handed) /\ mac.idle >= 2
      BY <1>3, <1>7, <1>9, <2>3 DEF Fresh, Begun, MacInStep
    <3>2. Full => Full'
      BY <1>1, <1>5, <3>1 DEF Full, Stored, sender, network
    <3>3. PackWaits'
      BY <1>1, <1>5, <1>7, <2>1, <3>1, <3>2 DEF PackWaits, sender, network
    <3> QED
      BY <1>1, <1>2, <1>4, <2>3, <3>3 DEF Sending
  <2> QED
    BY <1>3, <2>2, <2>3
<1> QED
  BY <1>3, <1>8, <1>9

\* What receive says stays true when others run.
LEMMA ReceivingKept ==
  ASSUME Receiving, UNCHANGED <<rx, rx_next, rec>>, "receive" \in todo' => "receive" \in todo
  PROVE  Receiving'
BY DEF Receiving, Before

LEMMA BridgeInit == Init => Bridge
<1> SUFFICES ASSUME Init PROVE Bridge
  OBVIOUS
<1>1. MAX_BUF_SIZE \in Nat \ {0} /\ ZeroByte \in Byte /\ Gap \in Nat /\ Gap >= 2
  BY EthBridgeAssumption
<1>2. TypeOK
  BY <1>1 DEF Init, TypeOK, Clear, Buffer
<1>3. Shapes
  <2>1. handed = <<>> /\ socket = <<>> /\ sent = <<>> /\ mac = [left |-> <<>>, idle |-> Gap]
    BY DEF Init
  <2>2. handed \in Seq(Frames) /\ socket \in Seq([bytes : Fitting, from : Addresses])
        /\ sent \in Seq([bytes : Seq(Byte), to : Addresses])
    BY <2>1, EmptySeq
  <2>3. mac \in [left : Seq(Byte), idle : 0 .. Gap]
    <3>1. <<>> \in Seq(Byte) /\ Gap \in 0 .. Gap
      BY <1>1, EmptySeq
    <3> QED
      BY <2>1, <3>1
  <2> QED
    BY <1>1, <2>2, <2>3 DEF Init, Shapes, Low, Off, Addresses
<1>4. Sending
  <2>1. tx_next.new = 0 /\ tx.new = 0 /\ mac.idle >= 2 /\ mac.left = <<>> /\ Len(handed) = 0 /\ Len(sent) = 0
    BY <1>1 DEF Init, Low
  <2>2. MacInStep /\ Begun = 0
    BY <2>1 DEF Init, MacInStep, Before, Fresh, Begun
  <2>3. PackWaits
    BY <2>1, <2>2 DEF Init, PackWaits, Before
  <2> QED
    BY <2>1, <2>2, <2>3 DEF Sending
<1>5. SentAsHanded /\ Receiving
  BY DEF Init, SentAsHanded, Receiving, Off
<1> QED
  BY <1>2, <1>3, <1>4, <1>5 DEF Bridge

LEMMA OthersStep ==
  ASSUME Bridge, Linkup \/ (\E d \in Datagrams : Arrives(d)) \/ UNCHANGED vars
  PROVE  Bridge'
<1> USE DEF Bridge
<1>1. CASE Linkup
  <2>1. /\ Running /\ todo' = todo \ {"linkup"}
        /\ UNCHANGED <<bus, mac, sender, receiver, network, handed>>
        /\ (sockstr' = remote /\ UNCHANGED report) \/ (report' = "socket" /\ UNCHANGED sockstr)
    BY <1>1 DEF Linkup, Runs
  <2>2. TypeOK' /\ Shapes' /\ Receiving'
    BY <2>1 DEF TypeOK, Shapes, Addresses, Receiving, Before, bus, sender, receiver, network
  <2>3. SentAsHanded' /\ Sending'
    <3>1. CASE UNCHANGED report
      BY <2>1, <3>1, SendingKept DEF bus, network
    <3>2. CASE report' = "socket"
      BY <2>1, <3>2 DEF Sending, Running, SentAsHanded, network
    <3> QED
      BY <2>1, <3>1, <3>2
  <2> QED
    BY <2>2, <2>3
<1>2. ASSUME NEW d \in Datagrams, Arrives(d) PROVE Bridge'
  <2>1. UNCHANGED <<bus, todo, mac, sender, receiver, sockstr, sent, handed, report>> /\ socket' = Append(socket, d)
    BY <1>2 DEF Arrives
  <2>2. d \in [bytes : Fitting, from : Addresses]
    <3>1. d = [bytes |-> d.bytes, from |-> d.from] /\ d.bytes \in Seq(Byte) /\ Len(d.bytes) \in 1 .. MAX_BUF_SIZE
      BY EthBridgeAssumption
    <3>2. d.bytes \in Fitting /\ d.from \in Addresses
      BY <3>1 DEF Frames, Fitting, Addresses
    <3> QED
      BY <3>1, <3>2
  <2>3. socket' \in Seq([bytes : Fitting, from : Addresses])
    BY <2>1, <2>2, AppendProperties DEF Shapes
  <2>4. TypeOK' /\ Shapes' /\ Receiving'
    BY <2>1, <2>3 DEF TypeOK, Shapes, Receiving, Before, bus, sender, receiver
  <2>5. SentAsHanded' /\ Sending'
    BY <2>1, SendingKept DEF bus
  <2> QED
    BY <2>4, <2>5
<1>3. CASE UNCHANGED vars
  <2>1. SentAsHanded' /\ Sending'
    BY <1>3, SendingKept DEF vars, bus, network
  <2> QED
    BY <1>3, <2>1 DEF vars, TypeOK, Shapes, Receiving, Before, bus, sender, receiver, network
<1> QED
  BY <1>1, <1>2, <1>3

\* MAC, pack, transmit and receive stay in step, in whatever order they run.
THEOREM BridgeInvariant == Spec => []Bridge
<1>1. Bridge /\ [Next]_vars => Bridge'
  <2> SUFFICES ASSUME Bridge, [Next]_vars PROVE Bridge'
    OBVIOUS
  <2>1. CASE Mac
    <3>1. Receiving'
      BY <2>1, ReceivingKept DEF Bridge, Mac, MacStarts, MacContinues, MacIdles, Runs, receiver
    <3> QED
      BY <2>1, <3>1, MacStep DEF Mac, Bridge
  <2>2. CASE pack
    <3>1. Receiving'
      BY <2>2, ReceivingKept DEF Bridge, pack, PackIdle, PackProcessing, PackFinalizing, Runs, bus, receiver
    <3> QED
      BY <2>2, <3>1, PackStep DEF Bridge
  <2>3. CASE Transmit
    <3>1. Receiving'
      BY <2>3, ReceivingKept DEF Bridge, Transmit, Runs, bus, receiver
    <3> QED
      BY <2>3, <3>1, TransmitStep DEF Bridge
  <2>4. CASE receive
    BY <2>4, ReceiveStep DEF Bridge
  <2>5. CASE ClockEdge
    BY <2>5, EdgeStep DEF Bridge
  <2>6. CASE Linkup \/ (\E d \in Datagrams : Arrives(d)) \/ UNCHANGED vars
    BY <2>6, OthersStep
  <2> QED
    BY <2>1, <2>2, <2>3, <2>4, <2>5, <2>6 DEF Next, Kernel, Stopped
<1> QED
  BY BridgeInit, <1>1, PTL DEF Spec

\* No datagram leaves receive's buffer, and no packet pack's unless it is longer
\* than the buffer, which pack does not check.
THEOREM BridgeTypes == Spec => []TypeOK
  BY BridgeInvariant, PTL DEF Bridge

\* transmit sends what the MAC has handed over: whole packets, in order, none
\* twice, though pack is at the next one when it runs.
THEOREM PacketsSentAsHanded == Spec => []SentAsHanded
  BY BridgeInvariant, PTL DEF Bridge

\* receive lets rx_new_pkt fall between two datagrams.
THEOREM FlagFallsBetween == Spec => []FlagIsOfDatagram
<1>1. Bridge => FlagIsOfDatagram
  BY DEF Bridge, Receiving, FlagIsOfDatagram
<1> QED
  BY BridgeInvariant, <1>1, PTL
=============================================================================
