------------------------------ MODULE EthBridge ------------------------------
(***************************************************************************)
(* models/network/ethbridge.hpp between a MAC, as mock_gmii.hpp drives it, *)
(* and a raw socket: pack collects the bytes of a packet and spawns        *)
(* transmit, receive polls the socket and puts a datagram on the bus.  The *)
(* processes of a clock edge run in any order; they read the signals as    *)
(* they were before it, but sockstr and the socket as they are.            *)
(***************************************************************************)
EXTENDS Integers, Sequences

CONSTANTS
  MAX_BUF_SIZE,
  Byte, ZeroByte,
  Packets,       \* what the MAC may send
  Gap,           \* clock cycles the MAC leaves between packets
  Datagrams,     \* what may arrive: bytes and sender
  remote, bridge, \* the configured peer, and the sender of what is sent from here
  MaxPackets, MaxDatagrams \* bounds of the model

\* The MAC pauses for two cycles at least: pack does not look at its input in one
\* of them.  Its packets may be of any length; recvfrom cuts a datagram to the
\* length of the buffer.
ASSUME EthBridgeAssumption ==
  /\ MAX_BUF_SIZE \in Nat \ {0} /\ ZeroByte \in Byte /\ Gap \in Nat /\ Gap >= 2
  /\ \A p \in Packets : p \in Seq(Byte) /\ Len(p) >= 1
  /\ \A d \in Datagrams :
       /\ d = [bytes |-> d.bytes, from |-> d.from]
       /\ d.bytes \in Seq(Byte) /\ Len(d.bytes) \in 1 .. MAX_BUF_SIZE

VARIABLES
  tx, tx_next,   \* tx_new_pkt and tx_pkt: value, and what the MAC has written
  rx, rx_next,   \* rx_new_pkt and rx_pkt, with the datagram they are of
  todo,          \* processes that have not run at this edge yet
  mac,           \* bytes left to send, and idle cycles since the last packet
  tx_state, tx_buffer, tx_idx,
  rec,           \* receive: where it waits, rem, and the datagram it is at
  rx_buffer, rx_pkt_cnt,
  sockstr,       \* the peer: remote once linkup has run
  socket,        \* datagrams to be received
  handed, sent,  \* packets the MAC has begun, and datagrams sent
  arrived,       \* how many datagrams have come from elsewhere
  report

bus == <<tx, tx_next, rx, rx_next>>
sender == <<tx_state, tx_buffer, tx_idx>>
receiver == <<rec, rx_buffer, rx_pkt_cnt>>
network == <<socket, sent, arrived>>
vars == <<bus, todo, mac, sender, receiver, sockstr, network, handed, report>>

Running == report = "none"
Buffer == [0 .. MAX_BUF_SIZE - 1 -> Byte]
Clear == [i \in 0 .. MAX_BUF_SIZE - 1 |-> ZeroByte]

Low == [new |-> 0, byte |-> ZeroByte]
Off == [new |-> 0, byte |-> ZeroByte, of |-> 0]

\* linkup and receive are not dont_initialize: they run before the first edge.
Init ==
  /\ tx = Low /\ tx_next = Low /\ rx = Off /\ rx_next = Off
  /\ todo = {"linkup", "receive"}
  /\ mac = [left |-> <<>>, idle |-> Gap]
  /\ tx_state = "IDLE" /\ tx_buffer = Clear /\ tx_idx = 0
  /\ rec = [at |-> "poll", rem |-> 0, of |-> 0] /\ rx_buffer = Clear /\ rx_pkt_cnt = 0
  /\ sockstr = "none" /\ socket = <<>>
  /\ handed = <<>> /\ sent = <<>> /\ arrived = 0 /\ report = "none"

Runs(process) == Running /\ process \in todo /\ todo' = todo \ {process}

(***************************************************************************)
(* linkup.  Its sensitivity to reset is without effect: it never waits.    *)
(***************************************************************************)
Linkup ==
  /\ Runs("linkup")
  /\ \/ sockstr' = remote /\ UNCHANGED report
     \/ report' = "socket" /\ UNCHANGED sockstr
  /\ UNCHANGED <<bus, mac, sender, receiver, network, handed>>

(***************************************************************************)
(* The MAC: MockGMII::send_pkt, again and again.                           *)
(***************************************************************************)
Drives(bytes) == tx_next' = [new |-> 1, byte |-> Head(bytes)] /\ mac' = [left |-> Tail(bytes), idle |-> 0]

MacStarts ==
  /\ Runs("mac") /\ mac.left = <<>> /\ mac.idle >= Gap /\ Len(handed) < MaxPackets
  /\ \E p \in Packets : Drives(p) /\ handed' = Append(handed, p)
  /\ UNCHANGED <<tx, rx, rx_next, sender, receiver, sockstr, network, report>>

MacContinues ==
  /\ Runs("mac") /\ mac.left # <<>>
  /\ Drives(mac.left)
  /\ UNCHANGED <<tx, rx, rx_next, sender, receiver, sockstr, network, handed, report>>

MacIdles ==
  /\ Runs("mac") /\ mac.left = <<>>
  /\ tx_next' = [tx_next EXCEPT !.new = 0]
  /\ mac' = [mac EXCEPT !.idle = IF @ < Gap THEN @ + 1 ELSE @]
  /\ UNCHANGED <<tx, rx, rx_next, sender, receiver, sockstr, network, handed, report>>

(***************************************************************************)
(* pack and transmit.                                                      *)
(***************************************************************************)
Store(i) == tx_buffer' = [tx_buffer EXCEPT ![i] = tx.byte] /\ tx_idx' = i + 1

PackIdle ==
  /\ Runs("pack") /\ tx_state = "IDLE"
  /\ IF tx.new = 1 THEN Store(0) /\ tx_state' = "PROCESSING" ELSE UNCHANGED sender
  /\ UNCHANGED <<bus, mac, receiver, sockstr, network, handed, report>>

\* tx_idx is not checked.  A byte beyond the buffer is undefined behaviour: the
\* model stops.
PackProcessing ==
  /\ Runs("pack") /\ tx_state = "PROCESSING"
  /\ IF tx.new = 0 THEN tx_state' = "FINALIZING" /\ UNCHANGED <<tx_buffer, tx_idx, report>>
     ELSE IF tx_idx < MAX_BUF_SIZE THEN Store(tx_idx) /\ UNCHANGED <<tx_state, report>>
     ELSE report' = "stray" /\ UNCHANGED sender
  /\ UNCHANGED <<bus, mac, receiver, sockstr, network, handed>>

PackForgets == \* mutant: the packet is not sent
  /\ Running /\ "pack" \in todo /\ tx_state = "FINALIZING"
  /\ todo' = todo \ {"pack"}
  /\ tx_state' = "IDLE"
  /\ UNCHANGED <<bus, mac, tx_buffer, tx_idx, receiver, sockstr, network, handed, report>>

\* The spawned process is runnable at once.
PackFinalizing ==
  /\ Running /\ "pack" \in todo /\ tx_state = "FINALIZING"
  /\ todo' = (todo \ {"pack"}) \cup {"transmit"}
  /\ tx_state' = "IDLE"
  /\ UNCHANGED <<bus, mac, tx_buffer, tx_idx, receiver, sockstr, network, handed, report>>

pack == PackIdle \/ PackProcessing \/ PackFinalizing

OneShort == [k \in 1 .. tx_idx - 1 |-> tx_buffer[k - 1]] \* mutant: tx_idx is taken for the last index

Contents == [k \in 1 .. tx_idx |-> tx_buffer[k - 1]]

\* What is sent to this host may come back through the raw socket.
Transmit ==
  /\ Runs("transmit")
  /\ \/ /\ sent' = Append(sent, [bytes |-> Contents, to |-> sockstr])
        /\ \/ UNCHANGED socket
           \/ socket' = Append(socket, [bytes |-> Contents, from |-> bridge])
        /\ UNCHANGED report
     \/ report' = "transmit" /\ UNCHANGED <<sent, socket>>
  /\ UNCHANGED <<bus, mac, sender, receiver, sockstr, arrived, handed>>

(***************************************************************************)
(* receive.                                                                *)
(***************************************************************************)
\* Before linkup the descriptor is 0, from which nothing can be received.
NothingReceived ==
  /\ Runs("receive") /\ rec.at = "poll"
  /\ socket = <<>> \/ sockstr = "none"
  /\ UNCHANGED <<bus, mac, sender, receiver, sockstr, network, handed, report>>

Overwritten(bytes) ==
  [i \in 0 .. MAX_BUF_SIZE - 1 |-> IF i < Len(bytes) THEN bytes[i + 1] ELSE rx_buffer[i]]

FromStranger(d) == d.from # remote \* mutant: who is not the configured peer is ignored

isEcho(d) == d.from = bridge

\* recvfrom stores the sender in sockstr.
Received ==
  /\ Runs("receive") /\ rec.at = "poll" /\ sockstr # "none" /\ socket # <<>>
  /\ LET d == Head(socket) IN
       /\ rx_buffer' = Overwritten(d.bytes) /\ sockstr' = d.from
       /\ IF isEcho(d)
            THEN UNCHANGED <<rec, rx_next>>
            ELSE /\ rx_next' = [rx_next EXCEPT !.new = 0]
                 /\ rec' = [at |-> "byte", rem |-> Len(d.bytes), of |-> rec.of + 1]
  /\ socket' = Tail(socket)
  /\ UNCHANGED <<tx, tx_next, rx, mac, sender, rx_pkt_cnt, sent, arrived, handed, report>>

\* rx_buffer[rem] is the byte after the last one first; beyond the buffer it may
\* be any.
ReadAt(i) == IF i < MAX_BUF_SIZE THEN {rx_buffer[i]} ELSE Byte

AtLeastOne(rem) == rem >= 1 \* mutant: one byte too many
More(rem) == rem > 1

StaysUp(rem) == 1 \* mutant: the flag is not cleared at the end

\* The flag of the last byte is cleared before the signal takes it.
Flag(rem) == IF rem > 1 THEN 1 ELSE 0

ByteOut ==
  /\ Runs("receive") /\ rec.at = "byte"
  /\ \E b \in ReadAt(rec.rem) :
       rx_next' = [new |-> Flag(rec.rem), byte |-> b, of |-> rec.of]
  /\ IF More(rec.rem)
       THEN rec' = [rec EXCEPT !.rem = @ - 1] /\ UNCHANGED rx_pkt_cnt
       ELSE rec' = [rec EXCEPT !.rem = 0, !.at = "poll"] /\ rx_pkt_cnt' = rx_pkt_cnt + 1
  /\ UNCHANGED <<tx, tx_next, rx, mac, sender, rx_buffer, sockstr, network, handed, report>>

receive == NothingReceived \/ Received \/ ByteOut

(***************************************************************************)
(* The clock, and the network.                                             *)
(***************************************************************************)
ClockEdge ==
  /\ Running /\ todo = {}
  /\ tx' = tx_next /\ rx' = rx_next
  /\ todo' = {"pack", "receive", "mac"}
  /\ UNCHANGED <<tx_next, rx_next, mac, sender, receiver, sockstr, network, handed, report>>

Arrives(d) ==
  /\ Running /\ arrived < MaxDatagrams
  /\ socket' = Append(socket, d) /\ arrived' = arrived + 1
  /\ UNCHANGED <<bus, todo, mac, sender, receiver, sockstr, sent, handed, report>>

Stopped == ~Running /\ UNCHANGED vars

Mac == MacStarts \/ MacContinues \/ MacIdles
Kernel == Linkup \/ Mac \/ pack \/ Transmit \/ receive \/ ClockEdge

Next == Kernel \/ (\E d \in Datagrams : Arrives(d)) \/ Stopped

\* The kernel runs every process of an edge and then goes on to the next one.
Spec == Init /\ [][Next]_vars
FairSpec == Spec /\ WF_vars(Kernel)

(***************************************************************************)
(* Properties.                                                             *)
(***************************************************************************)
\* Types, and the limits of the buffers: pack and receive keep inside them, but
\* for a packet that is longer than tx_buffer, which pack does not notice.
TypeOK ==
  /\ todo \subseteq {"linkup", "receive", "pack", "mac", "transmit"}
  /\ tx_state \in {"IDLE", "PROCESSING", "FINALIZING"}
  /\ tx_buffer \in Buffer /\ tx_idx \in 0 .. MAX_BUF_SIZE
  /\ rx_buffer \in Buffer /\ rec.at \in {"poll", "byte"} /\ rec.rem \in 0 .. MAX_BUF_SIZE
  /\ rec.at = "byte" => rec.rem > 0
  /\ report \in {"none", "socket", "transmit", "stray"}
  /\ report = "stray" => Len(sent) < Len(handed) /\ Len(handed[Len(handed)]) > MAX_BUF_SIZE

\* The packets the MAC hands over are sent whole, unmixed, in order and at most
\* once, whatever is received meanwhile.
SentAsHanded ==
  /\ Len(sent) <= Len(handed)
  /\ \A k \in 1 .. Len(sent) : sent[k].bytes = handed[k]

\* While rx_new_pkt is up, the datagram on the bus is the last one taken: two
\* datagrams never follow each other without rx_new_pkt falling between them.
FlagIsOfDatagram == rx.new = 1 => rx.of = rec.of

\* Every packet the MAC has begun is sent, unless the simulation ends.
EveryPacketIsSent ==
  \A n \in 1 .. MaxPackets : Len(handed) >= n ~> Len(sent) >= n \/ ~Running

\* Every datagram from elsewhere is taken off the socket and counted, once, and
\* nothing else is.  Which of its bytes the bus shows is not said.
EveryDatagramIsCounted ==
  /\ [](rx_pkt_cnt <= arrived)
  /\ \A n \in 1 .. MaxDatagrams : arrived >= n ~> rx_pkt_cnt >= n \/ ~Running
=============================================================================
