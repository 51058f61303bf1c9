------------------------------ MODULE MCEthBridge ------------------------------
(* Packets of one byte, of a full buffer and of one byte more, from a MAC that *)
(* pauses for the two cycles the bridge needs, and datagrams of one byte and   *)
(* of a full buffer.                                                           *)
EXTENDS EthBridge

Bytes == {0, 1}
MacPackets == {<<1>>, <<1, 0, 1>>, <<1, 0, 1, 1>>}
Incoming == {[bytes |-> <<1>>, from |-> "remote"], [bytes |-> <<0, 1, 1>>, from |-> "other"]}
=============================================================================
