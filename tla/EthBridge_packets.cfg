CONSTANTS
  MAX_BUF_SIZE = 3
  Byte <- Bytes
  ZeroByte = 0
  Packets <- MacPackets
  Gap = 2
  Datagrams <- Incoming
  remote = "remote"
  bridge = "bridge"
  MaxPackets = 2
  MaxDatagrams = 2
SPECIFICATION FairSpec
INVARIANTS TypeOK SentAsHanded FlagIsOfDatagram
PROPERTIES EveryPacketIsSent EveryDatagramIsCounted
