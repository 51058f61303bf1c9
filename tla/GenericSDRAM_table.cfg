CONSTANTS
  row_bits = 1
  bank_bits = 1
  col_bits = 1
  ROW_SIZE = 2
  OFFSET = 64
  AddressMod = 65536
  Byte <- Bits
  Image <- Small
  conf_addr = 4
  msb = FALSE
  Pins <- Commands
  Strobes <- Backdoors
  MaxReads = 2
SPECIFICATION SDRAMSpec
PROPERTY ImplementsArray
