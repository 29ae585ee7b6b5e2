SPECIFICATION FairSpec
CONSTANTS
  short = short
  long = long
  huge = huge
  Message = {short, long, huge}
  Size <- MCSize
  WriteBufferSize = 4
  MessagePerPacket = 2
  FileSize = 6
  ContinueMessageCount = 1
  InitFiles <- MCInitFiles
  Faults = {"open", "rotate", "write"}
  MaxPushes = 3
INVARIANTS
  Inv
  NoneLost
  PacketSizeExact
PROPERTIES
  LogSpec
  Progress
  AwakeExitWaits
