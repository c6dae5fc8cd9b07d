SPECIFICATION Spec
CONSTANTS
  MessageLen <- MCMessageLen
  Commands = {"s", "V", "x"}
  PayloadChars = {"x", "~"}
  UnknownLen = 2
  PacketSize = 3
  Capacity = 4
  MaxOutgoing = 3
INVARIANTS InStep NeverBacklogged
PROPERTY ImplementsQueue
