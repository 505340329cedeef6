CONSTANTS
  Ifaces <- MCIfaces
  OwnMac <- MCOwnMac
  OwnIp4 <- MCOwnIp4
  SnMac <- MCSnMac
  AllNodesMac = "all"
  Broadcast = "bcast"
  LocalIp6 <- MCLocalIp6
  Frames <- MCMovedFrames
  MaxBatch = 2
SPECIFICATION Spec
INVARIANTS
  LocalIsOwn
  FibAgreesWithAdjacency
  ArpReplyTrue
  EchoAnswered
  
PROPERTY EntriesPermanent
CHECK_DEADLOCK FALSE
