CONSTANTS
  Ifaces <- MCIfaces
  OwnMac <- MCOwnMac
  OwnIp4 <- MCOwnIp4
  SnMac <- MCSnMac
  AllNodesMac = "all"
  Broadcast = "bcast"
  LocalIp6 <- MCLocalIp6
  Frames <- MCFrames
  MaxBatch = 2
SPECIFICATION Spec
INVARIANTS
  EchoAnsweredOnce
