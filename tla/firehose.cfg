SPECIFICATION FairSpec
CONSTANTS
  chat = chat
  n1 = n1
  n2 = n2
  ChatRelay = chat
  NetworkRelays <- TwoNetworkRelays
  EchoMissRestart = 2
  MaxSilence = 3
INVARIANTS
  TypeOK
  StoppedStaysClosed
  HeardIsKept
  DeafIsReplaced
  NetworkLossSeen
PROPERTIES
  FirehoseRecovers
