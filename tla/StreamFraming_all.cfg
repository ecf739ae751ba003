\* Every segmentation of four packets into reads of one to four bytes.
CONSTANTS
  Sizes <- MCSizes
  HeaderLen = 2
  RecvMax = 4
  RECV_STREAM_BUFFER_SIZE = 8
  MaxU16 = 9
  MaxPackets = 4
SPECIFICATION FairSpec
INVARIANTS TypeOK NoSilentEnd AllBeforeFarewell
PROPERTIES ImplementsQueue AllHandled LossNoticed
CHECK_DEADLOCK FALSE
