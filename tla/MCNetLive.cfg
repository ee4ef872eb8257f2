SPECIFICATION FairSpec
CONSTANTS
  Threads = {1, 2}
  Ports = {1, 2}
  Socks = {1, 2, 3}
  Handles = {1, 2, 3, 4}
  Peers = {1, 2}
  LISTEN_QUEUE_SIZE = 2
  MaxPackets = 3
  Programs <- NonblockPrograms
PROPERTY NonblockReturns
CHECK_DEADLOCK FALSE
