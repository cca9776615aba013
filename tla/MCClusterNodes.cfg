SPECIFICATION NodesSpec
CONSTANTS
  Node <- MCNode
  Master <- MCMaster
  Suspect <- MCSuspect
  Peer = {1, 2, 3}
  Addr = {1, 2, 3, 4}
  NoAddr = 0
  Newcomer = 3
  Nil = Nil
  Key = {k1, k2}
  Client = {1, 2}
  MaxMoves = 1
  MaxMail = 1
  MaxWrites = 1
  MaxTimeouts = 1
INVARIANTS FailIsAgreed ForgottenStays ReadsLatest
PROPERTIES DetectionSettles
