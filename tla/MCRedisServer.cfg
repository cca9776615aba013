CONSTANTS
  foo = foo
  bar = bar
  c1 = c1
  c2 = c2
  Nil = Nil
  Key <- MCKey
  Client = {c1, c2}
  Script <- MCScript
  WeightKey <- MCWeightKey
  Family <- MCFamily
  Command <- MCCommand
  Sample <- MCSample
  Using <- MCUsing
  Peer <- MCPeer
  Watcher = {c1}
  MaxLength = 3
  MaxInt = 6
  MaxValue = 3
  MaxTime = 2
  MaxQueue = 2
  MaxSize = 3
  LoadTime = 4
SPECIFICATION ServerSpec
INVARIANTS CopiesFollow NobodyWaitsOnData WatchersKnow KeyspaceSound AnswersInOrder RequestsServed
CHECK_DEADLOCK FALSE
