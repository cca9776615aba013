SPECIFICATION ClusterSpec
CONSTANTS
  Node <- MCNode
  Slot <- MCSlot
  Null = Null
  Master <- MCMaster
  MasterOf <- MCMasterOf
  SlotOf <- MCSlotOf
  MaxFailovers = 1
  MaxPackets = 1
  MaxEpoch = 5
  MaxRestarts = 2
  MaxManual = 1
  MaxEvents = 6
INVARIANTS RolesAgree TwoWinnersCost
PROPERTIES OwnerEpochGrows TablesConverge
CHECK_DEADLOCK FALSE
