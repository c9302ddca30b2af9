\* Three workers and the coordinator.
SPECIFICATION FairSpec
CONSTANT Workers = {w1, w2, w3}
PROPERTIES
  PhaseBarrierSpec
  BwaitReturns
  ClosedWorkersLeave
