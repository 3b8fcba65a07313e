SPECIFICATION LifecycleFairSpec
CONSTANTS
  Consumers = {"consumer"}
  LateWorkers = {"initial_discovery"}
INVARIANT BuildHasStore
INVARIANT DrainedForGood
INVARIANT StoppedIsDown
PROPERTY SignalEnds
