SPECIFICATION SpawnSpec
INVARIANTS
  SignalIsObeyed
CHECK_DEADLOCK FALSE
