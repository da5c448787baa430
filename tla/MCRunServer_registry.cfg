\* Three runs over two slots and a retention of one, followed by one subscriber:
\* the registry in every order of registration and completion, and liveness.
CONSTANTS
  MaxConcurrent = 2
  Retention = 1
  Clients = {c1}
  Progress = {}
  Unserializable = {}
  MaxRuns = 3
  MaxEvents = 0
SPECIFICATION Spec
INVARIANTS
  SlotAccounting
  RegistryAgreement
  RetainsLatest
PROPERTIES
  RunsRetire
  ImplementsEventStream
CHECK_DEADLOCK FALSE
