\* Every proposal over three child keys.
SPECIFICATION Spec
CONSTANTS
  Names = {ka, kb, kc}
INVARIANT OrderableIsAcyclic
INVARIANT DependenciesComeFirst
CHECK_DEADLOCK FALSE
