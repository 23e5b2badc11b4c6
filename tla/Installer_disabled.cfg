\* An upgrade of a disabled installation whose smoke test fails.
SPECIFICATION Spec
CONSTANTS
  Versions = {v1, v2}
  MaxSecrets = 0
  Faults = {"smoke"}
  MaxFaults = 1
INVARIANTS DisabledStaysDisabled
