\* Every command and fault; two releases.
SPECIFICATION Spec
CONSTANTS
  Versions = {v1, v2}
  MaxSecrets = 2
  Faults = {"apply", "smoke", "script", "systemctl", "kill", "power", "die"}
  MaxFaults = 3
INVARIANTS TypeOK HostMatchesScript NoOrphanService FailedInstallRestores RetiredStaysOff
