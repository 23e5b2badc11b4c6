\* Every command in every order, by root or not; any of them may be killed and
\* run again.
SPECIFICATION Spec
CONSTANTS
  Commands = {"init", "create", "rotate", "enable"}
  Given = {"", "yaml", "secure"}
  Privileged = {TRUE, FALSE}
  FirstConfig <- Complete
  MaxSecrets = 2
  MaxCrashes = 2
INVARIANTS TypeOK CredentialsSurvive SettingsSurvive NoPlaintextBesideVault VaultIsSealed
CHECK_DEADLOCK FALSE
