--------------------------- MODULE MCConfigStore ---------------------------
(***************************************************************************)
(* Instances of ConfigStore for TLC.                                       *)
(***************************************************************************)
EXTENDS ConfigStore

\* A config.yaml with everything set, before the server block is created.
Complete == [creds |-> TRUE, source |-> TRUE, timing |-> TRUE, secret |-> 0]
=============================================================================
