-------------------------- MODULE MCLambdaEndpoint --------------------------
(* Small instances of LambdaEndpoint for TLC. *)
EXTENDS LambdaEndpoint, TLC

CONSTANTS c1, c2

\* One request of each kind, and one with every password that may be right.
MCRequests ==
  LET ok == [source |-> TRUE, header |-> TRUE, password |-> 1, hostname |-> "ours", dryRun |-> FALSE]
  IN  {[ok EXCEPT !.source = FALSE], [ok EXCEPT !.header = FALSE],
       [ok EXCEPT !.hostname = "none"], [ok EXCEPT !.hostname = "other"],
       [ok EXCEPT !.dryRun = TRUE]}
      \cup {[ok EXCEPT !.password = p] : p \in Passwords}

SandboxSymmetry == Permutations(Sandboxes)
=============================================================================
