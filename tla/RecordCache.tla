---------------------------- MODULE RecordCache ----------------------------
(***************************************************************************)
(* What the last-known-IP cache of dddns promises: it is a memo of the     *)
(* published A record.  Publishing an address drops the memo, and the memo *)
(* is only ever filled with the address the record holds, so a reader that *)
(* finds its own address in the memo may skip the publication.             *)
(***************************************************************************)
CONSTANTS IPs,      \* the addresses the record can hold
          NoIP      \* no record, or nothing remembered

VARIABLES dns,      \* the address the A record holds
          memo      \* the address the reader may trust without asking DNS

Init ==
  /\ dns \in IPs \cup {NoIP}
  /\ memo = NoIP

Publish(v) ==
  /\ dns' = v
  /\ memo' = NoIP

Forget ==
  /\ memo' = NoIP
  /\ UNCHANGED dns

Remember ==
  /\ memo' = dns
  /\ UNCHANGED dns

Next ==
  \/ \E v \in IPs : Publish(v)
  \/ Forget
  \/ Remember

Spec == Init /\ [][Next]_<<dns, memo>>
=============================================================================
