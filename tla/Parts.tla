------------------------------- MODULE Parts -------------------------------
(***************************************************************************)
(* The parts under an update: the address of the WAN, the identity that    *)
(* opens the vault, the record as Route53 tells it, who may call the       *)
(* server, the audit log.  They share no state, so their composition       *)
(* explores each with the others at rest.                                  *)
(***************************************************************************)
EXTENDS WanAddress, Identity, Route53, AuditLog

CONSTANTS
  Peers,     \* who may call the server; <<>> does not parse
  Lists      \* allowlists

ASSUME PeersAssumption == Peers \subseteq IPv4 \cup {<<>>}
ASSUME ListsAssumption == \A blocks \in Lists : blocks \subseteq [net : IPv4, prefix : -1 .. 32]

VARIABLE peer   \* the caller of the server and its allowlist

Calls  == [ip : Peers, blocks : Lists]
Nobody == [ip |-> <<>>, blocks |-> {}]

vars == <<wanVars, viewVars, zoneVars, logVars, peer>>

WanRests  == WanInit /\ net = (CHOOSE n \in Networks : TRUE) /\ ~udm
ViewRests == ViewInit /\ view = (CHOOSE v \in Views : TRUE)
ZoneRests == ZoneInit /\ zone = [k \in Keys |-> Absent]
LogRests  == LogInit
PeerRests == peer = Nobody

Init ==
  \/ WanInit  /\ ViewRests /\ ZoneRests /\ LogRests /\ PeerRests
  \/ WanRests /\ ViewInit  /\ ZoneRests /\ LogRests /\ PeerRests
  \/ WanRests /\ ViewRests /\ ZoneInit  /\ LogRests /\ PeerRests
  \/ WanRests /\ ViewRests /\ ZoneRests /\ LogRests /\ peer \in Calls

Next ==
  \/ /\ ViewRests /\ ZoneRests /\ LogRests /\ PeerRests
     /\ WanNext
     /\ UNCHANGED <<viewVars, zoneVars, logVars, peer>>
  \/ /\ WanRests /\ ZoneRests /\ LogRests /\ PeerRests
     /\ ViewNext
     /\ UNCHANGED <<wanVars, zoneVars, logVars, peer>>
  \/ /\ WanRests /\ ViewRests /\ LogRests /\ PeerRests
     /\ ZoneNext
     /\ UNCHANGED <<wanVars, viewVars, logVars, peer>>
  \/ /\ WanRests /\ ViewRests /\ ZoneRests /\ PeerRests
     /\ LogNext
     /\ UNCHANGED <<wanVars, viewVars, zoneVars, peer>>
  \/ /\ peer # Nobody
     /\ peer' = Nobody
     /\ UNCHANGED <<wanVars, viewVars, zoneVars, logVars>>

Spec == Init /\ [][Next]_vars

TypeOK == WanTypeOK /\ ViewTypeOK /\ ZoneTypeOK /\ LogTypeOK /\ peer \in Calls \cup {Nobody}

\* The server serves a caller exactly if its address lies between the first and
\* the last address of a block of the allowlist, whatever the prefix length;
\* nobody if the list is empty or no block parses (cidr.go:22-46).
AllowedIffInRange ==
  IsAllowed(peer.ip, peer.blocks) <=>
    peer.ip # <<>> /\ \E b \in peer.blocks : b.prefix # -1 /\ Between(FirstOf(b), peer.ip, LastOf(b))
=============================================================================
