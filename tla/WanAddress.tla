----------------------------- MODULE WanAddress -----------------------------
(***************************************************************************)
(* How a run finds the address to publish (resolver.resolveIP): from an    *)
(* interface of the host (wanip.FromInterface) or from checkip             *)
(* (myip.GetPublicIP).                                                     *)
(*                                                                         *)
(* The lookup asks the kernel several questions, one after the other: for  *)
(* the route table, the list of interfaces, the addresses of each.  The    *)
(* network may change between two answers: a failover to the other WAN, a  *)
(* new lease, an interface that goes.  A network is a record               *)
(*   routes   the rows of /proc/net/route: the interface, is the           *)
(*            destination 0.0.0.0, is the mask?                            *)
(*   order    the interfaces that are up and not loopback, as listed       *)
(*   addrs    the addresses of each interface, in order; an interface that *)
(*            is not in its domain does not exist                          *)
(***************************************************************************)
EXTENDS Addresses, SequencesExt

CONSTANTS
  Ifaces,      \* names of interfaces
  Networks,    \* the networks the host may find itself in
  Answers,     \* what checkip may answer
  MaxChanges   \* bound: changes of the network during a lookup

Row == [iface : Ifaces, dest0 : BOOLEAN, mask0 : BOOLEAN]

ASSUME NetworksAssumption ==
  \A n \in Networks :
    /\ n.routes \in Seq(Row)
    /\ n.order \in Seq(Ifaces)
    /\ \A i \in DOMAIN n.addrs : n.addrs[i] \in Seq(IPv4 \cup {<<>>})
ASSUME AnswersAssumption == Answers \subseteq IPv4 \cup {<<>>}
ASSUME ChangesAssumption == MaxChanges \in Nat

Sources == {"auto", "local", "remote", "other"}

VARIABLES
  net,       \* the network
  udm,       \* profile.Detect finds a UniFi device
  ask,       \* the interface the lookup is for: "" to be detected, "-" none
  question,  \* the next question of the lookup
  todo,      \* interfaces left to ask for their addresses
  scan,      \* is this the fallback, which skips an interface that fails?
  result,    \* the last lookup: the address, <<>> for none, and where it is from
  seen,      \* history: the networks since the lookup began
  unread     \* history: the lookup could not read the route table

wanVars == <<net, udm, ask, question, todo, scan, result, seen, unread>>

Found(ip, from) == [ip |-> ip, from |-> from]
Error(from)     == Found(<<>>, from)

Asks    == Ifaces \cup {"", "-"}
Results == [ip : IPv4 \cup {<<>>}, from : Ifaces \cup {"none", "host", "checkip"}]

WanTypeOK ==
  /\ net \in Networks
  /\ udm \in BOOLEAN
  /\ question \in {"idle", "route", "list", "addrs", "remote"}
  /\ todo \in Seq(Ifaces)
  /\ scan \in BOOLEAN
  /\ result \in Results
  /\ ask \in Asks
  /\ seen \in Seq(Networks) /\ Len(seen) \in 1 .. MaxChanges + 1
  /\ unread \in BOOLEAN
  /\ question = "addrs" /\ ~scan => Len(todo) = 1

WanInit ==
  /\ net \in Networks
  /\ udm \in BOOLEAN
  /\ ask = "-"
  /\ question = "idle"
  /\ todo = <<>>
  /\ scan = FALSE
  /\ result = Error("none")
  /\ seen = <<net>>
  /\ unread = FALSE

(***************************************************************************)
(* The lookup                                                              *)
(***************************************************************************)
Local(source)  == source = "local" \/ (source = "auto" /\ udm)
Remote(source) == source = "remote" \/ (source = "auto" /\ ~udm)

\* wan = "" is no server.wan_interface: the interface is to be detected.
Lookup(source, wan) ==
  /\ question = "idle"
  /\ ask' = IF Local(source) THEN wan ELSE "-"
  /\ question' = CASE Local(source)  -> IF wan = "" THEN "route" ELSE "addrs"
             [] Remote(source) -> "remote"
             [] OTHER          -> "idle"
  /\ todo' = IF Local(source) /\ wan # "" THEN <<wan>> ELSE <<>>
  /\ scan' = FALSE
  /\ result' = Error("none")
  /\ seen' = <<net>>
  /\ unread' = FALSE
  /\ UNCHANGED <<net, udm>>

\* j is the first place of s with P.
First(s, j, P(_)) == j \in DOMAIN s /\ P(s[j]) /\ \A k \in 1 .. j - 1 : ~P(s[k])

\* The destination of the row is 0.0.0.0; its mask is not looked at.
Default(row) == row.dest0

\* Mutant: every default route's interface is asked, as in a scan.
ReadAllRoutes ==
  LET rows == SelectSeq(net.routes, Default) IN
  /\ question = "route"
  /\ question' = "addrs"
  /\ todo' = [j \in DOMAIN rows |-> rows[j].iface]
  /\ UNCHANGED <<net, udm, ask, scan, result, seen, unread>>

\* The interface of the first default row; without one, all are scanned.
ReadRoutes ==
  /\ question = "route"
  /\ \/ \E j \in DOMAIN net.routes :
          /\ First(net.routes, j, Default)
          /\ question' = "addrs" /\ todo' = <<net.routes[j].iface>> /\ scan' = FALSE
     \/ /\ \A j \in DOMAIN net.routes : ~Default(net.routes[j])
        /\ question' = "list" /\ todo' = <<>> /\ scan' = TRUE
  /\ UNCHANGED <<net, udm, ask, result, seen, unread>>

\* The table cannot be opened, is empty, or the read ends with an error before
\* a default row: all are scanned, as if there were no default route.
RoutesFail ==
  /\ question = "route"
  /\ question' = "list" /\ todo' = <<>> /\ scan' = TRUE
  /\ unread' = TRUE
  /\ UNCHANGED <<net, udm, ask, result, seen>>

ListInterfaces ==
  /\ question = "list"
  /\ question' = "addrs"
  /\ todo' = net.order
  /\ UNCHANGED <<net, udm, ask, scan, result, seen, unread>>

ListFails ==
  /\ question = "list"
  /\ question' = "idle"
  /\ result' = Error("none")
  /\ UNCHANGED <<net, udm, ask, todo, scan, seen, unread>>

AddrsOf(i) == IF i \in DOMAIN net.addrs THEN net.addrs[i] ELSE <<>>

\* Mutant: any failure falls back to the scan, that of the interface with the
\* default route too.
AskElsewhere ==
  /\ question = "addrs" /\ todo # <<>>
  /\ LET addrs == AddrsOf(Head(todo)) IN
     \/ \E j \in DOMAIN addrs :
          /\ First(addrs, j, IsPublicIPv4)
          /\ question' = "idle" /\ todo' = <<>> /\ scan' = scan
          /\ result' = Found(addrs[j], Head(todo))
     \/ /\ \A j \in DOMAIN addrs : ~IsPublicIPv4(addrs[j])
        /\ question' = IF scan THEN "addrs" ELSE "list"
        /\ todo' = Tail(todo) /\ scan' = TRUE
        /\ result' = Error("none")
  /\ UNCHANGED <<net, udm, ask, seen, unread>>

\* The first public address of the interface; a scan goes on without one.
AskInterface ==
  /\ question = "addrs" /\ todo # <<>>
  /\ LET addrs == AddrsOf(Head(todo)) IN
     \/ \E j \in DOMAIN addrs :
          /\ First(addrs, j, IsPublicIPv4)
          /\ question' = "idle" /\ todo' = <<>> /\ result' = Found(addrs[j], Head(todo))
     \/ /\ \A j \in DOMAIN addrs : ~IsPublicIPv4(addrs[j])
        /\ question' = IF scan THEN "addrs" ELSE "idle"
        /\ todo' = Tail(todo)
        /\ result' = Error(IF scan THEN "none" ELSE "host")
  /\ UNCHANGED <<net, udm, ask, scan, seen, unread>>

Exhausted ==
  /\ question = "addrs" /\ todo = <<>>
  /\ question' = "idle"
  /\ result' = Error("host")
  /\ UNCHANGED <<net, udm, ask, todo, scan, seen, unread>>

\* checkip answers, or the call fails: <<>>.
AskCheckip(ip) ==
  /\ question = "remote"
  /\ question' = "idle"
  /\ result' = IF ValidatePublicIP(ip) THEN Found(ip, "checkip") ELSE Error("checkip")
  /\ seen' = <<net>>
  /\ UNCHANGED <<net, udm, ask, todo, scan, unread>>

\* Routes or interfaces change, during a lookup or between two.
Change(n) ==
  /\ n # net
  /\ n.routes = net.routes \/ (n.order = net.order /\ n.addrs = net.addrs)
  /\ net' = n
  /\ IF question = "idle"
     THEN seen' = <<n>> /\ result' = Error("none")
     ELSE Len(seen) <= MaxChanges /\ seen' = Append(seen, n) /\ result' = result
  /\ UNCHANGED <<udm, ask, question, todo, scan, unread>>

WanNext ==
  \/ \E s \in Sources, wan \in Ifaces \cup {""} : Lookup(s, wan)
  \/ ReadRoutes
  \/ RoutesFail
  \/ ListInterfaces
  \/ ListFails
  \/ AskInterface
  \/ Exhausted
  \/ \E ip \in Answers : AskCheckip(ip)
  \/ \E n \in Networks : Change(n)

WanSpec == WanInit /\ [][WanNext]_wanVars

(***************************************************************************)
(* Properties                                                              *)
(***************************************************************************)

\* No address of a reserved range is published, and none of the carriers'
\* shared space but what checkip says it has seen: checked octet by octet in the
\* code, against ranges here (wanip.go:149-165, myip.go:56-73).
NothingReserved ==
  result.ip # <<>> => ~Reserved(result.ip) /\ (SharedSpace(result.ip) => result.from = "checkip")

Carriers(n) == {r.iface : r \in {q \in ToSet(n.routes) : q.dest0 /\ q.mask0}}

Bound(n, i) == IF i \in DOMAIN n.addrs THEN ToSet(n.addrs[i]) ELSE {}

HalfRoutes(n) == \E r \in ToSet(n.routes) : r.dest0 /\ ~r.mask0

\* A detected address has, at some moment of the lookup, been an address of an
\* interface with the default route, or there was no default route: if the
\* network changes once meanwhile, the lookup does not mix the route of one
\* network with the address of the other (wanip.go:64-85).  Three things undo
\* it: a second change, a row 0.0.0.0/1, which passes for the default
\* (wanip.go:132), and a route table that cannot be read, after which the
\* address of any interface will do (wanip.go:68-73, 117-122).
OnDefaultRoute ==
  /\ ask = "" /\ result.ip # <<>>
  /\ ~unread
  /\ Len(seen) <= 2
  /\ \A n \in ToSet(seen) : ~HalfRoutes(n)
  => \E n \in ToSet(seen) :
       Carriers(n) = {} \/ \E i \in Carriers(n) : result.ip \in Bound(n, i)
=============================================================================
