------------------------------ MODULE MCParts ------------------------------
EXTENDS Parts

(* Networks of a UniFi device.                                              *)
Main(i) == [iface |-> i, dest0 |-> TRUE,  mask0 |-> TRUE]
Half(i) == [iface |-> i, dest0 |-> TRUE,  mask0 |-> FALSE]
Lan(i)  == [iface |-> i, dest0 |-> FALSE, mask0 |-> FALSE]

wan1A == <<203, 0, 113, 1>>
wan1B == <<203, 0, 113, 2>>
wan2A == <<198, 51, 100, 1>>
lanA  == <<192, 168, 1, 1>>
natA  == <<100, 64, 0, 1>>
vpnA  == <<203, 0, 113, 9>>

\* Main and second WAN as default, both, neither; a VPN that takes 0.0.0.0/1.
Tables == { <<Lan("br0"), Main("eth8")>>, <<Main("eth9"), Lan("br0")>>, <<Main("eth8"), Main("eth9")>>,
            <<>>, <<Half("tun0"), Main("eth8")>> }

Up(order, addrs) == [order |-> order, addrs |-> addrs]

\* All up; a new lease on eth8; eth8 behind carrier-grade NAT and eth9 gone;
\* eth8 without a lease and the VPN up.
Hosts == {
  Up(<<"br0", "eth8", "eth9">>, [br0 |-> <<lanA>>, eth8 |-> <<wan1A>>, eth9 |-> <<<<>>, wan2A>>]),
  Up(<<"br0", "eth8", "eth9">>, [br0 |-> <<lanA>>, eth8 |-> <<lanA, wan1B>>, eth9 |-> <<wan2A>>]),
  Up(<<"br0", "eth8", "eth9">>, [br0 |-> <<lanA>>, eth8 |-> <<natA>>]),
  Up(<<"br0", "tun0">>, [br0 |-> <<lanA>>, eth8 |-> <<>>, eth9 |-> <<wan2A>>, tun0 |-> <<vpnA>>]) }

MCIfaces == {"br0", "eth8", "eth9", "tun0"}

MCNetworks == {[routes |-> t, order |-> h.order, addrs |-> h.addrs] : t \in Tables, h \in Hosts}

(* Addresses at the edges of every range.                                   *)
Edges   == {0, 1, 9, 10, 11, 126, 127, 128, 223, 224, 239, 240, 254, 255}
Seconds == {0, 15, 16, 31, 32, 63, 64, 127, 128, 167, 168, 169, 253, 254, 255}
MCAnswers == {<<a, c, c, c>> : a \in Edges, c \in {0, 255}}
           \cup {<<a, b, 0, 1>> : a \in {100, 169, 172, 192}, b \in Seconds} \cup {<<>>}

(* Callers and allowlists.                                                  *)
Block(n, p) == [net |-> n, prefix |-> p]
MCLists == { {}, {Block(<<0, 0, 0, 0>>, 0)}, {Block(<<127, 0, 0, 0>>, 8)}, {Block(<<192, 168, 1, 77>>, 32)},
           {Block(<<172, 16, 0, 0>>, 12), Block(<<100, 64, 0, 0>>, -1)}, {Block(<<100, 127, 9, 9>>, 10)},
           {Block(<<192, 168, 1, 0>>, 24), Block(<<169, 254, 0, 0>>, 17)} }
MCPeers == MCAnswers \cup {<<192, 168, 1, d>> : d \in {0, 76, 77, 78, 255}}

(* What processes see: of two UniFi devices, from a shell and from systemd; *)
(* of a Linux host, with and without eth0 and docker; of a Mac whose probe  *)
(* may fail; of a host without any identity of its own.                     *)
Info(k, v) == [key |-> k, value |-> v]
See(device, os, lines, docker, eth0, probes, user) ==
  [ device |-> device, os |-> os, isUdm |-> lines # <<>>, ubnthal |-> lines,
    dockerenv |-> docker # <<>>, docker |-> docker, eth0 |-> eth0, probes |-> probes,
    hostname |-> "host", user |-> user, home |-> IF user = "" THEN "" ELSE "home", appdata |-> "" ]
NoProbe == <<"", "">>
MCViews ==
  {See("udm1", "linux", <<Info("cputype", "arm"), Info("serialno", "s1")>>, <<>>, "m1", NoProbe, u) : u \in {"", "root"}}
  \cup {See("udm2", "linux", <<Info("cputype", "arm"), Info("device.hashid", "s2")>>, <<>>, "m2", NoProbe, u) : u \in {"", "root"}}
  \cup {See("udm3", "linux", <<Info("serialno", "")>>, <<>>, "m3", NoProbe, "root")}
  \cup {See("pc", "linux", <<>>, d, m, NoProbe, u) : d \in {<<>>, <<"c1">>, <<"">>}, m \in {"", "m4"}, u \in {"", "joe"}}
  \cup {See("mac", "darwin", <<>>, <<>>, "", p, "joe") : p \in {<<"uuid", "ser">>, <<"", "ser">>, NoProbe}}

MCNames  == << <<"plain">>, <<"other", "plain">> >>
MCValues == {"v", "w"}
MCTokens == {"", "token"}
=============================================================================
