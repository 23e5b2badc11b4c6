----------------------------- MODULE Addresses -----------------------------
(***************************************************************************)
(* The tests dddns makes on addresses: what it takes for the address of    *)
(* the WAN (internal/wanip, internal/commands/myip) and who may call the   *)
(* server (internal/server/cidr.go).  An IPv4 address is its four octets;  *)
(* <<>> stands for anything else, an IPv6 address included.                *)
(***************************************************************************)
EXTENDS Integers, Sequences

Octet == 0 .. 255

IPv4 == [1 .. 4 -> Octet]

To4(ip) == ip # <<>>

(***************************************************************************)
(* The address to publish.  The tests of Go's net package, octet by octet. *)
(***************************************************************************)
IsUnspecified(ip) == ip = <<0, 0, 0, 0>>
IsBroadcast(ip)   == ip = <<255, 255, 255, 255>>
IsLoopback(ip)    == ip[1] = 127
IsMulticast(ip)   == ip[1] \div 16 = 14
IsLinkLocal(ip)   == ip[1] = 169 /\ ip[2] = 254

IsGlobalUnicast(ip) ==
  ~IsUnspecified(ip) /\ ~IsBroadcast(ip) /\ ~IsLoopback(ip) /\ ~IsMulticast(ip) /\ ~IsLinkLocal(ip)

IsPrivate(ip) ==
  \/ ip[1] = 10
  \/ ip[1] = 172 /\ ip[2] \div 16 = 1
  \/ ip[1] = 192 /\ ip[2] = 168

\* 100.64.0.0/10
CgnatContains(ip) == ip[1] = 100 /\ ip[2] \div 64 = 1

\* Mutant: only the first of the sixteen private class B blocks is known.
ValidateFirstBlock(ip) == To4(ip) /\ IsGlobalUnicast(ip) /\ ip[1] # 10
                          /\ ~(ip[1] = 172 /\ ip[2] = 16) /\ ~(ip[1] = 192 /\ ip[2] = 168)

\* What checkip answers is tested by ValidatePublicIP, an interface's address
\* by isPublicIPv4: only the latter knows carrier-grade NAT.
ValidatePublicIP(ip) == To4(ip) /\ IsGlobalUnicast(ip) /\ ~IsPrivate(ip)

IsPublicIPv4(ip) == To4(ip) /\ IsGlobalUnicast(ip) /\ ~IsPrivate(ip) /\ ~CgnatContains(ip)

(***************************************************************************)
(* The reference: ranges of addresses, in their order.                     *)
(***************************************************************************)
Leq(x, y) ==
  \/ x[1] < y[1]
  \/ x[1] = y[1] /\ x[2] < y[2]
  \/ x[1] = y[1] /\ x[2] = y[2] /\ x[3] < y[3]
  \/ x[1] = y[1] /\ x[2] = y[2] /\ x[3] = y[3] /\ x[4] <= y[4]

Between(lo, ip, hi) == Leq(lo, ip) /\ Leq(ip, hi)

SharedSpace(ip) == Between(<<100, 64, 0, 0>>, ip, <<100, 127, 255, 255>>)

\* The ranges of RFC 1122, 1918, 3927 and 5771 the two tests are to refuse.
Reserved(ip) ==
  \/ Between(<<0, 0, 0, 0>>, ip, <<0, 0, 0, 0>>)
  \/ Between(<<10, 0, 0, 0>>, ip, <<10, 255, 255, 255>>)
  \/ Between(<<127, 0, 0, 0>>, ip, <<127, 255, 255, 255>>)
  \/ Between(<<169, 254, 0, 0>>, ip, <<169, 254, 255, 255>>)
  \/ Between(<<172, 16, 0, 0>>, ip, <<172, 31, 255, 255>>)
  \/ Between(<<192, 168, 0, 0>>, ip, <<192, 168, 255, 255>>)
  \/ Between(<<224, 0, 0, 0>>, ip, <<239, 255, 255, 255>>)
  \/ Between(<<255, 255, 255, 255>>, ip, <<255, 255, 255, 255>>)

(***************************************************************************)
(* The allowlist of the server.  A block is an address and a prefix        *)
(* length; a block that does not parse has the length -1 and is skipped.   *)
(***************************************************************************)

\* The octet i of the network: its highest bits, as many as the prefix has left.
BitsOf(prefix, i) == LET bits == prefix - 8 * (i - 1) IN IF bits < 0 THEN 0 ELSE IF bits > 8 THEN 8 ELSE bits

\* Mutant: whole octets are compared.
InBlockByOctets(block, ip) == \A i \in 1 .. (block.prefix \div 8) : ip[i] = block.net[i]

InBlock(block, ip) ==
  \A i \in 1 .. 4 :
    LET unit == 2 ^ (8 - BitsOf(block.prefix, i)) IN ip[i] \div unit = block.net[i] \div unit

\* The caller: an address, with or without port and zone; <<>> does not parse.
IsAllowed(remote, blocks) ==
  /\ To4(remote)
  /\ \E b \in blocks : b.prefix # -1 /\ InBlock(b, remote)

\* The reference: from the network's first address to its last.
FirstOf(block) == [i \in 1 .. 4 |-> LET unit == 2 ^ (8 - BitsOf(block.prefix, i)) IN (block.net[i] \div unit) * unit]
LastOf(block)  == [i \in 1 .. 4 |-> FirstOf(block)[i] + 2 ^ (8 - BitsOf(block.prefix, i)) - 1]
=============================================================================
