-------------------------- MODULE WanAddressProofs -------------------------
(***************************************************************************)
(* The tests on addresses, for all 2^32 of them, every block of an         *)
(* allowlist and every prefix length; and the lookup of the address to     *)
(* publish, for every set of networks and any number of changes.           *)
(***************************************************************************)
EXTENDS WanAddress, TLAPS

(***************************************************************************)
(* Octets                                                                  *)
(***************************************************************************)

\* An address is four octets.
LEMMA Octets ==
  ASSUME NEW ip \in IPv4
  PROVE  /\ ip[1] \in 0 .. 255 /\ ip[2] \in 0 .. 255 /\ ip[3] \in 0 .. 255 /\ ip[4] \in 0 .. 255
         /\ To4(ip)
<1>1. 1 \in 1 .. 4 /\ 2 \in 1 .. 4 /\ 3 \in 1 .. 4 /\ 4 \in 1 .. 4
  OBVIOUS
<1>2. DOMAIN ip = 1 .. 4
  BY DEF IPv4
<1>3. To4(ip)
  BY <1>1, <1>2 DEF To4
<1>4. QED
  BY <1>1, <1>3 DEF IPv4, Octet

\* The order of addresses, on octets.
Lex(a1, a2, a3, a4, c1, c2, c3, c4) ==
  \/ a1 < c1
  \/ a1 = c1 /\ a2 < c2
  \/ a1 = c1 /\ a2 = c2 /\ a3 < c3
  \/ a1 = c1 /\ a2 = c2 /\ a3 = c3 /\ a4 <= c4

LEMMA LeqIsLex ==
  ASSUME NEW x, NEW y
  PROVE  Leq(x, y) <=> Lex(x[1], x[2], x[3], x[4], y[1], y[2], y[3], y[4])
BY Zenon DEF Leq, Lex

\* A range of first octets.
LEMMA FirstOctet ==
  ASSUME NEW ip \in IPv4, NEW lo, NEW hi,
         lo[1] \in 0 .. 255, lo[2] = 0, lo[3] = 0, lo[4] = 0,
         hi[1] \in 0 .. 255, hi[2] = 255, hi[3] = 255, hi[4] = 255
  PROVE  Between(lo, ip, hi) <=> lo[1] <= ip[1] /\ ip[1] <= hi[1]
<1> DEFINE x1 == ip[1]  x2 == ip[2]  x3 == ip[3]  x4 == ip[4]  a == lo[1]  c == hi[1]
<1>1. Between(lo, ip, hi) <=> Lex(a, 0, 0, 0, x1, x2, x3, x4) /\ Lex(x1, x2, x3, x4, c, 255, 255, 255)
  <2>1. Leq(lo, ip) <=> Lex(lo[1], lo[2], lo[3], lo[4], ip[1], ip[2], ip[3], ip[4])
    BY LeqIsLex, Zenon
  <2>2. Leq(ip, hi) <=> Lex(ip[1], ip[2], ip[3], ip[4], hi[1], hi[2], hi[3], hi[4])
    BY LeqIsLex, Zenon
  <2>3. QED
    BY <2>1, <2>2 DEF Between
<1>2. x1 \in 0 .. 255 /\ x2 \in 0 .. 255 /\ x3 \in 0 .. 255 /\ x4 \in 0 .. 255
  BY Octets
<1>3. a \in 0 .. 255 /\ c \in 0 .. 255
  OBVIOUS
<1>4. Lex(a, 0, 0, 0, x1, x2, x3, x4) /\ Lex(x1, x2, x3, x4, c, 255, 255, 255) <=> a <= x1 /\ x1 <= c
  <2> HIDE DEF x1, x2, x3, x4, a, c
  <2> QED
    BY ONLY <1>2, <1>3 DEF Lex
<1>5. QED
  BY ONLY <1>1, <1>4

\* A range of second octets.
LEMMA SecondOctet ==
  ASSUME NEW ip \in IPv4, NEW lo, NEW hi,
         lo[1] \in 0 .. 255, lo[2] \in 0 .. 255, lo[3] = 0, lo[4] = 0,
         hi[1] = lo[1], hi[2] \in 0 .. 255, hi[3] = 255, hi[4] = 255
  PROVE  Between(lo, ip, hi) <=> ip[1] = lo[1] /\ lo[2] <= ip[2] /\ ip[2] <= hi[2]
<1> DEFINE x1 == ip[1]  x2 == ip[2]  x3 == ip[3]  x4 == ip[4]  a == lo[1]  b == lo[2]  c == hi[2]
<1>1. Between(lo, ip, hi) <=> Lex(a, b, 0, 0, x1, x2, x3, x4) /\ Lex(x1, x2, x3, x4, a, c, 255, 255)
  <2>1. Leq(lo, ip) <=> Lex(lo[1], lo[2], lo[3], lo[4], ip[1], ip[2], ip[3], ip[4])
    BY LeqIsLex, Zenon
  <2>2. Leq(ip, hi) <=> Lex(ip[1], ip[2], ip[3], ip[4], hi[1], hi[2], hi[3], hi[4])
    BY LeqIsLex, Zenon
  <2>3. QED
    BY <2>1, <2>2 DEF Between
<1>2. x1 \in 0 .. 255 /\ x2 \in 0 .. 255 /\ x3 \in 0 .. 255 /\ x4 \in 0 .. 255
  BY Octets
<1>3. a \in 0 .. 255 /\ b \in 0 .. 255 /\ c \in 0 .. 255
  OBVIOUS
<1>4. Lex(a, b, 0, 0, x1, x2, x3, x4) /\ Lex(x1, x2, x3, x4, a, c, 255, 255)
        <=> x1 = a /\ b <= x2 /\ x2 <= c
  <2> HIDE DEF x1, x2, x3, x4, a, b, c
  <2> QED
    BY ONLY <1>2, <1>3 DEF Lex
<1>5. QED
  BY ONLY <1>1, <1>4

\* A range of one address.
LEMMA OneAddress ==
  ASSUME NEW ip \in IPv4, NEW q \in IPv4
  PROVE  Between(q, ip, q) <=> ip = q
<1> DEFINE x1 == ip[1]  x2 == ip[2]  x3 == ip[3]  x4 == ip[4]
           q1 == q[1]  q2 == q[2]  q3 == q[3]  q4 == q[4]
<1>1. Between(q, ip, q) <=> Lex(q1, q2, q3, q4, x1, x2, x3, x4) /\ Lex(x1, x2, x3, x4, q1, q2, q3, q4)
  BY LeqIsLex, Zenon DEF Between
<1>2. /\ x1 \in 0 .. 255 /\ x2 \in 0 .. 255 /\ x3 \in 0 .. 255 /\ x4 \in 0 .. 255
      /\ q1 \in 0 .. 255 /\ q2 \in 0 .. 255 /\ q3 \in 0 .. 255 /\ q4 \in 0 .. 255
  BY Octets
<1>3. Lex(q1, q2, q3, q4, x1, x2, x3, x4) /\ Lex(x1, x2, x3, x4, q1, q2, q3, q4)
        <=> x1 = q1 /\ x2 = q2 /\ x3 = q3 /\ x4 = q4
  <2> HIDE DEF x1, x2, x3, x4, q1, q2, q3, q4
  <2> QED
    BY ONLY <1>2 DEF Lex
<1>4. ip = q <=> x1 = q1 /\ x2 = q2 /\ x3 = q3 /\ x4 = q4
  <2>1. (\A i \in 1 .. 4 : ip[i] = q[i]) => ip = q
    BY DEF IPv4
  <2>2. \A i \in 1 .. 4 : i = 1 \/ i = 2 \/ i = 3 \/ i = 4
    OBVIOUS
  <2>3. QED
    BY <2>1, <2>2
<1>5. QED
  BY ONLY <1>1, <1>3, <1>4

(***************************************************************************)
(* The tests of wanip and myip                                             *)
(***************************************************************************)

\* What checkip says is accepted exactly if no reserved range holds it: every
\* one of the 2^32 addresses (myip.go:56-73).
THEOREM PublicIsUnreserved == \A ip \in IPv4 : ValidatePublicIP(ip) <=> ~Reserved(ip)
<1> SUFFICES ASSUME NEW ip \in IPv4
             PROVE  ValidatePublicIP(ip) <=> ~Reserved(ip)
  OBVIOUS
<1>0. ip[1] \in 0 .. 255 /\ ip[2] \in 0 .. 255 /\ To4(ip)
  BY Octets
<1>1. /\ \A n \in 0 .. 255 : (n \div 16 = 14 <=> 224 <= n /\ n <= 239)
      /\ \A n \in 0 .. 255 : (n \div 16 = 1 <=> 16 <= n /\ n <= 31)
      /\ \A n \in 0 .. 255, k \in 0 .. 255 : (k <= n /\ n <= k <=> n = k)
  OBVIOUS
<1>2. <<0, 0, 0, 0>> \in IPv4 /\ <<255, 255, 255, 255>> \in IPv4
  BY DEF IPv4, Octet
<1>3. IsUnspecified(ip) <=> Between(<<0, 0, 0, 0>>, ip, <<0, 0, 0, 0>>)
  BY <1>2, OneAddress DEF IsUnspecified
<1>4. IsBroadcast(ip) <=> Between(<<255, 255, 255, 255>>, ip, <<255, 255, 255, 255>>)
  BY <1>2, OneAddress DEF IsBroadcast
<1>5. IsLoopback(ip) <=> Between(<<127, 0, 0, 0>>, ip, <<127, 255, 255, 255>>)
  BY <1>0, <1>1, FirstOctet DEF IsLoopback
<1>6. IsMulticast(ip) <=> Between(<<224, 0, 0, 0>>, ip, <<239, 255, 255, 255>>)
  BY <1>0, <1>1, FirstOctet DEF IsMulticast
<1>7. IsLinkLocal(ip) <=> Between(<<169, 254, 0, 0>>, ip, <<169, 254, 255, 255>>)
  BY <1>0, <1>1, SecondOctet DEF IsLinkLocal
<1>8. IsPrivate(ip) <=> \/ Between(<<10, 0, 0, 0>>, ip, <<10, 255, 255, 255>>)
                        \/ Between(<<172, 16, 0, 0>>, ip, <<172, 31, 255, 255>>)
                        \/ Between(<<192, 168, 0, 0>>, ip, <<192, 168, 255, 255>>)
  <2>1. ip[1] = 10 <=> Between(<<10, 0, 0, 0>>, ip, <<10, 255, 255, 255>>)
    BY <1>0, <1>1, FirstOctet
  <2>2. ip[1] = 172 /\ ip[2] \div 16 = 1 <=> Between(<<172, 16, 0, 0>>, ip, <<172, 31, 255, 255>>)
    BY <1>0, <1>1, SecondOctet
  <2>3. ip[1] = 192 /\ ip[2] = 168 <=> Between(<<192, 168, 0, 0>>, ip, <<192, 168, 255, 255>>)
    BY <1>0, <1>1, SecondOctet
  <2>4. QED
    BY <2>1, <2>2, <2>3 DEF IsPrivate
<1>9. QED
  BY <1>0, <1>3, <1>4, <1>5, <1>6, <1>7, <1>8 DEF ValidatePublicIP, IsGlobalUnicast, Reserved

\* An interface's address is accepted exactly if neither a reserved range nor
\* the carriers' shared space holds it (wanip.go:149-165).
THEOREM InterfaceIsPublic ==
  \A ip \in IPv4 : IsPublicIPv4(ip) <=> ~Reserved(ip) /\ ~SharedSpace(ip)
<1> SUFFICES ASSUME NEW ip \in IPv4
             PROVE  IsPublicIPv4(ip) <=> ~Reserved(ip) /\ ~SharedSpace(ip)
  OBVIOUS
<1>1. ip[1] \in 0 .. 255 /\ ip[2] \in 0 .. 255
  BY Octets
<1>2. CgnatContains(ip) <=> SharedSpace(ip)
  <2>1. \A n \in 0 .. 255 : n \div 64 = 1 <=> 64 <= n /\ n <= 127
    OBVIOUS
  <2>2. SharedSpace(ip) <=> ip[1] = 100 /\ 64 <= ip[2] /\ ip[2] <= 127
    BY SecondOctet DEF SharedSpace
  <2>3. QED
    BY <1>1, <2>1, <2>2 DEF CgnatContains
<1>3. QED
  BY <1>2, PublicIsUnreserved DEF IsPublicIPv4, ValidatePublicIP

(***************************************************************************)
(* The allowlist                                                           *)
(***************************************************************************)
Units == {1, 2, 4, 8, 16, 32, 64, 128, 256}

Unit(prefix, i) == 2 ^ (8 - BitsOf(prefix, i))

\* The powers of two up to an octet's.
LEMMA Powers == \A n \in 0 .. 8 : 2 ^ n \in Units /\ (n = 0 => 2 ^ n = 1) /\ (n = 8 => 2 ^ n = 256)
<1>1. /\ 2 ^ 0 = 1 /\ 2 ^ 1 = 2 /\ 2 ^ 2 = 4 /\ 2 ^ 3 = 8 /\ 2 ^ 4 = 16
      /\ 2 ^ 5 = 32 /\ 2 ^ 6 = 64 /\ 2 ^ 7 = 128 /\ 2 ^ 8 = 256
  OBVIOUS
<1> SUFFICES ASSUME NEW n \in 0 .. 8
             PROVE  2 ^ n \in Units /\ (n = 0 => 2 ^ n = 1) /\ (n = 8 => 2 ^ n = 256)
  OBVIOUS
<1>2. \/ n = 0 \/ n = 1 \/ n = 2 \/ n = 3 \/ n = 4
      \/ n = 5 \/ n = 6 \/ n = 7 \/ n = 8
  OBVIOUS
<1>3. CASE n = 0
  BY <1>1, <1>3 DEF Units
<1>4. CASE n = 1
  BY <1>1, <1>4 DEF Units
<1>5. CASE n = 2
  BY <1>1, <1>5 DEF Units
<1>6. CASE n = 3
  BY <1>1, <1>6 DEF Units
<1>7. CASE n = 4
  BY <1>1, <1>7 DEF Units
<1>8. CASE n = 5
  BY <1>1, <1>8 DEF Units
<1>9. CASE n = 6
  BY <1>1, <1>9 DEF Units
<1>10. CASE n = 7
  BY <1>1, <1>10 DEF Units
<1>11. CASE n = 8
  BY <1>1, <1>11 DEF Units
<1>12. QED
  BY <1>2, <1>3, <1>4, <1>5, <1>6, <1>7, <1>8, <1>9, <1>10, <1>11

\* Only one octet of a network is cut: those before it are kept whole, those
\* after it not at all.
LEMMA OneCut ==
  ASSUME NEW p \in 0 .. 32
  PROVE  /\ \A i \in 1 .. 4 : Unit(p, i) \in Units
         /\ \/ Unit(p, 2) = 256 /\ Unit(p, 3) = 256 /\ Unit(p, 4) = 256
            \/ Unit(p, 1) = 1 /\ Unit(p, 3) = 256 /\ Unit(p, 4) = 256
            \/ Unit(p, 1) = 1 /\ Unit(p, 2) = 1 /\ Unit(p, 4) = 256
            \/ Unit(p, 1) = 1 /\ Unit(p, 2) = 1 /\ Unit(p, 3) = 1
<1>1. \A i \in 1 .. 4 : /\ BitsOf(p, i) \in 0 .. 8
                        /\ (p <= 8 * (i - 1) => BitsOf(p, i) = 0)
                        /\ (p >= 8 * i => BitsOf(p, i) = 8)
  BY DEF BitsOf
<1>2. \A i \in 1 .. 4 : /\ Unit(p, i) \in Units
                        /\ (p <= 8 * (i - 1) => Unit(p, i) = 256)
                        /\ (p >= 8 * i => Unit(p, i) = 1)
  <2> SUFFICES ASSUME NEW i \in 1 .. 4
               PROVE  /\ Unit(p, i) \in Units
                      /\ (p <= 8 * (i - 1) => Unit(p, i) = 256)
                      /\ (p >= 8 * i => Unit(p, i) = 1)
    OBVIOUS
  <2> DEFINE n == 8 - BitsOf(p, i)
  <2>1. n \in 0 .. 8 /\ (BitsOf(p, i) = 0 => n = 8) /\ (BitsOf(p, i) = 8 => n = 0)
    BY <1>1
  <2> HIDE DEF n
  <2>2. 2 ^ n \in Units /\ (n = 0 => 2 ^ n = 1) /\ (n = 8 => 2 ^ n = 256)
    BY <2>1, Powers
  <2>3. QED
    BY <1>1, <2>1, <2>2 DEF Unit, n
<1>3. p <= 8 \/ (8 <= p /\ p <= 16) \/ (16 <= p /\ p <= 24) \/ 24 <= p
  OBVIOUS
<1>4. QED
  BY <1>2, <1>3

SameBits(x, n, u) == x \div u = n \div u
Base(n, u) == (n \div u) * u

\* The octets that share an octet's highest bits are an interval.
LEMMA Interval ==
  ASSUME NEW u \in Units, NEW n \in 0 .. 255, NEW x \in 0 .. 255
  PROVE  /\ Base(n, u) \in Int
         /\ (SameBits(x, n, u) <=> Base(n, u) <= x /\ x <= Base(n, u) + u - 1)
         /\ (u = 1 => Base(n, u) = n)
         /\ (u = 256 => Base(n, u) = 0)
<1> DEFINE Claim(v) == LET f == (n \div v) * v IN
                       /\ f \in Int
                       /\ (x \div v = n \div v <=> f <= x /\ x <= f + v - 1)
                       /\ (v = 1 => f = n)
                       /\ (v = 256 => f = 0)
<1>1. Claim(1) /\ Claim(256)
  OBVIOUS
<1>2. Claim(2) /\ Claim(4) /\ Claim(8)
  OBVIOUS
<1>3. Claim(16) /\ Claim(32)
  OBVIOUS
<1>4. Claim(64) /\ Claim(128)
  OBVIOUS
<1>5. Claim(u)
  BY <1>1, <1>2, <1>3, <1>4 DEF Units
<1>6. QED
  BY <1>5 DEF Base, SameBits

Blocks == [net : IPv4, prefix : 0 .. 32]

\* An address is in a block, compared octet by octet under the mask, exactly if
\* it lies between the first and the last address of the network: every address,
\* every network, every prefix length (cidr.go:22-46).
THEOREM BlockIsRange ==
  \A b \in Blocks, ip \in IPv4 : InBlock(b, ip) <=> Between(FirstOf(b), ip, LastOf(b))
<1> SUFFICES ASSUME NEW b \in Blocks, NEW ip \in IPv4
             PROVE  InBlock(b, ip) <=> Between(FirstOf(b), ip, LastOf(b))
  OBVIOUS
<1> DEFINE u(i) == Unit(b.prefix, i)
           f(i) == Base(b.net[i], u(i))
           lo == FirstOf(b)
           hi == LastOf(b)
<1>1. b.prefix \in 0 .. 32 /\ b.net \in IPv4
  BY DEF Blocks
<1>2. \A i \in 1 .. 4 : b.net[i] \in 0 .. 255 /\ ip[i] \in 0 .. 255 /\ u(i) \in Units
  BY <1>1, OneCut DEF IPv4, Octet
<1>3. InBlock(b, ip) <=> \A i \in 1 .. 4 : SameBits(ip[i], b.net[i], u(i))
  BY DEF InBlock, Unit, SameBits
<1>4. \A i \in 1 .. 4 : lo[i] = f(i) /\ hi[i] = f(i) + u(i) - 1
  BY DEF FirstOf, LastOf, Unit, Base
<1> HIDE DEF u, lo, hi
<1>5. \A i \in 1 .. 4 : /\ f(i) \in Int
                        /\ (SameBits(ip[i], b.net[i], u(i)) <=> f(i) <= ip[i] /\ ip[i] <= f(i) + u(i) - 1)
                        /\ (u(i) = 1 => f(i) = b.net[i])
                        /\ (u(i) = 256 => f(i) = 0)
  <2> SUFFICES ASSUME NEW i \in 1 .. 4
               PROVE  /\ f(i) \in Int
                      /\ (SameBits(ip[i], b.net[i], u(i)) <=> f(i) <= ip[i] /\ ip[i] <= f(i) + u(i) - 1)
                      /\ (u(i) = 1 => f(i) = b.net[i])
                      /\ (u(i) = 256 => f(i) = 0)
    OBVIOUS
  <2>1. u(i) \in Units /\ b.net[i] \in 0 .. 255 /\ ip[i] \in 0 .. 255
    BY <1>2
  <2>2. QED
    BY <2>1, Interval
<1> HIDE DEF f
<1>6. \A i \in 1 .. 4 : /\ lo[i] \in Int /\ hi[i] \in Int /\ ip[i] \in 0 .. 255
                        /\ (SameBits(ip[i], b.net[i], u(i)) <=> lo[i] <= ip[i] /\ ip[i] <= hi[i])
                        /\ (u(i) = 1 => lo[i] = hi[i])
                        /\ (u(i) = 256 => lo[i] = 0 /\ hi[i] = 255)
  BY <1>2, <1>4, <1>5 DEF Units
<1>7. \/ u(2) = 256 /\ u(3) = 256 /\ u(4) = 256
      \/ u(1) = 1 /\ u(3) = 256 /\ u(4) = 256
      \/ u(1) = 1 /\ u(2) = 1 /\ u(4) = 256
      \/ u(1) = 1 /\ u(2) = 1 /\ u(3) = 1
  BY <1>1, OneCut DEF u
<1>8. 1 .. 4 = {1, 2, 3, 4}
  OBVIOUS
<1>9. InBlock(b, ip) <=> \A i \in 1 .. 4 : lo[i] <= ip[i] /\ ip[i] <= hi[i]
  BY <1>3, <1>6
<1>10. Between(lo, ip, hi) <=> \A i \in 1 .. 4 : lo[i] <= ip[i] /\ ip[i] <= hi[i]
  <2> DEFINE a1 == lo[1]  a2 == lo[2]  a3 == lo[3]  a4 == lo[4]
             c1 == hi[1]  c2 == hi[2]  c3 == hi[3]  c4 == hi[4]
             x1 == ip[1]  x2 == ip[2]  x3 == ip[3]  x4 == ip[4]
  <2>1. /\ a1 \in Int /\ c1 \in Int /\ x1 \in 0 .. 255
        /\ a2 \in Int /\ c2 \in Int /\ x2 \in 0 .. 255
        /\ a3 \in Int /\ c3 \in Int /\ x3 \in 0 .. 255
        /\ a4 \in Int /\ c4 \in Int /\ x4 \in 0 .. 255
    BY <1>6
  <2>2. \/ a2 = 0 /\ a3 = 0 /\ a4 = 0 /\ c2 = 255 /\ c3 = 255 /\ c4 = 255
        \/ a1 = c1 /\ a3 = 0 /\ a4 = 0 /\ c3 = 255 /\ c4 = 255
        \/ a1 = c1 /\ a2 = c2 /\ a4 = 0 /\ c4 = 255
        \/ a1 = c1 /\ a2 = c2 /\ a3 = c3
    BY <1>6, <1>7
  <2>3. (\A i \in 1 .. 4 : lo[i] <= ip[i] /\ ip[i] <= hi[i]) <=>
          /\ a1 <= x1 /\ x1 <= c1 /\ a2 <= x2 /\ x2 <= c2
          /\ a3 <= x3 /\ x3 <= c3 /\ a4 <= x4 /\ x4 <= c4
    BY <1>8
  <2>4. Between(lo, ip, hi) <=> Lex(a1, a2, a3, a4, x1, x2, x3, x4) /\ Lex(x1, x2, x3, x4, c1, c2, c3, c4)
    BY LeqIsLex, Zenon DEF Between
  <2> HIDE DEF a1, a2, a3, a4, c1, c2, c3, c4, x1, x2, x3, x4
  <2>5. Lex(a1, a2, a3, a4, x1, x2, x3, x4) /\ Lex(x1, x2, x3, x4, c1, c2, c3, c4) <=>
          /\ a1 <= x1 /\ x1 <= c1 /\ a2 <= x2 /\ x2 <= c2
          /\ a3 <= x3 /\ x3 <= c3 /\ a4 <= x4 /\ x4 <= c4
    BY ONLY <2>1, <2>2 DEF Lex
  <2>6. QED
    BY ONLY <2>3, <2>4, <2>5
<1>11. QED
  BY <1>9, <1>10 DEF lo, hi

\* The server serves a caller exactly if a block that parses has the caller's
\* address in its range; nobody if there is none (cidr.go:22-46).
THEOREM AllowedInRange ==
  \A blocks \in SUBSET [net : IPv4, prefix : -1 .. 32], ip \in IPv4 \cup {<<>>} :
    IsAllowed(ip, blocks) <=>
      ip # <<>> /\ \E b \in blocks : b.prefix # -1 /\ Between(FirstOf(b), ip, LastOf(b))
<1> SUFFICES ASSUME NEW blocks \in SUBSET [net : IPv4, prefix : -1 .. 32],
                    NEW ip \in IPv4 \cup {<<>>}, ip # <<>>
             PROVE  (\E b \in blocks : b.prefix # -1 /\ InBlock(b, ip)) <=>
                    (\E b \in blocks : b.prefix # -1 /\ Between(FirstOf(b), ip, LastOf(b)))
  BY DEF IsAllowed, To4
<1>1. \A b \in blocks : b.prefix # -1 => b \in Blocks
  BY DEF Blocks
<1>2. QED
  BY <1>1, BlockIsRange

(***************************************************************************)
(* The lookup                                                              *)
(***************************************************************************)

\* What a network is made of.
LEMMA NetworkTypes ==
  ASSUME NEW n \in Networks
  PROVE  /\ n.routes \in Seq(Row) /\ n.order \in Seq(Ifaces)
         /\ \A j \in DOMAIN n.routes : n.routes[j].iface \in Ifaces
         /\ \A i \in DOMAIN n.addrs : n.addrs[i] \in Seq(IPv4 \cup {<<>>})
<1>1. /\ n.routes \in Seq(Row) /\ n.order \in Seq(Ifaces)
      /\ \A i \in DOMAIN n.addrs : n.addrs[i] \in Seq(IPv4 \cup {<<>>})
  BY NetworksAssumption, Zenon DEF NetworksAssumption
<1>2. \A j \in DOMAIN n.routes : n.routes[j] \in Row
  BY <1>1
<1>3. \A j \in DOMAIN n.routes : n.routes[j].iface \in Ifaces
  BY <1>2 DEF Row
<1>4. QED
  BY <1>1, <1>3

\* The addresses an interface is asked for.
LEMMA AddrsTypes ==
  ASSUME net \in Networks, NEW i
  PROVE  \A j \in DOMAIN AddrsOf(i) : AddrsOf(i)[j] \in IPv4 \cup {<<>>}
<1>1. AddrsOf(i) \in Seq(IPv4 \cup {<<>>})
  <2>1. CASE i \in DOMAIN net.addrs
    BY <2>1, NetworkTypes DEF AddrsOf
  <2>2. CASE i \notin DOMAIN net.addrs
    BY <2>2 DEF AddrsOf
  <2>3. QED
    BY <2>1, <2>2
<1>2. QED
  BY <1>1

\* What a lookup may return.
LEMMA ResultTypes ==
  /\ \A ip \in IPv4 \cup {<<>>} :
       Found(ip, "checkip") \in Results /\ \A i \in Ifaces : Found(ip, i) \in Results
  /\ Error("none") \in Results /\ Error("host") \in Results /\ Error("checkip") \in Results
<1> DEFINE Froms == Ifaces \cup {"none", "host", "checkip"}
           Ips == IPv4 \cup {<<>>}
<1>1. "none" \in Froms /\ "host" \in Froms /\ "checkip" \in Froms /\ Ifaces \subseteq Froms /\ <<>> \in Ips
  BY Zenon
<1> HIDE DEF Froms, Ips
<1>2. \A ip \in Ips, from \in Froms : Found(ip, from) \in [ip : Ips, from : Froms]
  BY DEF Found
<1>3. QED
  BY <1>1, <1>2, Zenon DEF Results, Error, Froms, Ips

\* One interface is a sequence of them.
LEMMA OneToAsk ==
  /\ <<>> \in Seq(Ifaces)
  /\ \A i \in Ifaces : <<i>> \in Seq(Ifaces) /\ Len(<<i>>) = 1 /\ Head(<<i>>) = i
OBVIOUS

\* The history of a lookup grows by one network.
LEMMA SeenTypes ==
  ASSUME NEW n \in Networks, ChangesAssumption
  PROVE  /\ <<n>> \in Seq(Networks) /\ Len(<<n>>) = 1 /\ 1 \in 1 .. MaxChanges + 1
         /\ \A s \in Seq(Networks) :
              Len(s) \in 1 .. MaxChanges + 1 /\ Len(s) <= MaxChanges =>
                Append(s, n) \in Seq(Networks) /\ Len(Append(s, n)) \in 1 .. MaxChanges + 1
BY DEF ChangesAssumption

\* The list of interfaces is asked for by a scan only.
Scanning == question = "list" => scan

\* Every step keeps the types.
LEMMA WanTypeStep ==
  ASSUME WanTypeOK, Scanning, [WanNext]_wanVars
  PROVE  WanTypeOK' /\ Scanning'
<1>0. /\ net \in Networks /\ udm \in BOOLEAN
      /\ question \in {"idle", "route", "list", "addrs", "remote"}
      /\ todo \in Seq(Ifaces) /\ scan \in BOOLEAN
      /\ result \in Results /\ ask \in Asks
      /\ seen \in Seq(Networks) /\ Len(seen) \in 1 .. MaxChanges + 1
      /\ unread \in BOOLEAN
      /\ question = "addrs" /\ ~scan => Len(todo) = 1
  BY Zenon DEF WanTypeOK
<1>1. ASSUME NEW s \in Sources, NEW wan \in Ifaces \cup {""}, Lookup(s, wan)
      PROVE  WanTypeOK' /\ Scanning'
  <2>1. /\ net' = net /\ udm' = udm /\ scan' = FALSE /\ result' = Error("none") /\ seen' = <<net>>
        /\ unread' = FALSE
    BY <1>1, Zenon DEF Lookup
  <2>2. result' \in Results
    BY <2>1, ResultTypes, Zenon
  <2>3. ask' \in Asks
    BY <1>1, Zenon DEF Lookup, Asks
  <2>4. question' \in {"idle", "route", "addrs", "remote"}
    BY <1>1, Zenon DEF Lookup
  <2>5. todo' \in Seq(Ifaces) /\ (question' = "addrs" => Len(todo') = 1)
    <3>1. CASE Local(s) /\ wan # ""
      <4>1. wan \in Ifaces /\ todo' = <<wan>>
        BY <1>1, <3>1, Zenon DEF Lookup
      <4>2. QED
        BY <4>1, OneToAsk, Zenon
    <3>2. CASE ~(Local(s) /\ wan # "")
      <4>1. todo' = <<>>
        BY <1>1, <3>2, Zenon DEF Lookup
      <4>2. question' # "addrs"
        <5>1. CASE Local(s)
          BY <1>1, <3>2, <5>1 DEF Lookup
        <5>2. CASE ~Local(s)
          BY <1>1, <5>2 DEF Lookup
        <5>3. QED
          BY <5>1, <5>2
      <4>3. QED
        BY <4>1, <4>2, OneToAsk, Zenon
    <3>3. QED
      BY <3>1, <3>2
  <2>6. seen' \in Seq(Networks) /\ Len(seen') \in 1 .. MaxChanges + 1
    BY <1>0, <2>1, SeenTypes, ChangesAssumption, Zenon
  <2>7. question' # "list"
    BY <2>4
  <2>8. question' \in {"idle", "route", "list", "addrs", "remote"}
    BY <2>4
  <2>9. QED
    BY <1>0, <2>1, <2>2, <2>3, <2>5, <2>6, <2>7, <2>8, Zenon DEF WanTypeOK, Scanning
<1>2. CASE ReadRoutes
  <2>1. net' = net /\ udm' = udm /\ ask' = ask /\ result' = result /\ seen' = seen /\ unread' = unread
    BY <1>2, Zenon DEF ReadRoutes
  <2>2. CASE question' = "list" /\ todo' = <<>> /\ scan' = TRUE
    BY <1>0, <2>1, <2>2, OneToAsk, Zenon DEF WanTypeOK, Scanning
  <2>3. CASE \E j \in DOMAIN net.routes :
               question' = "addrs" /\ todo' = <<net.routes[j].iface>> /\ scan' = FALSE
    <3>1. todo' \in Seq(Ifaces) /\ Len(todo') = 1
      BY <1>0, <2>3, NetworkTypes, OneToAsk, Zenon
    <3>2. QED
      BY <1>0, <2>1, <2>3, <3>1, Zenon DEF WanTypeOK, Scanning
  <2>4. QED
    BY <1>2, <2>2, <2>3, Zenon DEF ReadRoutes
<1>3. CASE ListInterfaces
  <2>1. /\ net' = net /\ udm' = udm /\ ask' = ask /\ scan' = scan /\ result' = result /\ seen' = seen
        /\ unread' = unread
    BY <1>3, Zenon DEF ListInterfaces
  <2>2. question' = "addrs" /\ todo' = net.order
    BY <1>3, Zenon DEF ListInterfaces
  <2>3. scan
    BY <1>3, Zenon DEF ListInterfaces, Scanning
  <2>4. todo' \in Seq(Ifaces)
    BY <1>0, <2>2, NetworkTypes, Zenon
  <2>5. QED
    BY <1>0, <2>1, <2>2, <2>3, <2>4, Zenon DEF WanTypeOK, Scanning
<1>4. CASE ListFails \/ Exhausted
  <2>1. /\ net' = net /\ udm' = udm /\ ask' = ask /\ todo' = todo /\ scan' = scan /\ seen' = seen
        /\ unread' = unread
    BY <1>4, Zenon DEF ListFails, Exhausted
  <2>2. question' = "idle" /\ result' \in Results
    BY <1>4, ResultTypes, Zenon DEF ListFails, Exhausted
  <2>3. QED
    BY <1>0, <2>1, <2>2, Zenon DEF WanTypeOK, Scanning
<1>5. CASE AskInterface
  <2>1. /\ net' = net /\ udm' = udm /\ ask' = ask /\ scan' = scan /\ seen' = seen /\ todo # <<>>
        /\ unread' = unread
    BY <1>5, Zenon DEF AskInterface
  <2>2. Head(todo) \in Ifaces /\ Tail(todo) \in Seq(Ifaces)
    BY ONLY <1>0, <2>1
  <2>3. CASE \E j \in DOMAIN AddrsOf(Head(todo)) :
               question' = "idle" /\ todo' = <<>> /\ result' = Found(AddrsOf(Head(todo))[j], Head(todo))
    <3>1. result' \in Results
      BY <1>0, <2>2, <2>3, AddrsTypes, ResultTypes, Zenon
    <3>2. QED
      BY <1>0, <2>1, <2>3, <3>1, OneToAsk, Zenon DEF WanTypeOK, Scanning
  <2>4. CASE /\ question' = IF scan THEN "addrs" ELSE "idle"
             /\ todo' = Tail(todo)
             /\ result' = Error(IF scan THEN "none" ELSE "host")
    <3>1. result' \in Results
      BY <2>4, ResultTypes, Zenon
    <3>2. QED
      BY <1>0, <2>1, <2>2, <2>4, <3>1, Zenon DEF WanTypeOK, Scanning
  <2>5. QED
    BY <1>5, <2>3, <2>4, Zenon DEF AskInterface
<1>6. ASSUME NEW ip \in Answers, AskCheckip(ip)
      PROVE  WanTypeOK' /\ Scanning'
  <2>1. /\ net' = net /\ udm' = udm /\ ask' = ask /\ todo' = todo /\ scan' = scan
        /\ question' = "idle" /\ seen' = <<net>> /\ unread' = unread
    BY <1>6, Zenon DEF AskCheckip
  <2>2. result' \in Results
    BY <1>6, ResultTypes, AnswersAssumption, Zenon DEF AskCheckip, AnswersAssumption
  <2>3. seen' \in Seq(Networks) /\ Len(seen') \in 1 .. MaxChanges + 1
    BY <1>0, <2>1, SeenTypes, ChangesAssumption, Zenon
  <2>4. QED
    BY <1>0, <2>1, <2>2, <2>3, Zenon DEF WanTypeOK, Scanning
<1>7. ASSUME NEW n \in Networks, Change(n)
      PROVE  WanTypeOK' /\ Scanning'
  <2>1. /\ net' = n /\ udm' = udm /\ ask' = ask /\ question' = question /\ todo' = todo /\ scan' = scan
        /\ unread' = unread
    BY <1>7, Zenon DEF Change
  <2>2. result' \in Results
    BY <1>0, <1>7, ResultTypes, Zenon DEF Change
  <2>3. seen' \in Seq(Networks) /\ Len(seen') \in 1 .. MaxChanges + 1
    BY <1>0, <1>7, SeenTypes, ChangesAssumption, Zenon DEF Change
  <2>4. QED
    BY <1>0, <2>1, <2>2, <2>3, Zenon DEF WanTypeOK, Scanning
<1>8. CASE UNCHANGED wanVars
  BY <1>0, <1>8, Zenon DEF wanVars, WanTypeOK, Scanning
<1>9. CASE RoutesFail
  <2>1. /\ net' = net /\ udm' = udm /\ ask' = ask /\ result' = result /\ seen' = seen
        /\ question' = "list" /\ todo' = <<>> /\ scan' = TRUE /\ unread' = TRUE
    BY <1>9, Zenon DEF RoutesFail
  <2>2. QED
    BY <1>0, <2>1, OneToAsk, Zenon DEF WanTypeOK, Scanning
<1>10. QED
  BY <1>1, <1>2, <1>3, <1>4, <1>5, <1>6, <1>7, <1>8, <1>9, Zenon DEF WanNext

\* The types of a lookup that has not begun.
LEMMA WanTypeInit ==
  ASSUME WanInit
  PROVE  WanTypeOK /\ Scanning
<1>1. /\ net \in Networks /\ udm \in BOOLEAN /\ ask = "-" /\ question = "idle" /\ todo = <<>>
      /\ scan = FALSE /\ result = Error("none") /\ seen = <<net>> /\ unread = FALSE
  BY Zenon DEF WanInit
<1>2. question \in {"idle", "route", "list", "addrs", "remote"} /\ question # "addrs" /\ question # "list"
  BY <1>1
<1>3. todo \in Seq(Ifaces) /\ result \in Results /\ ask \in Asks
  BY <1>1, OneToAsk, ResultTypes, Zenon DEF Asks
<1>4. seen \in Seq(Networks) /\ Len(seen) \in 1 .. MaxChanges + 1
  BY <1>1, SeenTypes, ChangesAssumption, Zenon
<1>5. QED
  BY <1>1, <1>2, <1>3, <1>4, Zenon DEF WanTypeOK, Scanning

\* The lookup keeps its types, and one that does not scan has one interface to
\* ask (wanip.go:65-112, myip.go:25-53).
THEOREM WanTypeCorrect == WanSpec => []WanTypeOK
<1>1. WanInit => WanTypeOK /\ Scanning
  BY WanTypeInit
<1>2. WanTypeOK /\ Scanning /\ [WanNext]_wanVars => (WanTypeOK /\ Scanning)'
  BY WanTypeStep
<1>3. QED
  BY <1>1, <1>2, PTL DEF WanSpec

(***************************************************************************)
(* No reserved address                                                     *)
(***************************************************************************)

\* The address found has passed the test of its source.
Vetted ==
  result.ip # <<>> =>
    IsPublicIPv4(result.ip) \/ (ValidatePublicIP(result.ip) /\ result.from = "checkip")

\* An address found on an interface or told by checkip is of no reserved range,
\* and of the carriers' shared space only if checkip told it: any address, any
\* networks (wanip.go:149-165, myip.go:56-73).
THEOREM NothingReservedFound == WanSpec => []NothingReserved
<1>0. /\ \A ip, from : Found(ip, from).ip = ip /\ Found(ip, from).from = from
      /\ \A from : Error(from).ip = <<>>
  BY DEF Found, Error
<1>1. WanInit => Vetted
  BY <1>0, Zenon DEF WanInit, Vetted
<1>2. Vetted /\ [WanNext]_wanVars => Vetted'
  <2> SUFFICES ASSUME Vetted, [WanNext]_wanVars
               PROVE  Vetted'
    OBVIOUS
  <2>1. ASSUME result'.ip = <<>>
        PROVE  Vetted'
    BY <2>1, Zenon DEF Vetted
  <2>2. ASSUME result' = result
        PROVE  Vetted'
    BY <2>2, Zenon DEF Vetted
  <2>3. CASE \E s \in Sources, wan \in Ifaces \cup {""} : Lookup(s, wan)
    BY <1>0, <2>1, <2>3, Zenon DEF Lookup
  <2>4. CASE ReadRoutes \/ RoutesFail \/ ListInterfaces
    BY <2>2, <2>4, Zenon DEF ReadRoutes, RoutesFail, ListInterfaces
  <2>5. CASE ListFails \/ Exhausted
    BY <1>0, <2>1, <2>5, Zenon DEF ListFails, Exhausted
  <2>6. CASE AskInterface
    <3>1. CASE \E j \in DOMAIN AddrsOf(Head(todo)) :
                 /\ First(AddrsOf(Head(todo)), j, IsPublicIPv4)
                 /\ result' = Found(AddrsOf(Head(todo))[j], Head(todo))
      <4>1. PICK j : /\ First(AddrsOf(Head(todo)), j, IsPublicIPv4)
                     /\ result' = Found(AddrsOf(Head(todo))[j], Head(todo))
        BY <3>1
      <4>2. IsPublicIPv4(AddrsOf(Head(todo))[j])
        BY <4>1 DEF First
      <4>3. QED
        BY <1>0, <4>1, <4>2, Zenon DEF Vetted
    <3>2. CASE result' = Error(IF scan THEN "none" ELSE "host")
      BY <1>0, <2>1, <3>2, Zenon
    <3>3. QED
      BY <2>6, <3>1, <3>2, Zenon DEF AskInterface
  <2>7. CASE \E ip \in Answers : AskCheckip(ip)
    <3>1. PICK ip \in Answers : AskCheckip(ip)
      BY <2>7
    <3>2. CASE ValidatePublicIP(ip)
      <4>1. result' = Found(ip, "checkip")
        BY <3>1, <3>2, Zenon DEF AskCheckip
      <4>2. QED
        BY <1>0, <3>2, <4>1, Zenon DEF Vetted
    <3>3. CASE ~ValidatePublicIP(ip)
      BY <1>0, <2>1, <3>1, <3>3, Zenon DEF AskCheckip
    <3>4. QED
      BY <3>2, <3>3
  <2>8. CASE \E n \in Networks : Change(n)
    <3>1. CASE question = "idle"
      BY <1>0, <2>1, <2>8, <3>1, Zenon DEF Change
    <3>2. CASE question # "idle"
      BY <2>2, <2>8, <3>2, Zenon DEF Change
    <3>3. QED
      BY <3>1, <3>2
  <2>9. CASE UNCHANGED wanVars
    BY <2>2, <2>9, Zenon DEF wanVars
  <2>10. QED
    BY <2>3, <2>4, <2>5, <2>6, <2>7, <2>8, <2>9, Zenon DEF WanNext
<1>3. WanTypeOK /\ Vetted => NothingReserved
  <2> SUFFICES ASSUME WanTypeOK, Vetted, result.ip # <<>>
               PROVE  ~Reserved(result.ip) /\ (SharedSpace(result.ip) => result.from = "checkip")
    BY Zenon DEF NothingReserved
  <2>1. result.ip \in IPv4
    <3>1. result \in Results
      BY Zenon DEF WanTypeOK
    <3>2. result.ip \in IPv4 \cup {<<>>}
      BY ONLY <3>1 DEF Results
    <3>3. QED
      BY <3>2
  <2>2. CASE IsPublicIPv4(result.ip)
    BY <2>1, <2>2, InterfaceIsPublic, Zenon
  <2>3. CASE ValidatePublicIP(result.ip) /\ result.from = "checkip"
    BY <2>1, <2>3, PublicIsUnreserved, Zenon
  <2>4. QED
    BY <2>2, <2>3, Zenon DEF Vetted
<1>4. QED
  BY <1>1, <1>2, <1>3, WanTypeCorrect, PTL DEF WanSpec

(***************************************************************************)
(* The route and the address                                               *)
(***************************************************************************)
Alike(m, n) == n.routes = m.routes \/ (n.order = m.order /\ n.addrs = m.addrs)

\* The history of a lookup ends in the present, and one thing changes at a time.
Told ==
  /\ seen[Len(seen)] = net
  /\ \A k \in 1 .. Len(seen) - 1 : Alike(seen[k], seen[k + 1])

Leads(n, i) == \E j \in DOMAIN n.routes : Default(n.routes[j]) /\ n.routes[j].iface = i

\* Why a lookup for no particular interface asks those it has left to ask, if it
\* could read the route table.
Reason ==
  /\ question \in {"list", "addrs"} /\ scan => \E k \in DOMAIN seen : Carriers(seen[k]) = {}
  /\ question = "addrs" /\ ~scan => \E k \in DOMAIN seen : Leads(seen[k], Head(todo))

Routed ==
  /\ question = "idle" \/ result.ip = <<>>
  /\ question = "remote" => ask # ""
  /\ Told
  /\ ask = "" /\ ~unread => Reason
  /\ OnDefaultRoute

\* One of the two networks of a lookup routes by the interface that has the
\* address in the other: if one thing only has changed between them, then both
\* hold of one network (wanip.go:64-85).
LEMMA NoMixture ==
  ASSUME WanTypeOK, Told, Len(seen) <= 2,
         NEW k \in DOMAIN seen, NEW i, NEW ip,
         i \in Carriers(seen[k]), ip \in Bound(net, i)
  PROVE  \E n \in ToSet(seen) : \E j \in Carriers(n) : ip \in Bound(n, j)
<1>1. seen \in Seq(Networks) /\ Len(seen) \in 1 .. MaxChanges + 1
  BY Zenon DEF WanTypeOK
<1>2. /\ DOMAIN seen = 1 .. Len(seen) /\ Len(seen) \in Nat
      /\ Len(seen) = 1 \/ Len(seen) = 2
  <2>1. DOMAIN seen = 1 .. Len(seen) /\ Len(seen) \in Nat
    BY ONLY <1>1
  <2>2. Len(seen) >= 1
    BY ONLY <1>1, <2>1, ChangesAssumption DEF ChangesAssumption
  <2>3. Len(seen) <= 2
    OBVIOUS
  <2>4. QED
    BY ONLY <2>1, <2>2, <2>3
<1>3. seen[k] \in ToSet(seen) /\ net \in ToSet(seen)
  <2>1. Len(seen) \in DOMAIN seen
    BY <1>2
  <2>2. QED
    BY <2>1, Zenon DEF Told, ToSet
<1>4. CASE seen[k] = net
  BY <1>3, <1>4, Zenon
<1>5. CASE seen[k] # net
  <2>0. seen[Len(seen)] = net /\ \A m \in 1 .. Len(seen) - 1 : Alike(seen[m], seen[m + 1])
    BY Zenon DEF Told
  <2>1. Len(seen) = 2 /\ k = 1
    <3>1. k # Len(seen)
      BY <1>5, <2>0, Zenon
    <3>2. k \in 1 .. Len(seen)
      BY <1>2, Zenon
    <3>3. QED
      BY ONLY <1>2, <3>1, <3>2
  <2>2. Alike(seen[1], seen[2]) /\ seen[2] = net
    BY ONLY <2>0, <2>1
  <2>3. CASE net.routes = seen[k].routes
    <3>1. i \in Carriers(net)
      BY <2>3, Zenon DEF Carriers
    <3>2. QED
      BY <1>3, <3>1, Zenon
  <2>4. CASE net.addrs = seen[k].addrs
    <3>1. ip \in Bound(seen[k], i)
      BY <2>4, Zenon DEF Bound
    <3>2. QED
      BY <1>3, <3>1, Zenon
  <2>5. QED
    BY <2>1, <2>2, <2>3, <2>4 DEF Alike
<1>6. QED
  BY <1>4, <1>5

\* Where no row is a half route, the interface of a default row carries.
LEMMA LeaderCarries ==
  ASSUME NEW n \in Networks, NEW i, Leads(n, i), ~HalfRoutes(n)
  PROVE  i \in Carriers(n)
<1>1. PICK j \in DOMAIN n.routes : Default(n.routes[j]) /\ n.routes[j].iface = i
  BY Zenon DEF Leads
<1>2. n.routes[j] \in ToSet(n.routes)
  BY Zenon DEF ToSet
<1>3. n.routes[j].dest0 /\ n.routes[j].mask0
  BY <1>1, <1>2, Zenon DEF HalfRoutes, Default
<1>4. n.routes[j] \in {q \in ToSet(n.routes) : q.dest0 /\ q.mask0}
  BY <1>2, <1>3, Zenon
<1>5. QED
  BY <1>1, <1>4, Zenon DEF Carriers

\* Without a default row nothing carries.
LEMMA NobodyCarries ==
  ASSUME NEW n, \A j \in DOMAIN n.routes : ~Default(n.routes[j])
  PROVE  Carriers(n) = {}
<1>1. {q \in ToSet(n.routes) : q.dest0 /\ q.mask0} = {}
  BY Zenon DEF ToSet, Default
<1>2. QED
  BY <1>1, Zenon DEF Carriers
\* The history begins anew, stays or grows.
LEMMA ToldStep ==
  ASSUME WanTypeOK, Told,
         \/ seen' = <<net'>>
         \/ seen' = seen /\ net' = net
         \/ seen' = Append(seen, net') /\ net' \in Networks /\ Alike(net, net')
  PROVE  Told'
<1>1. seen \in Seq(Networks) /\ Len(seen) \in 1 .. MaxChanges + 1
  BY Zenon DEF WanTypeOK
<1>2. /\ seen[Len(seen)] = net
      /\ \A k \in 1 .. Len(seen) - 1 : Alike(seen[k], seen[k + 1])
  BY Zenon DEF Told
<1>3. Len(seen) \in Nat /\ Len(seen) >= 1
  BY ONLY <1>1, ChangesAssumption DEF ChangesAssumption
<1>4. CASE seen' = <<net'>>
  <2>1. Len(seen') = 1 /\ seen'[1] = net' /\ 1 .. 1 - 1 = {}
    BY ONLY <1>4
  <2>2. QED
    BY <2>1, Zenon DEF Told
<1>5. CASE seen' = seen /\ net' = net
  BY <1>2, <1>5, Zenon DEF Told
<1>6. CASE seen' = Append(seen, net') /\ net' \in Networks /\ Alike(net, net')
  <2>1. /\ Len(seen') = Len(seen) + 1 /\ seen'[Len(seen) + 1] = net'
        /\ \A k \in 1 .. Len(seen) : seen'[k] = seen[k]
    BY ONLY <1>1, <1>3, <1>6
  <2>2. \A k \in 1 .. Len(seen') - 1 : Alike(seen'[k], seen'[k + 1])
    <3> SUFFICES ASSUME NEW k \in 1 .. Len(seen)
                 PROVE  Alike(seen'[k], seen'[k + 1])
      BY <1>3, <2>1
    <3>1. CASE k = Len(seen)
      BY <1>2, <1>6, <2>1, <3>1, Zenon
    <3>2. CASE k # Len(seen)
      <4>1. k \in 1 .. Len(seen) - 1 /\ k + 1 \in 1 .. Len(seen)
        BY ONLY <1>3, <3>2
      <4>2. QED
        BY <1>2, <2>1, <4>1, Zenon
    <3>3. QED
      BY <3>1, <3>2
  <2>3. QED
    BY <2>1, <2>2, Zenon DEF Told
<1>7. QED
  BY <1>4, <1>5, <1>6

\* Why the interfaces are asked holds as long as the history only grows.
LEMMA ReasonStays ==
  ASSUME WanTypeOK, Reason, UNCHANGED <<question, scan, todo>>,
         seen' = seen \/ \E n \in Networks : seen' = Append(seen, n)
  PROVE  Reason'
<1>1. seen \in Seq(Networks)
  BY Zenon DEF WanTypeOK
<1>2. \A k \in DOMAIN seen : k \in DOMAIN seen' /\ seen'[k] = seen[k]
  BY ONLY <1>1, seen' = seen \/ \E n \in Networks : seen' = Append(seen, n)
<1>3. QED
  BY <1>2, Zenon DEF Reason

\* The interface asked leads to a network that carries, in the end.
LEMMA FoundOnRoute ==
  ASSUME WanTypeOK, Routed, question = "addrs", ask = "", ~unread, todo # <<>>,
         NEW ip \in IPv4, ip \in Bound(net, Head(todo)),
         Len(seen) <= 2, \A n \in ToSet(seen) : ~HalfRoutes(n)
  PROVE  \E n \in ToSet(seen) : Carriers(n) = {} \/ \E i \in Carriers(n) : ip \in Bound(n, i)
<1>1. Reason /\ Told
  BY Zenon DEF Routed
<1>2. \A k \in DOMAIN seen : seen[k] \in ToSet(seen) /\ seen[k] \in Networks
  <2>1. seen \in Seq(Networks)
    BY Zenon DEF WanTypeOK
  <2>2. \A k \in DOMAIN seen : seen[k] \in Networks
    BY ONLY <2>1
  <2>3. QED
    BY <2>2, Zenon DEF ToSet
<1>3. CASE scan
  <2>1. PICK k \in DOMAIN seen : Carriers(seen[k]) = {}
    BY <1>1, <1>3 DEF Reason
  <2>2. QED
    BY <1>2, <2>1, Zenon
<1>4. CASE ~scan
  <2>1. PICK k \in DOMAIN seen : Leads(seen[k], Head(todo))
    BY <1>1, <1>4, Zenon DEF Reason
  <2>2. Head(todo) \in Carriers(seen[k])
    BY <1>2, <2>1, LeaderCarries, Zenon
  <2>3. QED
    BY <1>1, <2>2, NoMixture, Zenon
<1>5. QED
  BY <1>3, <1>4
\* Every step keeps the reason, and what it finds is on the route.
LEMMA RoutedStep ==
  ASSUME WanTypeOK, Scanning, Routed, [WanNext]_wanVars
  PROVE  Routed'
<1>0. /\ \A ip, from : Found(ip, from).ip = ip
      /\ \A from : Error(from).ip = <<>>
  BY DEF Found, Error
<1>1. /\ question = "idle" \/ result.ip = <<>>
      /\ question = "remote" => ask # ""
      /\ Told
      /\ ask = "" /\ ~unread => Reason
      /\ OnDefaultRoute
  BY Zenon DEF Routed
<1>2. net \in Networks /\ seen \in Seq(Networks) /\ todo \in Seq(Ifaces) /\ Len(seen) \in 1 .. MaxChanges + 1
  BY Zenon DEF WanTypeOK
<1>3. Len(seen) \in DOMAIN seen /\ seen[Len(seen)] = net
  <2>1. Len(seen) \in DOMAIN seen
    BY ONLY <1>2, ChangesAssumption DEF ChangesAssumption
  <2>2. QED
    BY <1>1, <2>1, Zenon DEF Told
<1>4. ASSUME result'.ip = <<>>
      PROVE  OnDefaultRoute'
  BY <1>4, Zenon DEF OnDefaultRoute
<1>5. ASSUME question' = "idle"
      PROVE  (ask = "" /\ ~unread => Reason)' /\ (question = "remote" => ask # "")'
  BY <1>5 DEF Reason
<1>6. ASSUME NEW s \in Sources, NEW wan \in Ifaces \cup {""}, Lookup(s, wan)
      PROVE  Routed'
  <2>1. result'.ip = <<>> /\ Told'
    BY <1>0, <1>1, <1>6, ToldStep, Zenon DEF Lookup
  <2>0. Local(s) => ~Remote(s)
    BY DEF Local, Remote
  <2>2. CASE Local(s) /\ wan = ""
    <3>1. question' = "route"
      BY <1>6, <2>0, <2>2, Zenon DEF Lookup
    <3>2. Reason' /\ question' # "remote"
      BY <3>1 DEF Reason
    <3>3. QED
      BY <1>4, <2>1, <3>2, Zenon DEF Routed
  <2>3. CASE Local(s) /\ wan # ""
    <3>1. ask' = wan
      BY <1>6, <2>3, Zenon DEF Lookup
    <3>2. question' # "remote"
      BY <1>6, <2>0, <2>3 DEF Lookup
    <3>3. QED
      BY <1>4, <2>1, <2>3, <3>1, <3>2, Zenon DEF Routed
  <2>4. CASE ~Local(s)
    <3>1. ask' = "-"
      BY <1>6, <2>4, Zenon DEF Lookup
    <3>2. ask' # ""
      BY <3>1
    <3>3. QED
      BY <1>4, <2>1, <3>2, Zenon DEF Routed
  <2>5. QED
    BY <2>2, <2>3, <2>4, Zenon
<1>7. CASE ReadRoutes
  <2>1. /\ question = "route" /\ net' = net /\ ask' = ask /\ result' = result /\ seen' = seen
        /\ question' \in {"addrs", "list"}
    BY <1>7, Zenon DEF ReadRoutes
  <2>2. result'.ip = <<>> /\ Told' /\ question' # "remote"
    BY <1>1, <2>1, ToldStep
  <2>3. Reason'
    <3>1. CASE /\ question' = "list" /\ scan' = TRUE
               /\ \A j \in DOMAIN net.routes : ~Default(net.routes[j])
      <4>1. Carriers(seen'[Len(seen)]) = {} /\ Len(seen) \in DOMAIN seen'
        BY <1>3, <2>1, <3>1, NobodyCarries, Zenon
      <4>2. QED
        BY <3>1, <4>1, Zenon DEF Reason
    <3>2. CASE \E j \in DOMAIN net.routes :
                 /\ Default(net.routes[j])
                 /\ question' = "addrs" /\ todo' = <<net.routes[j].iface>> /\ scan' = FALSE
      <4>1. PICK j \in DOMAIN net.routes :
                 /\ Default(net.routes[j])
                 /\ question' = "addrs" /\ todo' = <<net.routes[j].iface>> /\ scan' = FALSE
        BY <3>2
      <4>2. Head(todo') = net.routes[j].iface
        BY ONLY <4>1
      <4>3. Leads(seen'[Len(seen)], Head(todo')) /\ Len(seen) \in DOMAIN seen'
        BY <1>3, <2>1, <4>1, <4>2, Zenon DEF Leads
      <4>4. question' # "list"
        BY <4>1
      <4>5. QED
        BY <4>1, <4>3, <4>4, Zenon DEF Reason
    <3>3. \A j \in DOMAIN net.routes : First(net.routes, j, Default) => Default(net.routes[j])
      BY DEF First
    <3>4. QED
      BY <1>7, <3>1, <3>2, <3>3, Zenon DEF ReadRoutes
  <2>4. QED
    BY <1>4, <2>2, <2>3, Zenon DEF Routed
<1>8. CASE ListInterfaces
  <2>1. /\ question = "list" /\ question' = "addrs"
        /\ net' = net /\ ask' = ask /\ scan' = scan /\ result' = result /\ seen' = seen
        /\ unread' = unread
    BY <1>8, Zenon DEF ListInterfaces
  <2>2. result'.ip = <<>> /\ Told' /\ question' # "remote" /\ scan /\ question # "idle"
    BY <1>1, <2>1, ToldStep DEF Scanning
  <2>3. Reason => Reason'
    BY <2>1, <2>2, Zenon DEF Reason
  <2>4. QED
    BY <1>1, <1>4, <2>1, <2>2, <2>3, Zenon DEF Routed
<1>9. CASE ListFails \/ Exhausted
  <2>1. question' = "idle" /\ result'.ip = <<>> /\ net' = net /\ seen' = seen
    BY <1>0, <1>9, Zenon DEF ListFails, Exhausted
  <2>2. QED
    BY <1>1, <1>4, <1>5, <2>1, ToldStep, Zenon DEF Routed
<1>10. CASE AskInterface
  <2>1. /\ question = "addrs" /\ todo # <<>> /\ net' = net /\ ask' = ask /\ scan' = scan /\ seen' = seen
        /\ unread' = unread
    BY <1>10, Zenon DEF AskInterface
  <2>2. Told'
    BY <1>1, <2>1, ToldStep, Zenon
  <2>3. CASE \E j \in DOMAIN AddrsOf(Head(todo)) :
               question' = "idle" /\ result' = Found(AddrsOf(Head(todo))[j], Head(todo))
    <3>1. PICK j \in DOMAIN AddrsOf(Head(todo)) :
               question' = "idle" /\ result' = Found(AddrsOf(Head(todo))[j], Head(todo))
      BY <2>3
    <3>2. result'.ip = AddrsOf(Head(todo))[j] /\ result'.ip \in IPv4 \cup {<<>>}
      <4>1. AddrsOf(Head(todo))[j] \in IPv4 \cup {<<>>}
        BY <1>2, AddrsTypes
      <4>2. result'.ip = AddrsOf(Head(todo))[j]
        BY <1>0, <3>1, Zenon
      <4>3. QED
        BY <4>1, <4>2
    <3>3. AddrsOf(Head(todo))[j] \in Bound(net, Head(todo))
      <4>1. CASE Head(todo) \in DOMAIN net.addrs
        BY <4>1, Zenon DEF AddrsOf, Bound, ToSet
      <4>2. CASE Head(todo) \notin DOMAIN net.addrs
        <5>1. AddrsOf(Head(todo)) = <<>>
          BY <4>2, Zenon DEF AddrsOf
        <5>2. DOMAIN <<>> = {}
          OBVIOUS
        <5>3. QED
          BY <5>1, <5>2, Zenon
      <4>3. QED
        BY <4>1, <4>2
    <3>4. OnDefaultRoute'
      <4> SUFFICES ASSUME ask = "", ~unread, result'.ip # <<>>, Len(seen) <= 2,
                          \A n \in ToSet(seen) : ~HalfRoutes(n)
                   PROVE  \E n \in ToSet(seen) :
                            Carriers(n) = {} \/ \E i \in Carriers(n) : result'.ip \in Bound(n, i)
        BY <2>1, Zenon DEF OnDefaultRoute
      <4>1. result'.ip \in IPv4
        BY <3>2, Zenon
      <4>2. QED
        BY <2>1, <3>2, <3>3, <4>1, FoundOnRoute, Zenon
    <3>5. QED
      BY <1>5, <2>2, <3>1, <3>4, Zenon DEF Routed
  <2>4. CASE /\ question' = IF scan THEN "addrs" ELSE "idle"
             /\ result' = Error(IF scan THEN "none" ELSE "host")
    <3>1. result'.ip = <<>>
      BY <1>0, <2>4, Zenon
    <3>2. CASE scan
      <4>1. question' = "addrs"
        BY <2>4, <3>2, Zenon
      <4>2. question' # "remote"
        BY <4>1
      <4>3. Reason => Reason'
        BY <2>1, <3>2, <4>1, Zenon DEF Reason
      <4>4. QED
        BY <1>1, <1>4, <2>1, <2>2, <3>1, <4>2, <4>3, Zenon DEF Routed
    <3>3. CASE ~scan
      <4>1. question' = "idle"
        BY <2>4, <3>3, Zenon
      <4>2. QED
        BY <1>4, <1>5, <2>2, <3>1, <4>1, Zenon DEF Routed
    <3>4. QED
      BY <3>2, <3>3
  <2>5. QED
    BY <1>10, <2>3, <2>4, Zenon DEF AskInterface
<1>11. ASSUME NEW ip \in Answers, AskCheckip(ip)
       PROVE  Routed'
  <2>1. question = "remote" /\ question' = "idle" /\ ask' = ask /\ net' = net /\ seen' = <<net>>
    BY <1>11, Zenon DEF AskCheckip
  <2>2. Told' /\ ask' # ""
    BY <1>1, <2>1, ToldStep, Zenon
  <2>3. OnDefaultRoute'
    BY <2>2, Zenon DEF OnDefaultRoute
  <2>4. QED
    BY <1>5, <2>1, <2>2, <2>3, Zenon DEF Routed
<1>12. ASSUME NEW n \in Networks, Change(n)
       PROVE  Routed'
  <2>1. /\ net' = n /\ ask' = ask /\ question' = question /\ todo' = todo /\ scan' = scan
        /\ unread' = unread /\ Alike(net, n)
    BY <1>12, Zenon DEF Change, Alike
  <2>2. CASE question = "idle"
    <3>1. seen' = <<n>> /\ result'.ip = <<>>
      BY <1>0, <1>12, <2>2, Zenon DEF Change
    <3>2. QED
      BY <1>1, <1>4, <1>5, <2>1, <2>2, <3>1, ToldStep, Zenon DEF Routed
  <2>3. CASE question # "idle"
    <3>1. seen' = Append(seen, n) /\ result' = result
      BY <1>12, <2>3, Zenon DEF Change
    <3>2. result'.ip = <<>> /\ Told'
      BY <1>1, <2>1, <2>3, <3>1, ToldStep, Zenon
    <3>3. Reason => Reason'
      BY <2>1, <3>1, ReasonStays, Zenon
    <3>4. QED
      BY <1>1, <1>4, <2>1, <3>2, <3>3, Zenon DEF Routed
  <2>4. QED
    BY <2>2, <2>3
<1>13. CASE UNCHANGED wanVars
  <2>1. /\ net' = net /\ ask' = ask /\ question' = question /\ todo' = todo /\ scan' = scan
        /\ result' = result /\ seen' = seen /\ unread' = unread
    BY <1>13, Zenon DEF wanVars
  <2>2. Told' /\ (Reason => Reason')
    BY <1>1, <2>1, ToldStep, ReasonStays, Zenon
  <2>3. OnDefaultRoute'
    BY <1>1, <2>1, Zenon DEF OnDefaultRoute
  <2>4. QED
    BY <1>1, <2>1, <2>2, <2>3, Zenon DEF Routed
<1>14. CASE RoutesFail
  <2>1. /\ question = "route" /\ question' = "list" /\ unread' = TRUE
        /\ net' = net /\ ask' = ask /\ result' = result /\ seen' = seen
    BY <1>14, Zenon DEF RoutesFail
  <2>2. result'.ip = <<>> /\ Told' /\ question' # "remote"
    BY <1>1, <2>1, ToldStep
  <2>3. QED
    BY <1>4, <2>1, <2>2, Zenon DEF Routed
<1>15. QED
  BY <1>6, <1>7, <1>8, <1>9, <1>10, <1>11, <1>12, <1>13, <1>14, Zenon DEF WanNext

\* A detected address was at some moment an address of an interface with the
\* default route, or there was none, unless the route table could not be read,
\* the network changed twice or has a half route: any networks, any table, any
\* number of interfaces (wanip.go:64-85).
THEOREM DetectedOnRoute == WanSpec => []OnDefaultRoute
<1>1. WanInit => WanTypeOK /\ Scanning /\ Routed
  <2> SUFFICES ASSUME WanInit
               PROVE  WanTypeOK /\ Scanning /\ Routed
    OBVIOUS
  <2>1. WanTypeOK /\ Scanning
    BY WanTypeInit
  <2>2. question = "idle" /\ ask = "-" /\ net \in Networks /\ seen = <<net>>
    BY Zenon DEF WanInit
  <2>3. ask # "" /\ question # "remote"
    BY <2>2
  <2>4. Told
    BY <2>2 DEF Told
  <2>5. QED
    BY <2>1, <2>2, <2>3, <2>4, Zenon DEF Routed, OnDefaultRoute
<1>2. WanTypeOK /\ Scanning /\ Routed /\ [WanNext]_wanVars => (WanTypeOK /\ Scanning /\ Routed)'
  BY WanTypeStep, RoutedStep
<1>3. Routed => OnDefaultRoute
  BY DEF Routed
<1>4. QED
  BY <1>1, <1>2, <1>3, PTL DEF WanSpec
=============================================================================
