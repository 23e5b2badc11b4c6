------------------------------ MODULE Route53 ------------------------------
(***************************************************************************)
(* How dddns reads the record (dns.Route53Client.GetCurrentIP): the        *)
(* request for one record set, its signature (sigv4.go), the answer.       *)
(*                                                                         *)
(* Route53 derives the canonical request anew from what it receives;       *)
(* hashes and keys are ideal, so it accepts a request exactly if both      *)
(* sides derive the same one with the same secret.  It answers with the    *)
(* first record set, by name and then type, not before the one asked for.  *)
(*                                                                         *)
(* A name is a sequence of bytes: "plain" is unreserved in a URL, "other"  *)
(* is not (the * of a wildcard).  How a byte stands in a text is the byte  *)
(* and how often it has been encoded: *, %2A, %252A.                       *)
(***************************************************************************)
EXTENDS Naturals, Sequences, SequencesExt, FiniteSetsExt

CONSTANTS
  Names,     \* names of record sets, in the order Route53 lists them
  Values,    \* IPv4 addresses
  Tokens     \* session tokens, "" for none

ASSUME NamesAssumption  == Names \in Seq(Seq({"plain", "other"}) \ {<<>>}) \ {<<>>}
ASSUME ValuesAssumption == {"none", "notfound", "denied", "absent"} \cap Values = {}
ASSUME TokensAssumption == "" \in Tokens

Types == <<"A", "TXT">>

\* A record set: absent, or its values, none for an alias.
Absent == [values |-> <<"absent">>]
RecordSets == {Absent} \cup [values : {<<>>} \cup {<<v>> : v \in Values} \cup {<<v, w>> : v, w \in Values}]

VARIABLES
  zone,     \* (name, type), by their numbers, -> the record set
  asked,    \* the number of the name last asked for
  answer    \* what GetCurrentIP returned: an address, "notfound" or "denied"; "none" yet

zoneVars == <<zone, asked, answer>>

Keys == (DOMAIN Names) \X (DOMAIN Types)

ZoneTypeOK ==
  /\ zone \in [Keys -> RecordSets]
  /\ asked \in DOMAIN Names
  /\ answer \in Values \cup {"none", "notfound", "denied"}

ZoneInit ==
  /\ zone \in [Keys -> RecordSets]
  /\ asked = 1
  /\ answer = "none"

(***************************************************************************)
(* The signature                                                           *)
(***************************************************************************)
\* The name of the request, as text.
Text(name) == [i \in DOMAIN name |-> [byte |-> name[i], times |-> 0]]

\* awsURIEncode, and url.QueryEscape for the bytes of a name: % is escaped too.
URIEncode(text) ==
  [i \in DOMAIN text |-> IF text[i].byte = "plain" THEN text[i] ELSE [text[i] EXCEPT !.times = @ + 1]]

RawQuery(name) == URIEncode(Text(name))

\* The value is encoded as it stands in the URL, that is, once more.
CanonicalQuery(raw) == URIEncode(raw)

SignedHeaders(token) == {"host", "x-amz-date"} \cup (IF token # "" THEN {"x-amz-security-token"} ELSE {})

\* What Route53 derives: the query decoded and encoded once, every x-amz header.
Verifies(name, token) ==
  /\ CanonicalQuery(RawQuery(name)) = URIEncode(Text(name))
  /\ token # "" => "x-amz-security-token" \in SignedHeaders(token)

(***************************************************************************)
(* The record                                                              *)
(***************************************************************************)
Before(j, k) == j[1] < k[1] \/ (j[1] = k[1] /\ j[2] < k[2])

\* maxitems = 1
Listed(n) ==
  LET from == {k \in Keys : zone[k] # Absent /\ ~Before(k, <<n, 1>>)} IN
  {k \in from : \A j \in from : ~Before(j, k)}

\* Mutant: the first record set of the answer is taken for the record.
MatchesAny(n) == {k \in Listed(n) : zone[k].values # <<>>}

Matches(n) == {k \in Listed(n) : k = <<n, 1>> /\ zone[k].values # <<>>}

GetCurrentIP(n, token) ==
  /\ asked' = n
  /\ answer' = IF ~Verifies(Names[n], token) THEN "denied"
               ELSE IF Matches(n) = {} THEN "notfound"
               ELSE zone[CHOOSE k \in Matches(n) : TRUE].values[1]
  /\ UNCHANGED zone

ZoneNext == \E n \in DOMAIN Names, t \in Tokens : GetCurrentIP(n, t)

ZoneSpec == ZoneInit /\ [][ZoneNext]_zoneVars

(***************************************************************************)
(* Properties                                                              *)
(***************************************************************************)

\* An address GetCurrentIP returns is the first value of the A record of exactly
\* that name: never a neighbour's that the cursor ran into, never another
\* type's, never an alias's.  One that is there is found; and a name without
\* bytes to escape is denied to no credentials, lasting or temporary
\* (route53.go:92-127, sigv4.go:37-75).
ReadsRecord ==
  /\ answer \in Values => zone[<<asked, 1>>].values # <<>> /\ zone[<<asked, 1>>].values[1] = answer
  /\ answer = "notfound" => zone[<<asked, 1>>] = Absent \/ zone[<<asked, 1>>].values = <<>>
  /\ answer = "denied" => "other" \in ToSet(Names[asked])
=============================================================================
