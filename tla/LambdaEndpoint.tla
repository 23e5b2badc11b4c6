--------------------------- MODULE LambdaEndpoint ---------------------------
(***************************************************************************)
(* The endpoint on AWS Lambda (deploy/aws-lambda): each sandbox handles    *)
(* one invocation at a time and keeps the shared secret it read from SSM   *)
(* for Ttl.  The n-th secret the operator stored is the number n; 0 is the *)
(* empty string of a cold cache, and a password that was never a secret.   *)
(***************************************************************************)
EXTENDS Naturals

CONSTANTS
  Sandboxes,     \* the function's execution environments
  Ttl,           \* secretCache.ttl
  Timeout,       \* the function's timeout, after which Lambda kills the sandbox
  Requests,      \* the requests that arrive
  MaxTime,       \* bound: ticks of the clock
  MaxSecrets     \* bound: secrets the operator stores

Passwords == 0 .. MaxSecrets

Request ==
  [source : BOOLEAN,                    \* there is a parseable source address
   header : BOOLEAN,                    \* the Basic header parses
   password : Passwords,
   hostname : {"ours", "other", "none"},
   dryRun : BOOLEAN]

ASSUME PolicyAssumption == Ttl \in Nat \ {0} /\ Timeout \in Nat
ASSUME RequestAssumption == Requests \subseteq Request
ASSUME BoundsAssumption == MaxTime \in Nat /\ MaxSecrets \in Nat \ {0}

VARIABLES
  now,           \* the clock
  secret,        \* the secret in SSM
  stored,        \* history: when each secret was stored
  cache,         \* each sandbox's secretCache: value and fetchedAt
  step,          \* where its invocation is
  call,          \* that invocation: its request, its start and SSM's answer
  reply,         \* how the last invocation ended
  published,     \* history: whether Route53 applied its UPSERT
  verdict        \* history: the last password any sandbox compared

vars == <<now, secret, stored, cache, step, call, reply, published, verdict>>
store == <<secret, stored>>

Steps   == {"idle", "asking", "answered", "updating", "updated"}
Replies == {"none", "dnserr source", "badauth", "dnserr ssm", "notfqdn", "nohost",
            "good dry-run", "dnserr route53", "good", "killed"}

Cold   == [value |-> 0, at |-> 0]
NoCall == [req |-> [source |-> FALSE, header |-> FALSE, password |-> 0,
                    hostname |-> "none", dryRun |-> FALSE],
           begun |-> 0, answer |-> 0]

Entry   == [value : Passwords, at : 0 .. MaxTime]
Call    == [req : Request, begun : 0 .. MaxTime, answer : Passwords]
Verdict == [password : Passwords, accepted : BOOLEAN, at : 0 .. MaxTime]

TypeOK ==
  /\ now \in 0 .. MaxTime
  /\ secret \in 1 .. MaxSecrets
  /\ stored \in [1 .. MaxSecrets -> 0 .. MaxTime]
  /\ cache \in [Sandboxes -> Entry]
  /\ step \in [Sandboxes -> Steps]
  /\ call \in [Sandboxes -> Call]
  /\ reply \in [Sandboxes -> Replies]
  /\ published \in [Sandboxes -> BOOLEAN]
  /\ verdict \in Verdict

Init ==
  /\ now = 0
  /\ secret = 1
  /\ stored = [n \in 1 .. MaxSecrets |-> 0]
  /\ cache = [c \in Sandboxes |-> Cold]
  /\ step = [c \in Sandboxes |-> "idle"]
  /\ call = [c \in Sandboxes |-> NoCall]
  /\ reply = [c \in Sandboxes |-> "none"]
  /\ published = [c \in Sandboxes |-> FALSE]
  /\ verdict = [password |-> 0, accepted |-> FALSE, at |-> 0]

(***************************************************************************)
(* handle                                                                  *)
(***************************************************************************)

\* The invocation ends, and its variables with it.
Return(c, body) ==
  /\ step' = [step EXCEPT ![c] = "idle"]
  /\ call' = [call EXCEPT ![c] = NoCall]
  /\ reply' = [reply EXCEPT ![c] = body]

GoOn(c, s, k) ==
  /\ step' = [step EXCEPT ![c] = s]
  /\ call' = [call EXCEPT ![c] = k]
  /\ reply' = [reply EXCEPT ![c] = "none"]

\* What handle does in invocation k once it has the expected secret.
Decide(c, k, expected) ==
  LET accepted == k.req.password = expected
      ours     == accepted /\ k.req.hostname = "ours"
  IN
  /\ verdict' = [password |-> k.req.password, accepted |-> accepted, at |-> now]
  /\ \/ ~accepted /\ Return(c, "badauth")
     \/ accepted /\ k.req.hostname = "none" /\ Return(c, "notfqdn")
     \/ accepted /\ k.req.hostname = "other" /\ Return(c, "nohost")
     \/ ours /\ k.req.dryRun /\ Return(c, "good dry-run")
     \/ ours /\ ~k.req.dryRun /\ GoOn(c, "updating", k)

\* Mutant: the age is compared with the TTL by <=.
FreshOneMore(c) == cache[c].value # 0 /\ now <= cache[c].at + Ttl

\* secretCache.get can answer from the cache.
Fresh(c) == cache[c].value # 0 /\ now < cache[c].at + Ttl

\* A request arrives: the checks that need no secret, then the cache.
Invoke(c, r) ==
  LET k == [req |-> r, begun |-> now, answer |-> 0] IN
  /\ step[c] = "idle"
  /\ published' = [published EXCEPT ![c] = FALSE]
  /\ \/ ~r.source /\ Return(c, "dnserr source") /\ UNCHANGED verdict
     \/ r.source /\ ~r.header /\ Return(c, "badauth") /\ UNCHANGED verdict
     \/ r.source /\ r.header /\ Fresh(c) /\ Decide(c, k, cache[c].value)
     \/ r.source /\ r.header /\ ~Fresh(c) /\ GoOn(c, "asking", k) /\ UNCHANGED verdict
  /\ UNCHANGED <<now, store, cache>>

\* SSM reads the parameter; its answer is under way.
SsmReads(c) ==
  /\ step[c] = "asking"
  /\ GoOn(c, "answered", [call[c] EXCEPT !.answer = secret])
  /\ UNCHANGED <<now, store, cache, published, verdict>>

\* Mutant: fetchedAt is given the time of expiry.
FetchedStampsExpiry(c) ==
  /\ step[c] = "answered"
  /\ cache' = [cache EXCEPT ![c] = [value |-> call[c].answer, at |-> now + Ttl]]
  /\ Decide(c, call[c], call[c].answer)
  /\ UNCHANGED <<now, store, published>>

\* getParameter returns: the value is cached under the time of its arrival.
Fetched(c) ==
  /\ step[c] = "answered"
  /\ cache' = [cache EXCEPT ![c] = [value |-> call[c].answer, at |-> now]]
  /\ Decide(c, call[c], call[c].answer)
  /\ UNCHANGED <<now, store, published>>

\* Mutant: with SSM out of reach the old secret is used.
FetchFailsOpen(c) ==
  /\ step[c] \in {"asking", "answered"}
  /\ \/ cache[c].value = 0 /\ Return(c, "dnserr ssm") /\ UNCHANGED verdict
     \/ cache[c].value # 0 /\ Decide(c, call[c], cache[c].value)
  /\ UNCHANGED <<now, store, cache, published>>

\* getParameter fails: no connection, a refusal, or the answer is lost.
FetchFails(c) ==
  /\ step[c] \in {"asking", "answered"}
  /\ Return(c, "dnserr ssm")
  /\ UNCHANGED <<now, store, cache, published, verdict>>

\* Route53 applies the UPSERT; its reply is under way.
Apply(c) ==
  /\ step[c] = "updating"
  /\ published' = [published EXCEPT ![c] = TRUE]
  /\ GoOn(c, "updated", call[c])
  /\ UNCHANGED <<now, store, cache, verdict>>

Updated(c) ==
  /\ step[c] = "updated"
  /\ Return(c, "good")
  /\ UNCHANGED <<now, store, cache, published, verdict>>

\* Mutant: UpdateIP's error is overlooked.
UpdateFailsSilently(c) ==
  /\ step[c] \in {"updating", "updated"}
  /\ Return(c, "good")
  /\ UNCHANGED <<now, store, cache, published, verdict>>

\* UpdateIP fails, before or after Route53 applied the change.  (A request that
\* is applied after its caller gave up is modelled in Updater.)
UpdateFails(c) ==
  /\ step[c] \in {"updating", "updated"}
  /\ Return(c, "dnserr route53")
  /\ UNCHANGED <<now, store, cache, published, verdict>>

(***************************************************************************)
(* Lambda, the operator and time                                           *)
(***************************************************************************)

\* The next invocation finds a new process: main builds an empty cache.
ColdStart(c) == cache' = [cache EXCEPT ![c] = Cold]

\* Lambda kills a sandbox whose invocation has used up its time.
Kill(c) ==
  /\ step[c] # "idle"
  /\ call[c].begun + Timeout <= now
  /\ Return(c, "killed")
  /\ ColdStart(c)
  /\ UNCHANGED <<now, store, published, verdict>>

\* Lambda takes an idle sandbox away.
Reclaim(c) ==
  /\ step[c] = "idle"
  /\ cache[c] # Cold
  /\ ColdStart(c)
  /\ UNCHANGED <<now, store, step, call, reply, published, verdict>>

\* rotate-secret.sh stores a new random secret in SSM.
RotateSecret ==
  /\ secret < MaxSecrets
  /\ secret' = secret + 1
  /\ stored' = [stored EXCEPT ![secret + 1] = now]
  /\ UNCHANGED <<now, cache, step, call, reply, published, verdict>>

\* No invocation outlives its timeout.
Tick ==
  /\ now < MaxTime
  /\ \A c \in Sandboxes : step[c] # "idle" => now < call[c].begun + Timeout
  /\ now' = now + 1
  /\ UNCHANGED <<store, cache, step, call, reply, published, verdict>>

Next ==
  \/ \E c \in Sandboxes :
       \/ \E r \in Requests : Invoke(c, r)
       \/ SsmReads(c) \/ Fetched(c) \/ FetchFails(c)
       \/ Apply(c) \/ Updated(c) \/ UpdateFails(c)
       \/ Kill(c) \/ Reclaim(c)
  \/ RotateSecret
  \/ Tick

Spec == Init /\ [][Next]_vars

(***************************************************************************)
(* Properties                                                              *)
(***************************************************************************)

\* SSM held secret n at some instant less than Ttl + Timeout before time t.
RecentlyHeld(n, t) ==
  /\ stored[n] <= t
  /\ n < secret => t < stored[n + 1] + Ttl + Timeout

\* A password is judged by a secret SSM held less than Ttl + Timeout earlier:
\* whatever rotations, failing fetches, slow answers and kills come in between,
\* a retired secret stops working and the new one starts to within that time
\* (lambda handler.go:46-62; aws-lambda/README.md:169).
VerdictIsRecent ==
  \E n \in 1 .. secret :
    RecentlyHeld(n, verdict.at) /\ (verdict.accepted <=> verdict.password = n)

\* The client's reply tells what became of the record: "good" means that Route53
\* applied the update, and a refusal, a dry run or a failing SSM that it never saw
\* one; only a failed or killed update leaves the client in doubt
\* (lambda handler.go:80-135).
ReplyTellsRecord ==
  \A c \in Sandboxes :
    step[c] = "idle" =>
      /\ reply[c] = "good" => published[c]
      /\ published[c] => reply[c] \in {"good", "dnserr route53", "killed"}
=============================================================================
