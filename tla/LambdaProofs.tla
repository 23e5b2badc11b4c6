---------------------------- MODULE LambdaProofs ----------------------------
(***************************************************************************)
(* The endpoint on Lambda for every number of sandboxes, TTL and timeout.  *)
(***************************************************************************)
EXTENDS LambdaEndpoint, TLAPS

(***************************************************************************)
(* Types                                                                   *)
(***************************************************************************)

\* The calls the actions make are calls.
LEMMA CallTypes ==
  /\ NoCall \in Call
  /\ \A r \in Requests, t \in 0 .. MaxTime : [req |-> r, begun |-> t, answer |-> 0] \in Call
  /\ \A k \in Call, n \in Passwords : [k EXCEPT !.answer = n] \in Call
BY RequestAssumption, BoundsAssumption DEF NoCall, Call, Request, Passwords

\* A return, or a step within the handler, keeps the types.
LEMMA MoveTypes ==
  ASSUME TypeOK, NEW c \in Sandboxes,
         \/ \E body \in Replies : Return(c, body)
         \/ \E s \in Steps, k \in Call : GoOn(c, s, k)
  PROVE  /\ step' \in [Sandboxes -> Steps]
         /\ call' \in [Sandboxes -> Call]
         /\ reply' \in [Sandboxes -> Replies]
<1>1. "idle" \in Steps /\ "none" \in Replies
  BY DEF Steps, Replies
<1>2. QED
  BY <1>1, CallTypes DEF TypeOK, Return, GoOn

\* Decide is a return or goes on to the update.
LEMMA DecideMoves ==
  ASSUME NEW c \in Sandboxes, NEW k \in Call, NEW s, Decide(c, k, s)
  PROVE  \/ \E body \in Replies : Return(c, body)
         \/ GoOn(c, "updating", k)
<1>1. {"badauth", "notfqdn", "nohost", "good dry-run"} \subseteq Replies
  BY DEF Replies
<1>2. QED
  BY <1>1, ZenonT(60) DEF Decide

\* Decide keeps the types.
LEMMA DecideTypes ==
  ASSUME TypeOK, NEW c \in Sandboxes, NEW k \in Call, NEW s, Decide(c, k, s)
  PROVE  /\ step' \in [Sandboxes -> Steps]
         /\ call' \in [Sandboxes -> Call]
         /\ reply' \in [Sandboxes -> Replies]
         /\ verdict' \in Verdict
<1>1. "updating" \in Steps
  BY DEF Steps
<1>2. verdict' \in Verdict
  <2>1. k.req.password \in Passwords
    BY DEF Call, Request
  <2>2. QED
    BY <2>1 DEF Decide, Verdict, TypeOK
<1>3. QED
  BY <1>1, <1>2, DecideMoves, MoveTypes

\* The variables keep their types through every step of an invocation, kills,
\* rotations and time (lambda handler.go:64-136).
THEOREM TypeCorrect == Spec => []TypeOK
<1> USE PolicyAssumption, RequestAssumption, BoundsAssumption
<1>0. Cold \in Entry /\ {"asking", "answered", "updating", "updated"} \subseteq Steps
      /\ {"dnserr source", "badauth", "dnserr ssm", "dnserr route53", "good", "killed"} \subseteq Replies
  BY DEF Cold, Entry, Passwords, Steps, Replies
<1>1. Init => TypeOK
  BY <1>0, CallTypes DEF Init, TypeOK, Verdict, Passwords, Steps, Replies
<1>2. TypeOK /\ [Next]_vars => TypeOK'
  <2> SUFFICES ASSUME TypeOK, [Next]_vars
               PROVE  TypeOK'
    OBVIOUS
  <2>0. \A c \in Sandboxes : call[c] \in Call
    BY DEF TypeOK
  <2>1. ASSUME NEW c \in Sandboxes, NEW r \in Requests, Invoke(c, r)
        PROVE  TypeOK'
    <3> DEFINE k == [req |-> r, begun |-> now, answer |-> 0]
    <3>1. k \in Call
      BY CallTypes DEF TypeOK
    <3> HIDE DEF k
    <3>2. /\ published' \in [Sandboxes -> BOOLEAN]
          /\ UNCHANGED <<now, secret, stored, cache>>
          /\ \/ Decide(c, k, cache[c].value)
             \/ /\ UNCHANGED verdict
                /\ (\E body \in Replies : Return(c, body)) \/ GoOn(c, "asking", k)
      BY <1>0, <2>1 DEF Invoke, store, TypeOK, k
    <3>3. QED
      BY <1>0, <3>1, <3>2, DecideTypes, MoveTypes DEF TypeOK
  <2>2. ASSUME NEW c \in Sandboxes, SsmReads(c)
        PROVE  TypeOK'
    <3>1. [call[c] EXCEPT !.answer = secret] \in Call
      BY <2>0, CallTypes DEF TypeOK, Passwords
    <3>2. QED
      BY <1>0, <2>2, <3>1, MoveTypes DEF SsmReads, store, TypeOK
  <2>3. ASSUME NEW c \in Sandboxes, Fetched(c)
        PROVE  TypeOK'
    <3>1. [value |-> call[c].answer, at |-> now] \in Entry
      BY <2>0 DEF Call, Entry, TypeOK
    <3>2. QED
      BY <2>0, <2>3, <3>1, DecideTypes DEF Fetched, store, TypeOK
  <2>4. ASSUME NEW c \in Sandboxes, FetchFails(c) \/ Updated(c) \/ UpdateFails(c)
        PROVE  TypeOK'
    BY <1>0, <2>4, MoveTypes DEF FetchFails, Updated, UpdateFails, store, TypeOK
  <2>5. ASSUME NEW c \in Sandboxes, Apply(c)
        PROVE  TypeOK'
    BY <1>0, <2>0, <2>5, MoveTypes DEF Apply, store, TypeOK
  <2>6. ASSUME NEW c \in Sandboxes, Kill(c) \/ Reclaim(c)
        PROVE  TypeOK'
    BY <1>0, <2>6, MoveTypes DEF Kill, Reclaim, ColdStart, store, TypeOK
  <2>7. CASE RotateSecret
    BY <2>7 DEF RotateSecret, TypeOK
  <2>8. CASE Tick
    BY <2>8 DEF Tick, store, TypeOK
  <2>9. CASE UNCHANGED vars
    BY <2>9 DEF vars, TypeOK
  <2>10. QED
    BY <2>1, <2>2, <2>3, <2>4, <2>5, <2>6, <2>7, <2>8, <2>9 DEF Next
<1>3. QED
  BY <1>1, <1>2, PTL DEF Spec

(***************************************************************************)
(* The secret                                                              *)
(***************************************************************************)

\* SSM held secret n at time t or up to d before.
Held(n, t, d) ==
  /\ n \in 1 .. secret
  /\ stored[n] <= t
  /\ n < secret => t <= stored[n + 1] + d

\* SSM's answer was true when the call was already running, so a cached value
\* was true at most Timeout before it was stamped.
Honest(c) ==
  /\ step[c] # "idle" => call[c].begun <= now /\ now <= call[c].begun + Timeout
  /\ step[c] = "answered" => Held(call[c].answer, now, now - call[c].begun)
  /\ cache[c].value # 0 => cache[c].at <= now /\ Held(cache[c].value, cache[c].at, Timeout)

SecretInv ==
  /\ \A n \in 1 .. secret : stored[n] <= now
  /\ \A c \in Sandboxes : Honest(c)
  /\ verdict.at <= now
  /\ VerdictIsRecent

\* A secret that was held for all one knew is so in every later state: rotations
\* only retire the newest one, and that now.
LEMMA HeldStays ==
  ASSUME TypeOK, TypeOK', NEW n, NEW t \in 0 .. now, NEW d \in Nat,
         RotateSecret \/ UNCHANGED store, Held(n, t, d)
  PROVE  Held(n, t, d)'
<1>1. /\ now \in Nat /\ now' \in Nat /\ secret \in Nat /\ secret' \in 1 .. MaxSecrets
      /\ MaxSecrets \in Nat /\ \A k \in 1 .. MaxSecrets : stored[k] \in Nat
  BY BoundsAssumption DEF TypeOK
<1>2. CASE UNCHANGED store
  BY <1>2 DEF Held, store
<1>3. CASE RotateSecret
  <2>1. now' = now /\ secret' = secret + 1 /\ stored'[secret'] = now
    BY <1>1, <1>3 DEF RotateSecret, TypeOK
  <2>2. \A k \in 1 .. secret : stored'[k] = stored[k]
    BY <1>1, <1>3 DEF RotateSecret, TypeOK
  <2>3. n \in 1 .. secret /\ stored[n] <= t /\ (n < secret => t <= stored[n + 1] + d)
    BY DEF Held
  <2>4. n \in 1 .. secret' /\ stored'[n] <= t
    BY <1>1, <2>1, <2>2, <2>3
  <2>5. CASE n < secret
    <3>1. n + 1 \in 1 .. secret
      BY <1>1, <2>3, <2>5
    <3>2. QED
      BY <2>2, <2>3, <2>4, <2>5, <3>1 DEF Held
  <2>6. CASE n = secret
    <3>1. t <= stored'[n + 1] + d
      BY <1>1, <2>1, <2>6
    <3>2. QED
      BY <2>4, <3>1 DEF Held
  <2>7. QED
    BY <1>1, <2>3, <2>5, <2>6
<1>4. QED
  BY <1>2, <1>3

\* Judged by a secret that was held recently, the verdict is recent.
LEMMA DecideIsRecent ==
  ASSUME TypeOK, TypeOK', NEW c, NEW k \in Call, NEW n, Decide(c, k, n),
         UNCHANGED <<now, store>>, Held(n, now, Ttl + Timeout - 1)
  PROVE  VerdictIsRecent' /\ verdict'.at = now
<1>1. verdict' = [password |-> k.req.password, accepted |-> k.req.password = n, at |-> now]
  BY DEF Decide
<1>2. n \in 1 .. secret /\ RecentlyHeld(n, now)
  <2>1. /\ now \in Nat /\ Ttl + Timeout - 1 \in Nat /\ Ttl \in Nat /\ Timeout \in Nat
        /\ n \in 1 .. secret /\ stored[n] <= now
        /\ n < secret => stored[n + 1] \in Nat
    BY BoundsAssumption, PolicyAssumption DEF TypeOK, Held
  <2>2. n < secret => now < stored[n + 1] + Ttl + Timeout
    BY <2>1 DEF Held
  <2>3. QED
    BY <2>1, <2>2 DEF RecentlyHeld
<1>3. UNCHANGED <<secret, stored>>
  BY DEF store
<1>4. /\ verdict'.at = now /\ (verdict'.accepted <=> verdict'.password = n)
      /\ n \in 1 .. secret' /\ RecentlyHeld(n, verdict.at)'
  <2>1. verdict'.at = now /\ (verdict'.accepted <=> verdict'.password = n)
    BY <1>1
  <2>2. QED
    BY <1>2, <1>3, <2>1 DEF RecentlyHeld
<1>5. QED
  BY <1>4 DEF VerdictIsRecent

\* The later one looks, the longer ago a secret may have been held.
LEMMA HeldWeaker ==
  ASSUME TypeOK, NEW n, NEW t \in Nat, NEW u \in Nat, NEW d \in Nat, NEW e \in Nat,
         t <= u, u - t + d <= e, Held(n, t, d)
  PROVE  Held(n, u, e)
<1>1. n \in 1 .. secret /\ stored[n] <= t /\ stored[n] \in Nat
  BY BoundsAssumption DEF Held, TypeOK
<1>2. n < secret => stored[n + 1] \in Nat /\ t <= stored[n + 1] + d
  BY <1>1, BoundsAssumption DEF Held, TypeOK
<1>3. QED
  BY <1>1, <1>2 DEF Held

LEMMA HeldNextTick ==
  ASSUME TypeOK, NEW n, NEW t \in Nat, NEW d \in Nat, Held(n, t, d)
  PROVE  Held(n, t + 1, d + 1)
<1>1. t + 1 \in Nat /\ d + 1 \in Nat /\ t <= t + 1 /\ t + 1 - t + d <= d + 1
  OBVIOUS
<1>2. QED
  BY <1>1, HeldWeaker

\* An action that leaves the other sandboxes alone leaves them honest.
LEMMA OthersStayHonest ==
  ASSUME TypeOK, TypeOK', NEW c \in Sandboxes, UNCHANGED <<now, store>>,
         NEW d \in Sandboxes, d # c, Honest(d),
         step'[d] = step[d], call'[d] = call[d], cache'[d] = cache[d]
  PROVE  Honest(d)'
BY DEF Honest, Held, store

\* A verdict not replaced stays recent: a secret retired later only adds to the
\* time it was held.
LEMMA VerdictStays ==
  ASSUME TypeOK, TypeOK', verdict.at <= now,
         RotateSecret \/ UNCHANGED store, UNCHANGED verdict, VerdictIsRecent
  PROVE  VerdictIsRecent'
<1>1. PICK n \in 1 .. secret : RecentlyHeld(n, verdict.at) /\ (verdict.accepted <=> verdict.password = n)
  BY DEF VerdictIsRecent
<1>2. n \in 1 .. secret'
  BY BoundsAssumption DEF TypeOK, RotateSecret, store
<1>3. RecentlyHeld(n, verdict.at)'
  <2>1. /\ verdict' = verdict /\ verdict.at \in Nat /\ now \in Nat
        /\ secret \in Nat /\ n \in Nat /\ Ttl + Timeout \in Nat \ {0}
    BY BoundsAssumption, PolicyAssumption DEF TypeOK, Verdict
  <2>2. CASE UNCHANGED store
    BY <1>1, <2>1, <2>2 DEF RecentlyHeld, store
  <2>3. CASE RotateSecret
    <3>1. stored'[n] = stored[n]
      BY <2>1, <2>3, BoundsAssumption DEF RotateSecret, TypeOK
    <3>2. CASE n = secret
      <4>1. secret' = n + 1 /\ stored'[n + 1] = now
        BY <2>3, <3>2, BoundsAssumption DEF RotateSecret, TypeOK
      <4>2. verdict.at < now + Ttl + Timeout
        BY <2>1, PolicyAssumption
      <4>3. QED
        BY <1>1, <2>1, <3>1, <4>1, <4>2 DEF RecentlyHeld
    <3>3. CASE n < secret
      <4>1. stored'[n + 1] = stored[n + 1]
        BY <2>1, <2>3, <3>3, BoundsAssumption DEF RotateSecret, TypeOK
      <4>2. QED
        BY <1>1, <2>1, <3>1, <3>3, <4>1 DEF RecentlyHeld
    <3>4. QED
      BY <2>1, <3>2, <3>3
  <2>4. QED
    BY <2>2, <2>3
<1>4. QED
  BY <1>1, <1>2, <1>3 DEF VerdictIsRecent

\* In a running call the bounds on d in Held are in order.
LEMMA CallTimes ==
  ASSUME TypeOK, NEW c \in Sandboxes, Honest(c), step[c] # "idle"
  PROVE  /\ now - call[c].begun \in 0 .. Timeout
         /\ now - call[c].begun <= Ttl + Timeout - 1
BY BoundsAssumption, PolicyAssumption DEF TypeOK, Honest, Call

\* Each password is judged by a secret SSM held less than Ttl + Timeout earlier,
\* for every TTL, timeout, number of sandboxes and of rotations (lambda handler.go:46-62).
THEOREM VerdictsAreRecent == Spec => []VerdictIsRecent
<1> USE BoundsAssumption, PolicyAssumption
<1>1. Init => SecretInv
  BY DEF Init, SecretInv, Honest, Cold, VerdictIsRecent, RecentlyHeld
<1>2. TypeOK /\ TypeOK' /\ SecretInv /\ [Next]_vars => SecretInv'
  <2> SUFFICES ASSUME TypeOK, TypeOK', SecretInv, [Next]_vars
               PROVE  SecretInv'
    OBVIOUS
  <2>0. /\ now \in Nat /\ now \in 0 .. now /\ now' \in Nat /\ secret \in 1 .. secret
        /\ \A c \in Sandboxes : call[c] \in Call
        /\ Timeout \in Nat /\ Ttl + Timeout - 1 \in Nat
    BY DEF TypeOK
  <2>1. ASSUME NEW c \in Sandboxes, NEW r \in Requests, Invoke(c, r)
        PROVE  SecretInv'
    <3> DEFINE k == [req |-> r, begun |-> now, answer |-> 0]
    <3>1. k \in Call
      BY CallTypes DEF TypeOK
    <3> HIDE DEF k
    <3>a. \/ \E body : Return(c, body)
          \/ GoOn(c, "asking", k) \/ GoOn(c, "updating", k)
      <4>1. \/ \E body : Return(c, body)
            \/ GoOn(c, "asking", k)
            \/ Decide(c, k, cache[c].value)
        BY <2>1, Zenon DEF Invoke, k
      <4>2. QED
        BY <3>1, <4>1, DecideMoves
    <3>2. Honest(c)'
      <4>1. \/ step'[c] = "idle"
            \/ step'[c] \in {"asking", "updating"} /\ call'[c].begun = now
        BY <3>a DEF Return, GoOn, TypeOK, k
      <4>2. cache' = cache /\ UNCHANGED <<now, store>> /\ Honest(c)
        BY <2>1 DEF Invoke, SecretInv
      <4>3. QED
        BY <2>0, <4>1, <4>2 DEF Honest, Held, store
    <3>3. ASSUME NEW d \in Sandboxes, d # c
          PROVE  Honest(d)'
      <4>1. /\ step'[d] = step[d] /\ call'[d] = call[d] /\ cache' = cache
            /\ UNCHANGED <<now, store>>
        BY <2>1, <3>3, <3>a DEF Invoke, Return, GoOn, TypeOK
      <4>2. QED
        BY <3>3, <4>1, OthersStayHonest DEF SecretInv
    <3>4. VerdictIsRecent' /\ verdict'.at <= now
      <4>1. CASE Fresh(c) /\ Decide(c, k, cache[c].value)
        <5>1. Held(cache[c].value, now, Ttl + Timeout - 1)
          <6>1. /\ cache[c].at \in Nat /\ cache[c].at <= now
                /\ now - cache[c].at + Timeout <= Ttl + Timeout - 1
                /\ Held(cache[c].value, cache[c].at, Timeout)
            <7>1. cache[c].value # 0 /\ now < cache[c].at + Ttl
              BY <4>1 DEF Fresh
            <7>2. cache[c].at <= now /\ Held(cache[c].value, cache[c].at, Timeout)
              BY <7>1 DEF SecretInv, Honest
            <7>3. cache[c].at \in Nat
              BY DEF TypeOK, Entry
            <7>4. QED
              BY <2>0, <7>1, <7>2, <7>3
          <6>2. QED
            BY <2>0, <6>1, HeldWeaker
        <5>2. QED
          <6>1. UNCHANGED <<now, store>>
            BY <2>1 DEF Invoke
          <6>2. VerdictIsRecent' /\ verdict'.at = now
            BY <3>1, <4>1, <5>1, <6>1, DecideIsRecent
          <6>3. QED
            BY <2>0, <6>2
      <4>2. CASE UNCHANGED verdict
        BY <2>1, <4>2, VerdictStays DEF Invoke, SecretInv
      <4>3. QED
        BY <2>1, <4>1, <4>2, Zenon DEF Invoke, k
    <3>5. QED
      BY <2>1, <3>2, <3>3, <3>4 DEF Invoke, SecretInv, store
  <2>2. ASSUME NEW c \in Sandboxes, SsmReads(c)
        PROVE  SecretInv'
    <3>1. Honest(c)'
      <4>1. /\ step'[c] = "answered" /\ call'[c].answer = secret
            /\ call'[c].begun = call[c].begun /\ step[c] # "idle"
        BY <2>0, <2>2 DEF SsmReads, GoOn, TypeOK, Call
      <4>2. Held(secret, now, now - call[c].begun)
        BY <2>0 DEF SecretInv, Held
      <4>3. QED
        BY <2>2, <4>1, <4>2 DEF SsmReads, SecretInv, Honest, Held, store
    <3>2. ASSUME NEW d \in Sandboxes, d # c
          PROVE  Honest(d)'
      BY <2>2, <3>2, OthersStayHonest DEF SsmReads, GoOn, SecretInv, TypeOK
    <3>3. VerdictIsRecent' /\ verdict'.at <= now
      BY <2>2, VerdictStays DEF SsmReads, SecretInv
    <3>4. QED
      BY <2>2, <3>1, <3>2, <3>3 DEF SsmReads, SecretInv, store
  <2>3. ASSUME NEW c \in Sandboxes, Fetched(c)
        PROVE  SecretInv'
    <3>1. Held(call[c].answer, now, now - call[c].begun)
      BY <2>3 DEF Fetched, SecretInv, Honest
    <3>2. /\ Held(call[c].answer, now, Timeout)
          /\ Held(call[c].answer, now, Ttl + Timeout - 1)
      <4>1. /\ now - call[c].begun \in 0 .. Timeout
            /\ now - call[c].begun <= Ttl + Timeout - 1
        BY <2>3, CallTimes DEF Fetched, SecretInv
      <4>2. QED
        BY <2>0, <3>1, <4>1, HeldWeaker
    <3>3. Honest(c)'
      <4>1. cache'[c].at = now /\ cache'[c].value = call[c].answer
        BY <2>3 DEF Fetched, TypeOK
      <4>2. step'[c] = "idle" \/ (step'[c] = "updating" /\ call'[c] = call[c])
        BY <2>3 DEF Fetched, Decide, Return, GoOn, TypeOK
      <4>3. call[c].begun <= now /\ now <= call[c].begun + Timeout
        BY <2>3 DEF Fetched, SecretInv, Honest
      <4>4. QED
        BY <2>0, <2>3, <3>2, <4>1, <4>2, <4>3 DEF Fetched, Honest, Held, store
    <3>4. ASSUME NEW d \in Sandboxes, d # c
          PROVE  Honest(d)'
      <4>1. /\ step'[d] = step[d] /\ call'[d] = call[d] /\ cache'[d] = cache[d]
            /\ UNCHANGED <<now, store>>
        BY <2>3, <3>4 DEF Fetched, Decide, Return, GoOn, TypeOK
      <4>2. QED
        BY <3>4, <4>1, OthersStayHonest DEF SecretInv
    <3>5. VerdictIsRecent' /\ verdict'.at = now
      BY <2>0, <2>3, <3>2, DecideIsRecent DEF Fetched
    <3>6. QED
      BY <2>0, <2>3, <3>3, <3>4, <3>5 DEF Fetched, SecretInv, store
  <2>4. ASSUME NEW c \in Sandboxes,
               FetchFails(c) \/ Apply(c) \/ Updated(c) \/ UpdateFails(c) \/ Kill(c) \/ Reclaim(c)
        PROVE  SecretInv'
    <3>1. UNCHANGED <<now, store, verdict>>
      BY <2>4 DEF FetchFails, Apply, Updated, UpdateFails, Kill, Reclaim
    <3>2. /\ \/ step'[c] = "idle"
             \/ step'[c] = "updated" /\ step[c] # "idle" /\ call'[c] = call[c]
          /\ cache'[c] = cache[c] \/ cache'[c].value = 0
      <4>1. CASE FetchFails(c) \/ Updated(c) \/ UpdateFails(c)
        BY <4>1 DEF FetchFails, Updated, UpdateFails, Return, TypeOK
      <4>2. CASE Apply(c)
        BY <4>2 DEF Apply, GoOn, TypeOK
      <4>3. CASE Kill(c)
        BY <4>3 DEF Kill, Return, ColdStart, Cold, TypeOK
      <4>4. CASE Reclaim(c)
        BY <4>4 DEF Reclaim, ColdStart, Cold, TypeOK
      <4>5. QED
        BY <2>4, <4>1, <4>2, <4>3, <4>4
    <3>3. Honest(c)'
      BY <3>1, <3>2 DEF SecretInv, Honest, Held, store
    <3>4. ASSUME NEW d \in Sandboxes, d # c
          PROVE  Honest(d)'
      <4>1. step'[d] = step[d] /\ call'[d] = call[d] /\ cache'[d] = cache[d]
        BY <2>4, <3>4 DEF FetchFails, Apply, Updated, UpdateFails, Kill, Reclaim,
                          Return, GoOn, ColdStart, TypeOK
      <4>2. QED
        BY <3>1, <3>4, <4>1, OthersStayHonest DEF SecretInv
    <3>5. QED
      BY <3>1, <3>3, <3>4, VerdictStays DEF SecretInv, store
  <2>5. CASE RotateSecret
    <3>1. \A n \in 1 .. secret' : stored'[n] <= now'
      BY <2>5 DEF RotateSecret, SecretInv, TypeOK
    <3>2. ASSUME NEW c \in Sandboxes
          PROVE  Honest(c)'
      <4>1. UNCHANGED <<now, step, call, cache>> /\ Honest(c)
        BY <2>5 DEF RotateSecret, SecretInv
      <4>2. step[c] = "answered" => Held(call[c].answer, now, now - call[c].begun)'
        <5>1. step[c] = "answered" => now - call[c].begun \in Nat
          BY <4>1, CallTimes
        <5>2. QED
          BY <2>0, <2>5, <4>1, <5>1, HeldStays DEF Honest
      <4>3. cache[c].value # 0 => Held(cache[c].value, cache[c].at, Timeout)'
        <5>1. cache[c].value # 0 => cache[c].at \in 0 .. now
          BY <4>1 DEF Honest, TypeOK, Entry
        <5>2. QED
          BY <2>0, <2>5, <4>1, <5>1, HeldStays DEF Honest
      <4>4. QED
        BY <4>1, <4>2, <4>3 DEF Honest
    <3>3. VerdictIsRecent' /\ verdict'.at <= now'
      BY <2>5, VerdictStays DEF RotateSecret, SecretInv
    <3>4. QED
      BY <3>1, <3>2, <3>3 DEF SecretInv
  <2>6. CASE Tick
    <3>1. now' = now + 1 /\ UNCHANGED <<secret, stored, cache, step, call, verdict>>
      BY <2>6 DEF Tick, store
    <3>2. ASSUME NEW c \in Sandboxes
          PROVE  Honest(c)'
      <4>1. Honest(c)
        BY DEF SecretInv
      <4>2. /\ step[c] # "idle" => now < call[c].begun + Timeout
            /\ call[c].begun \in Nat /\ cache[c].at \in Nat
        BY <2>0, <2>6 DEF Tick, TypeOK, Call, Entry
      <4>3. step[c] # "idle" => call[c].begun <= now + 1 /\ now + 1 <= call[c].begun + Timeout
        BY <2>0, <4>1, <4>2 DEF Honest
      <4>4. step[c] = "answered" => Held(call[c].answer, now + 1, now + 1 - call[c].begun)
        <5> SUFFICES ASSUME step[c] = "answered"
                     PROVE  Held(call[c].answer, now + 1, now + 1 - call[c].begun)
          OBVIOUS
        <5>1. Held(call[c].answer, now, now - call[c].begun)
          BY <4>1 DEF Honest
        <5>2. /\ now - call[c].begun \in Nat
              /\ now + 1 - call[c].begun = now - call[c].begun + 1
          BY <2>0, <4>1, <4>2 DEF Honest
        <5>3. Held(call[c].answer, now + 1, now - call[c].begun + 1)
          BY <2>0, <5>1, <5>2, HeldNextTick
        <5>4. QED
          BY <5>2, <5>3
      <4>5. cache[c].value # 0 => cache[c].at <= now + 1 /\ Held(cache[c].value, cache[c].at, Timeout)
        <5>1. cache[c].value # 0 => cache[c].at <= now /\ Held(cache[c].value, cache[c].at, Timeout)
          BY <4>1 DEF Honest
        <5>2. QED
          BY <2>0, <4>2, <5>1
      <4>6. /\ (step[c] = "answered" => Held(call[c].answer, now, now - call[c].begun))'
            /\ (cache[c].value # 0 => Held(cache[c].value, cache[c].at, Timeout))'
        <5>1. /\ now' = now + 1 /\ secret' = secret /\ stored' = stored
              /\ step' = step /\ call' = call /\ cache' = cache
          BY <3>1
        <5>2. (step[c] = "answered" => Held(call[c].answer, now, now - call[c].begun))'
          <6>1. now' - call'[c].begun = now + 1 - call[c].begun
            BY <2>0, <4>2, <5>1
          <6>2. step[c] = "answered" => Held(call[c].answer, now', now' - call'[c].begun)
            BY <4>4, <5>1, <6>1
          <6>3. QED
            BY ONLY <5>1, <6>2 DEF Held
        <5>3. (cache[c].value # 0 => Held(cache[c].value, cache[c].at, Timeout))'
          BY ONLY <5>1, <4>5 DEF Held
        <5>4. QED
          BY <5>2, <5>3
      <4>7. /\ (step[c] # "idle" => call[c].begun <= now /\ now <= call[c].begun + Timeout)'
            /\ (cache[c].value # 0 => cache[c].at <= now)'
        BY <3>1, <4>3, <4>5
      <4>8. QED
        BY <4>6, <4>7 DEF Honest
    <3>3. VerdictIsRecent'
      BY <2>6, <3>1, VerdictStays DEF SecretInv, store
    <3>4. QED
      BY <2>0, <3>1, <3>2, <3>3 DEF SecretInv, TypeOK, Verdict
  <2>7. CASE UNCHANGED vars
    BY <2>7, VerdictStays DEF vars, SecretInv, Honest, Held, store
  <2>8. QED
    BY <2>1, <2>2, <2>3, <2>4, <2>5, <2>6, <2>7 DEF Next
<1>3. QED
  BY <1>1, <1>2, TypeCorrect, PTL DEF Spec, SecretInv

(***************************************************************************)
(* The reply                                                               *)
(***************************************************************************)

\* Nothing is published before Apply, and from then on it stays so.
Tells(c) ==
  /\ step[c] \in {"asking", "answered", "updating"} => ~published[c]
  /\ step[c] = "updated" => published[c]
  /\ step[c] = "idle" =>
       /\ reply[c] = "good" => published[c]
       /\ published[c] => reply[c] \in {"good", "dnserr route53", "killed"}

\* The reply tells what became of the record, for every number of sandboxes and
\* every fault (lambda handler.go:80-135).
THEOREM RepliesAreTrue == Spec => []ReplyTellsRecord
<1> DEFINE AllTell == \A c \in Sandboxes : Tells(c)
<1>1. Init => AllTell
  BY DEF Init, Tells
<1>2. TypeOK /\ AllTell /\ [Next]_vars => AllTell'
  <2> SUFFICES ASSUME TypeOK, AllTell, [Next]_vars, NEW d \in Sandboxes
               PROVE  Tells(d)'
    OBVIOUS
  <2> DEFINE Silent(c) == ~published'[c] /\ \A b \in Sandboxes \ {c} : published'[b] = published[b]
  <2>a. ASSUME NEW c \in Sandboxes, NEW body, body # "good", Return(c, body), Silent(c)
        PROVE  Tells(d)'
    BY <2>a DEF Return, TypeOK, Tells
  <2>b. ASSUME NEW c \in Sandboxes, NEW s \in {"asking", "answered", "updating"}, NEW k,
               GoOn(c, s, k), Silent(c)
        PROVE  Tells(d)'
    BY <2>b DEF GoOn, TypeOK, Tells
  <2>c. ASSUME NEW c \in Sandboxes, NEW k, NEW s, Decide(c, k, s), Silent(c)
        PROVE  Tells(d)'
    <3>1. \/ Return(c, "badauth") \/ Return(c, "notfqdn") \/ Return(c, "nohost")
          \/ Return(c, "good dry-run") \/ GoOn(c, "updating", k)
      BY <2>c, Zenon DEF Decide
    <3>2. QED
      BY <2>a, <2>b, <2>c, <3>1
  <2>1. ASSUME NEW c \in Sandboxes, NEW r \in Requests, Invoke(c, r)
        PROVE  Tells(d)'
    <3>1. Silent(c)
      BY <2>1 DEF Invoke, TypeOK
    <3> DEFINE k == [req |-> r, begun |-> now, answer |-> 0]
    <3>2. \/ Return(c, "dnserr source") \/ Return(c, "badauth")
          \/ Decide(c, k, cache[c].value) \/ GoOn(c, "asking", k)
      BY <2>1, Zenon DEF Invoke
    <3> HIDE DEF k
    <3>3. QED
      BY <2>a, <2>b, <2>c, <3>1, <3>2
  <2>2. ASSUME NEW c \in Sandboxes, SsmReads(c) \/ FetchFails(c)
        PROVE  Tells(d)'
    <3>1. Silent(c)
      BY <2>2 DEF SsmReads, FetchFails, Tells
    <3>2. \/ GoOn(c, "answered", [call[c] EXCEPT !.answer = secret])
          \/ Return(c, "dnserr ssm")
      BY <2>2 DEF SsmReads, FetchFails
    <3>3. QED
      BY <2>a, <2>b, <3>1, <3>2
  <2>3. ASSUME NEW c \in Sandboxes, Fetched(c)
        PROVE  Tells(d)'
    <3>1. Silent(c)
      BY <2>3 DEF Fetched, Tells
    <3>2. QED
      BY <2>3, <2>c, <3>1 DEF Fetched
  <2> USE DEF Return, GoOn, TypeOK, Tells
  <2>4. ASSUME NEW c \in Sandboxes, Apply(c) \/ Updated(c) \/ UpdateFails(c)
        PROVE  Tells(d)'
    BY <2>4 DEF Apply, Updated, UpdateFails
  <2>5. ASSUME NEW c \in Sandboxes, Kill(c) \/ Reclaim(c)
        PROVE  Tells(d)'
    BY <2>5 DEF Kill, Reclaim
  <2>6. CASE RotateSecret \/ Tick \/ UNCHANGED vars
    BY <2>6 DEF RotateSecret, Tick, vars
  <2> HIDE DEF Tells, TypeOK, Return, GoOn
  <2>7. QED
    BY <2>1, <2>2, <2>3, <2>4, <2>5, <2>6 DEF Next
<1>3. AllTell => ReplyTellsRecord
  BY DEF Tells, ReplyTellsRecord
<1>4. QED
  BY <1>1, <1>2, <1>3, TypeCorrect, PTL DEF Spec
=============================================================================
