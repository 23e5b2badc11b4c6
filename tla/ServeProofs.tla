---------------------------- MODULE ServeProofs ----------------------------
(***************************************************************************)
(* Theorems about Serve, for any number of concurrent requests.            *)
(***************************************************************************)
EXTENDS Serve, SequenceTheorems, TLAPS

(***************************************************************************)
(* Type correctness                                                        *)
(***************************************************************************)

\* The steps of the authenticator keep its variables in their types
\* (auth.go:53-89).
LEMMA AuthKeepsTypes ==
  ASSUME Auth!TypeOK, Auth!Refuse \/ Auth!Reject \/ Auth!Accept \/ Auth!Tick \/ UNCHANGED <<now, auth>>
  PROVE  Auth!TypeOK'
<1> USE PolicyAssumption DEF Auth!TypeOK, Auth!Failure, Auth!vars, auth
<1>1. CASE Auth!Refuse \/ UNCHANGED <<now, auth>>
  BY <1>1 DEF Auth!Refuse
<1>2. CASE Auth!Accept
  BY <1>2 DEF Auth!Accept
<1>3. CASE Auth!Reject
  BY <1>3 DEF Auth!Reject, Auth!InWindow
<1>4. CASE Auth!Tick
  BY <1>4 DEF Auth!Tick
<1>5. QED
  BY <1>1, <1>2, <1>3, <1>4

\* The audit entries that ServeHTTP makes are entries (handler.go:53-164).
LEMMA EntriesAreTyped ==
  /\ Blank \in Entry
  /\ [Blank EXCEPT !.action = "cidr-deny"] \in Entry
  /\ [Blank EXCEPT !.action = "method-deny"] \in Entry
  /\ \A o \in {"missing", "bad", "locked"} : [Blank EXCEPT !.auth = o] \in Entry
  /\ \A e \in Entry : [e EXCEPT !.auth = "ok"] \in Entry
  /\ \A e \in Entry, a \in Actions : [e EXCEPT !.action = a] \in Entry
BY DEF Blank, Entry, Actions

\* The state of the requests, a part of TypeOK.
RequestsTyped ==
  /\ pc \in [Requests -> Places]
  /\ input \in [Requests -> Input]
  /\ begun \in [Requests -> Nat]
  /\ entry \in [Requests -> Entry]
  /\ reply \in [Requests -> Replies]
  /\ stamp \in [Requests -> Nat]

\* writeDyndns keeps the types when it is given an entry and a code of the
\* protocol (handler.go:167-178).
LEMMA AnswerIsTyped ==
  ASSUME RequestsTyped, NEW q \in Requests, NEW from, NEW e \in Entry, NEW code \in Replies,
         Answer(q, from, e, code)
  PROVE  RequestsTyped'
BY DEF RequestsTyped, Answer, Goto, Places

\* The variables of the server keep their types: no exit of ServeHTTP answers
\* or logs anything outside the protocol (handler.go:52-199).
THEOREM TypeCorrect == Spec => []TypeOK
<1>1. Init => TypeOK
  <2> SUFFICES ASSUME Init PROVE TypeOK
    OBVIOUS
  <2>1. Auth!TypeOK
    <3>1. failures = {} /\ tries = {} /\ now = 0 /\ lockedUntil = 0 /\ guesses = 0
      BY DEF Init, Auth!Init
    <3>2. QED
      BY <3>1, PolicyAssumption DEF Auth!TypeOK
  <2>2. pc \in [Requests -> Places] /\ reply \in [Requests -> Replies]
    <3>1. "free" \in Places /\ "" \in Replies
      BY DEF Places, Replies
    <3>2. QED
      BY <3>1 DEF Init
  <2>3. input \in [Requests -> Input]
    BY InputsAssumption DEF Init
  <2>4. entry \in [Requests -> Entry]
    BY EntriesAreTyped DEF Init
  <2>5. audit \in Seq(Line)
    BY EmptySeq DEF Init
  <2>6. begun \in [Requests -> Nat] /\ stamp \in [Requests -> Nat]
    BY DEF Init
  <2>7. /\ server \in {"up", "draining", "down"} /\ deadline \in Nat
        /\ journal \subseteq Requests /\ status \in Line \cup {NoStatus}
    BY DEF Init
  <2>8. QED
    BY <2>1, <2>2, <2>3, <2>4, <2>5, <2>6, <2>7 DEF TypeOK
<1>2. TypeOK /\ [Next]_vars => TypeOK'
  <2> SUFFICES ASSUME TypeOK, [Next]_vars
               PROVE  TypeOK'
    OBVIOUS
  <2>1. RequestsTyped /\ now \in Nat
    BY PolicyAssumption DEF TypeOK, RequestsTyped, Auth!TypeOK
  <2>2. ASSUME RequestsTyped', Auth!TypeOK',
               UNCHANGED files, UNCHANGED process
        PROVE  TypeOK'
    BY <2>2 DEF TypeOK, RequestsTyped, files, process
  <2>3. ASSUME NEW q \in Requests, Arrive(q)
        PROVE  TypeOK'
    <3>1. Auth!TypeOK'
      BY <2>3, AuthKeepsTypes DEF Arrive, TypeOK
    <3>2. RequestsTyped'
      <4> USE <2>1, EntriesAreTyped, AnswerIsTyped DEF Replies
      <4>1. CASE Answer(q, "free", [Blank EXCEPT !.action = "cidr-deny"], "403")
        BY <4>1
      <4>2. CASE Answer(q, "free", [Blank EXCEPT !.action = "method-deny"], "405")
        BY <4>2
      <4>3. CASE Answer(q, "free", [Blank EXCEPT !.auth = "missing"], "badauth")
        BY <4>3
      <4>4. CASE Goto(q, "free", "auth") /\ UNCHANGED request
        BY <4>4 DEF Goto, request, RequestsTyped, Places
      <4>5. QED
        BY <2>3, <4>1, <4>2, <4>3, <4>4 DEF Arrive
    <3>3. QED
      BY <2>2, <2>3, <3>1, <3>2 DEF Arrive, process, files
  <2>4. ASSUME NEW q \in Requests, Authenticate(q)
        PROVE  TypeOK'
    <3>1. Auth!TypeOK'
      BY <2>4, AuthKeepsTypes DEF Authenticate, TypeOK
    <3>2. RequestsTyped'
      <4> USE <2>1, EntriesAreTyped, AnswerIsTyped DEF Replies
      <4>1. CASE Answer(q, "auth", [Blank EXCEPT !.auth = "locked"], "badauth")
        BY <4>1
      <4>2. CASE Answer(q, "auth", [Blank EXCEPT !.auth = "bad"], "badauth")
        BY <4>2
      <4>3. CASE /\ Goto(q, "auth", "validate")
                 /\ entry' = [entry EXCEPT ![q].auth = "ok"]
                 /\ UNCHANGED <<input, begun, reply, stamp>>
        BY <4>3 DEF Goto, RequestsTyped, Places
      <4>4. QED
        BY <2>4, <4>1, <4>2, <4>3 DEF Authenticate
    <3>3. QED
      BY <2>2, <2>4, <3>1, <3>2 DEF Authenticate, process, files
  <2>5. ASSUME NEW q \in Requests, Validate(q)
        PROVE  TypeOK'
    <3>1. Auth!TypeOK'
      BY <2>5, AuthKeepsTypes DEF Validate, TypeOK
    <3>2. \A a \in Actions : Acted(q, a) \in Entry
      BY <2>1, EntriesAreTyped DEF Acted, RequestsTyped
    <3>3. RequestsTyped'
      <4> USE <2>1, <3>2, AnswerIsTyped DEF Replies, Actions
      <4>1. CASE Answer(q, "validate", Acted(q, "notfqdn"), "notfqdn")
        BY <4>1
      <4>2. CASE Answer(q, "validate", Acted(q, "nohost"), "nohost")
        BY <4>2
      <4>3. CASE Answer(q, "validate", Acted(q, "wanip-error"), "dnserr")
        BY <4>3
      <4>4. CASE /\ Goto(q, "validate", "update")
                 /\ begun' = [begun EXCEPT ![q] = now]
                 /\ UNCHANGED <<input, entry, reply, stamp>>
        BY <4>4 DEF Goto, RequestsTyped, Places
      <4>5. QED
        BY <2>5, <4>1, <4>2, <4>3, <4>4 DEF Validate
    <3>4. QED
      BY <2>2, <2>5, <3>1, <3>3 DEF Validate, process, files
  <2>6. ASSUME NEW q \in Requests, Update(q)
        PROVE  TypeOK'
    <3>1. Auth!TypeOK'
      BY <2>6, AuthKeepsTypes DEF Update, TypeOK
    <3>2. \A a \in Actions : Acted(q, a) \in Entry
      BY <2>1, EntriesAreTyped DEF Acted, RequestsTyped
    <3>3. \A a \in Actions, code \in Replies :
            Answer(q, "update", Acted(q, a), code) => RequestsTyped'
      BY <2>1, <3>2, AnswerIsTyped
    <3>4. RequestsTyped'
      BY <2>6, <3>3 DEF Update, Actions, Replies
    <3>5. QED
      BY <2>2, <2>6, <3>1, <3>4 DEF Update, process, files
  <2>7. ASSUME NEW q \in Requests, Audit(q)
        PROVE  TypeOK'
    <3>1. Auth!TypeOK'
      BY <2>7, AuthKeepsTypes DEF Audit, TypeOK
    <3>2. RequestsTyped'
      BY <2>1, <2>7 DEF Audit, Goto, request, RequestsTyped, Places
    <3>3. [req |-> q, entry |-> entry[q], at |-> now] \in Line
      BY <2>1 DEF RequestsTyped, Line
    <3>4. audit' \in Seq(Line)
      <4>1. audit \in Seq(Line)
        BY DEF TypeOK
      <4>2. Append(audit, [req |-> q, entry |-> entry[q], at |-> now]) \in Seq(Line)
        BY <3>3, <4>1, AppendProperties
      <4>3. QED
        BY <2>7, <4>1, <4>2 DEF Audit
    <3>5. journal' \subseteq Requests
      BY <2>7 DEF Audit, TypeOK
    <3>6. QED
      BY <2>7, <3>1, <3>2, <3>4, <3>5 DEF Audit, TypeOK, RequestsTyped, process
  <2>8. ASSUME NEW q \in Requests, Stamp(q)
        PROVE  TypeOK'
    <3>1. Auth!TypeOK'
      BY <2>8, AuthKeepsTypes DEF Stamp, TypeOK
    <3>2. RequestsTyped'
      BY <2>1, <2>8 DEF Stamp, Goto, RequestsTyped, Places
    <3>3. QED
      BY <2>2, <2>8, <3>1, <3>2 DEF Stamp, process, files
  <2>9. ASSUME NEW q \in Requests, WriteStatus(q)
        PROVE  TypeOK'
    <3>1. Auth!TypeOK'
      BY <2>9, AuthKeepsTypes DEF WriteStatus, TypeOK
    <3>2. RequestsTyped'
      BY <2>1, <2>9 DEF WriteStatus, Goto, request, RequestsTyped, Places
    <3>3. [req |-> q, entry |-> entry[q], at |-> stamp[q]] \in Line
      BY <2>1 DEF RequestsTyped, Line
    <3>4. status' \in Line \cup {NoStatus}
      BY <2>9, <3>3 DEF WriteStatus, TypeOK
    <3>5. QED
      BY <2>9, <3>1, <3>2, <3>4 DEF WriteStatus, TypeOK, RequestsTyped, process
  <2>10. CASE Sigterm
    <3>1. Auth!TypeOK'
      BY <2>10, AuthKeepsTypes DEF Sigterm, TypeOK
    <3>2. deadline' \in Nat
      BY <2>1, <2>10, TimesAssumption DEF Sigterm
    <3>3. QED
      BY <2>10, <3>1, <3>2 DEF Sigterm, TypeOK, request, files
  <2>11. CASE Exit
    <3>1. Auth!TypeOK'
      BY <2>11, AuthKeepsTypes DEF Exit, TypeOK
    <3>2. pc' \in [Requests -> Places]
      BY <2>1, <2>11 DEF Exit, Places, RequestsTyped
    <3>3. QED
      BY <2>11, <3>1, <3>2 DEF Exit, TypeOK, request, files
  <2>12. CASE Tick \/ UNCHANGED vars
    <3>1. Auth!TypeOK'
      BY <2>12, AuthKeepsTypes DEF Tick, vars, TypeOK
    <3>2. UNCHANGED <<process, pc, request, files>>
      BY <2>12 DEF Tick, vars
    <3>3. QED
      BY <3>1, <3>2 DEF TypeOK, process, request, files
  <2>13. QED
    BY <2>3, <2>4, <2>5, <2>6, <2>7, <2>8, <2>9, <2>10, <2>11, <2>12 DEF Next, Handle
<1>3. QED
  BY <1>1, <1>2, PTL DEF Spec

(***************************************************************************)
(* The order of the audit log                                              *)
(***************************************************************************)

\* No line is later than the clock.
Past == \A i \in DOMAIN audit : audit[i].at <= now

\* Only an append changes the log, and time does not go back.
LEMMA LogGrows ==
  ASSUME TypeOK, [Next]_vars
  PROVE  /\ now \in Nat /\ now' \in Nat /\ now <= now'
         /\ audit' = audit \/ \E l \in Line : audit' = Append(audit, l) /\ l.at = now
<1> USE DEF request, process, files
<1>1. now \in Nat
  BY PolicyAssumption DEF TypeOK, Auth!TypeOK
<1>2. ASSUME NEW q \in Requests, Audit(q)
      PROVE  audit' = audit \/ \E l \in Line : audit' = Append(audit, l) /\ l.at = now
  <2>1. [req |-> q, entry |-> entry[q], at |-> now] \in Line
    BY <1>1 DEF TypeOK, Line
  <2>2. QED
    BY <1>2, <2>1 DEF Audit
<1>3. ASSUME NEW q \in Requests, Arrive(q) \/ Handle(q), ~Audit(q)
      PROVE  now' = now /\ audit' = audit
  BY <1>3 DEF Arrive, Handle, Authenticate, Validate, Update, Stamp, WriteStatus,
              Auth!Refuse, Auth!Reject, Auth!Accept, Auth!vars
<1>4. CASE \E q \in Requests : Audit(q)
  BY <1>1, <1>2, <1>4 DEF Audit
<1>5. CASE Sigterm \/ Exit \/ Tick \/ UNCHANGED vars
  BY <1>1, <1>5 DEF Sigterm, Exit, Tick, Auth!Tick, vars
<1>6. QED
  BY <1>1, <1>3, <1>4, <1>5 DEF Next

\* The audit log is in order of time for any number of concurrent requests
\* (audit.go:57-61).
THEOREM AuditIsOrdered == Spec => []AuditInOrder
<1>1. Init => Past /\ AuditInOrder
  <2>1. Init => DOMAIN audit = {}
    <3>1. <<>> \in Seq(Line) /\ Len(<<>>) = 0
      BY EmptySeq
    <3>2. \A i \in DOMAIN <<>> : FALSE
      BY <3>1
    <3>3. QED
      BY <3>2 DEF Init
  <2>2. QED
    BY <2>1 DEF Past, AuditInOrder
<1>2. TypeOK /\ Past /\ AuditInOrder /\ [Next]_vars => (Past /\ AuditInOrder)'
  <2> SUFFICES ASSUME TypeOK, Past, AuditInOrder, [Next]_vars
               PROVE  Past' /\ AuditInOrder'
    OBVIOUS
  <2>1. now \in Nat /\ now' \in Nat /\ now <= now'
    BY LogGrows
  <2>2. audit \in Seq(Line) /\ \A i \in DOMAIN audit : audit[i].at \in Nat
    <3>1. audit \in Seq(Line) /\ \A l \in Line : l.at \in Nat
      BY DEF TypeOK, Line
    <3>2. \A i \in DOMAIN audit : audit[i] \in Line
      BY <3>1
    <3>3. QED
      BY <3>1, <3>2
  <2>3. CASE audit' = audit
    BY <2>1, <2>2, <2>3 DEF Past, AuditInOrder
  <2>4. CASE \E l \in Line : audit' = Append(audit, l) /\ l.at = now
    <3>1. PICK l \in Line : audit' = Append(audit, l) /\ l.at = now
      BY <2>4
    <3>2. /\ DOMAIN audit = 1 .. Len(audit) /\ Len(audit) \in Nat
          /\ DOMAIN audit' = 1 .. Len(audit) + 1
          /\ audit'[Len(audit) + 1] = l
          /\ \A i \in 1 .. Len(audit) : audit'[i] = audit[i]
      BY <2>2, <3>1
    <3>3. QED
      BY <2>1, <2>2, <3>1, <3>2 DEF Past, AuditInOrder
  <2>5. QED
    BY <2>3, <2>4, LogGrows
<1>3. QED
  BY <1>1, <1>2, TypeCorrect, PTL DEF Spec

(***************************************************************************)
(* The log and the replies                                                 *)
(***************************************************************************)
Answers(e, code) ==
  /\ e.action = "updated" <=> code = "good"
  /\ e.auth \in {"missing", "bad", "locked"} <=> code = "badauth"

\* How far the entry of a request is filled in, and its agreement with the reply
\* once there is one.
Coherent ==
  \A q \in Requests :
    /\ pc[q] \in {"free", "auth"} => entry[q] = Blank
    /\ pc[q] \in {"validate", "update"} => entry[q].auth = "ok"
    /\ pc[q] \in {"audit", "stamp", "status", "done"} => Answers(entry[q], reply[q])

\* ServeHTTP gives every reply together with an entry that agrees with it
\* (handler.go:53-165).
LEMMA CoherentAlways == Spec => []Coherent
<1>1. Init => Coherent
  BY DEF Init, Coherent
<1>2. TypeOK /\ Coherent /\ [Next]_vars => Coherent'
  <2> SUFFICES ASSUME TypeOK, Coherent, [Next]_vars
               PROVE  Coherent'
    OBVIOUS
  <2>1. /\ pc \in [Requests -> Places] /\ entry \in [Requests -> Entry]
        /\ reply \in [Requests -> Replies]
    BY DEF TypeOK
  <2>2. ASSUME NEW q \in Requests, NEW from \in {"free", "auth", "validate", "update"},
               NEW e, NEW code, Answer(q, from, e, code), Answers(e, code)
        PROVE  Coherent'
    BY <2>1, <2>2 DEF Answer, Goto, Coherent
  <2>3. ASSUME NEW q \in Requests, NEW from, NEW to, Goto(q, from, to), UNCHANGED <<entry, reply>>,
               <<from, to>> \in { <<"free", "auth">>, <<"validate", "update">>, <<"audit", "stamp">>,
                                 <<"stamp", "status">>, <<"status", "done">> }
        PROVE  Coherent'
    BY <2>1, <2>3 DEF Goto, Coherent
  <2>4. ASSUME NEW q \in Requests, Arrive(q)
        PROVE  Coherent'
    <3>1. /\ Answers([Blank EXCEPT !.action = "cidr-deny"], "403")
          /\ Answers([Blank EXCEPT !.action = "method-deny"], "405")
          /\ Answers([Blank EXCEPT !.auth = "missing"], "badauth")
      BY DEF Answers, Blank
    <3>2. CASE Goto(q, "free", "auth") /\ UNCHANGED request
      BY <2>3, <3>2 DEF request
    <3>3. QED
      BY <2>2, <2>4, <3>1, <3>2 DEF Arrive
  <2>5. ASSUME NEW q \in Requests, Authenticate(q)
        PROVE  Coherent'
    <3>1. /\ Answers([Blank EXCEPT !.auth = "locked"], "badauth")
          /\ Answers([Blank EXCEPT !.auth = "bad"], "badauth")
      BY DEF Answers, Blank
    <3>2. CASE /\ Goto(q, "auth", "validate")
               /\ entry' = [entry EXCEPT ![q].auth = "ok"]
               /\ UNCHANGED <<input, begun, reply, stamp>>
      <4>1. entry'[q].auth = "ok"
        BY <2>1, <3>2 DEF Entry
      <4>2. \A p \in Requests \ {q} : entry'[p] = entry[p] /\ pc'[p] = pc[p]
        BY <2>1, <3>2 DEF Goto
      <4>3. pc'[q] = "validate" /\ reply' = reply
        BY <2>1, <3>2 DEF Goto
      <4>4. QED
        BY <4>1, <4>2, <4>3 DEF Coherent
    <3>3. QED
      BY <2>2, <2>5, <3>1, <3>2 DEF Authenticate
  <2>6. ASSUME NEW q \in Requests, pc[q] \in {"validate", "update"}, NEW a \in Actions
        PROVE  Acted(q, a).auth = "ok" /\ Acted(q, a).action = a
    BY <2>1, <2>6 DEF Acted, Coherent, Entry
  <2>7. ASSUME NEW q \in Requests, Validate(q)
        PROVE  Coherent'
    <3>1. CASE /\ Goto(q, "validate", "update")
               /\ UNCHANGED <<input, entry, reply, stamp>>
      BY <2>3, <3>1
    <3>2. pc[q] = "validate"
      BY <2>7, Zenon DEF Validate, Answer, Goto
    <3>3. ASSUME NEW a \in {"notfqdn", "nohost", "wanip-error"}, NEW code, code \notin {"good", "badauth"},
                 Answer(q, "validate", Acted(q, a), code)
          PROVE  Coherent'
      <4>1. a \in Actions /\ a # "updated"
        BY DEF Actions
      <4>2. Answers(Acted(q, a), code)
        BY <2>6, <3>2, <3>3, <4>1 DEF Answers
      <4>3. QED
        BY <2>2, <3>3, <4>2
    <3>4. QED
      <4>1. \/ Answer(q, "validate", Acted(q, "notfqdn"), "notfqdn")
            \/ Answer(q, "validate", Acted(q, "nohost"), "nohost")
            \/ Answer(q, "validate", Acted(q, "wanip-error"), "dnserr")
            \/ Goto(q, "validate", "update") /\ UNCHANGED <<input, entry, reply, stamp>>
        BY <2>7, Zenon DEF Validate
      <4>2. QED
        BY <3>1, <3>3, <4>1
  <2>8. ASSUME NEW q \in Requests, Update(q)
        PROVE  Coherent'
    <3>1. pc[q] = "update"
      BY <2>8 DEF Update, Answer, Goto
    <3>2. ASSUME NEW a \in {"dnserr", "updated", "nochg-cache", "nochg-dns", "panic"},
                 NEW code, code # "badauth", a = "updated" <=> code = "good",
                 Answer(q, "update", Acted(q, a), code)
          PROVE  Coherent'
      <4>1. a \in Actions
        BY DEF Actions
      <4>2. Answers(Acted(q, a), code)
        BY <2>6, <3>1, <3>2, <4>1 DEF Answers
      <4>3. QED
        BY <2>2, <3>2, <4>2
    <3>3. QED
      BY <2>8, <3>2 DEF Update
  <2>9. ASSUME NEW q \in Requests, Audit(q) \/ Stamp(q) \/ WriteStatus(q)
        PROVE  Coherent'
    BY <2>3, <2>9 DEF Audit, Stamp, WriteStatus, request
  <2>10. CASE Exit
    BY <2>1, <2>10 DEF Exit, Coherent, request
  <2>11. CASE Sigterm \/ Tick \/ UNCHANGED vars
    BY <2>11 DEF Sigterm, Tick, vars, Coherent, request
  <2>12. QED
    BY <2>4, <2>5, <2>7, <2>8, <2>9, <2>10, <2>11 DEF Next, Handle
<1>3. QED
  BY <1>1, <1>2, TypeCorrect, PTL DEF Spec

\* A request has no line before its append; after it, one equal to its entry or
\* a message in the journal.
Logged ==
  \A q \in Requests :
    /\ pc[q] \in {"free", "auth", "validate", "update", "audit"} => Lines(q) = {}
    /\ pc[q] \in {"stamp", "status", "done"} =>
         \/ q \in journal /\ Lines(q) = {}
         \/ \E i \in Lines(q) : Lines(q) = {i} /\ audit[i].entry = entry[q]

\* Every way through ServeHTTP ends in one emit, after which the entry does not
\* change (handler.go:53-165, 183-199).
LEMMA LoggedAlways == Spec => []Logged
<1>1. Init => Logged
  <2>1. \A i \in DOMAIN <<>> : FALSE
    BY EmptySeq
  <2>2. QED
    BY <2>1 DEF Init, Logged, Lines
<1>2. TypeOK /\ Logged /\ [Next]_vars => Logged'
  <2> SUFFICES ASSUME TypeOK, Logged, [Next]_vars
               PROVE  Logged'
    OBVIOUS
  <2>1. pc \in [Requests -> Places] /\ entry \in [Requests -> Entry]
    BY DEF TypeOK
  <2>2. ASSUME NEW q \in Requests, NEW from, NEW to, Goto(q, from, to), UNCHANGED <<audit, journal>>,
               \A p \in Requests \ {q} : entry'[p] = entry[p],
               \/ /\ from \in {"free", "auth", "validate", "update"}
                  /\ to \in {"auth", "validate", "update", "audit"}
               \/ <<from, to>> \in {<<"stamp", "status">>, <<"status", "done">>} /\ UNCHANGED entry
        PROVE  Logged'
    BY <2>1, <2>2 DEF Goto, Logged, Lines
  <2>3. ASSUME NEW q \in Requests, NEW from \in {"free", "auth", "validate", "update"},
               NEW e, NEW code, Answer(q, from, e, code), UNCHANGED <<audit, journal>>
        PROVE  Logged'
    BY <2>1, <2>2, <2>3 DEF Answer
  <2>4. ASSUME NEW q \in Requests, Arrive(q)
        PROVE  Logged'
    BY <2>2, <2>3, <2>4 DEF Arrive, files, request
  <2>5. ASSUME NEW q \in Requests, Authenticate(q)
        PROVE  Logged'
    <3>1. CASE Goto(q, "auth", "validate") /\ entry' = [entry EXCEPT ![q].auth = "ok"]
      BY <2>1, <2>2, <2>5, <3>1 DEF Authenticate, files
    <3>2. QED
      BY <2>3, <2>5, <3>1 DEF Authenticate, files
  <2>6. ASSUME NEW q \in Requests, Validate(q) \/ Update(q)
        PROVE  Logged'
    BY <2>2, <2>3, <2>6 DEF Validate, Update, files
  <2>7. ASSUME NEW q \in Requests, Stamp(q) \/ WriteStatus(q)
        PROVE  Logged'
    BY <2>2, <2>7 DEF Stamp, WriteStatus, files, request
  <2>8. ASSUME NEW q \in Requests, Audit(q)
        PROVE  Logged'
    <3>1. /\ pc[q] = "audit" /\ pc' = [pc EXCEPT ![q] = "stamp"] /\ entry' = entry
      BY <2>8 DEF Audit, Goto, request
    <3>2. Lines(q) = {}
      BY <3>1 DEF Logged
    <3>3. CASE journal' = journal \cup {q} /\ UNCHANGED audit
      BY <2>1, <3>1, <3>2, <3>3 DEF Logged, Lines
    <3>4. CASE /\ audit' = Append(audit, [req |-> q, entry |-> entry[q], at |-> now])
               /\ UNCHANGED journal
      <4>1. PICK l \in Line : audit' = Append(audit, l) /\ l.req = q /\ l.entry = entry[q]
        <5>1. [req |-> q, entry |-> entry[q], at |-> now] \in Line
          BY <2>1, PolicyAssumption DEF TypeOK, Auth!TypeOK, Line
        <5>2. QED
          BY <3>4, <5>1
      <4>2. /\ DOMAIN audit = 1 .. Len(audit) /\ Len(audit) \in Nat
            /\ DOMAIN audit' = 1 .. Len(audit) + 1
            /\ audit'[Len(audit) + 1] = l
            /\ \A i \in 1 .. Len(audit) : audit'[i] = audit[i]
        BY <4>1 DEF TypeOK
      <4>3. Lines(q)' = {Len(audit) + 1}
        BY <3>2, <4>1, <4>2 DEF Lines
      <4>4. \A p \in Requests \ {q} : Lines(p)' = Lines(p)
        BY <4>1, <4>2 DEF Lines
      <4>5. \A p \in Requests : \A i \in Lines(p) : audit'[i] = audit[i]
        BY <4>2 DEF Lines
      <4>6. /\ pc'[q] = "stamp"
            /\ \E i \in Lines(q)' : Lines(q)' = {i} /\ audit'[i].entry = entry'[q]
        BY <2>1, <3>1, <4>1, <4>2, <4>3
      <4>7. ASSUME NEW p \in Requests \ {q}
            PROVE  /\ pc'[p] \in {"free", "auth", "validate", "update", "audit"} => Lines(p)' = {}
                   /\ pc'[p] \in {"stamp", "status", "done"} =>
                        \/ p \in journal' /\ Lines(p)' = {}
                        \/ \E i \in Lines(p)' : Lines(p)' = {i} /\ audit'[i].entry = entry'[p]
        <5>1. pc'[p] = pc[p] /\ entry'[p] = entry[p] /\ Lines(p)' = Lines(p)
          BY <2>1, <3>1, <4>4
        <5>2. \A i \in Lines(p) : audit'[i].entry = audit[i].entry
          BY <4>5
        <5>3. QED
          BY <3>4, <5>1, <5>2 DEF Logged
      <4>8. QED
        BY <4>6, <4>7 DEF Logged
    <3>5. QED
      BY <2>8, <3>3, <3>4 DEF Audit
  <2>9. CASE Exit
    BY <2>1, <2>9 DEF Exit, Logged, Lines, request, files
  <2>10. CASE Sigterm \/ Tick \/ UNCHANGED vars
    BY <2>10 DEF Sigterm, Tick, vars, Logged, Lines, request, files
  <2>11. QED
    BY <2>4, <2>5, <2>6, <2>7, <2>8, <2>9, <2>10 DEF Next, Handle
<1>3. QED
  BY <1>1, <1>2, TypeCorrect, PTL DEF Spec

\* Every request that ran to its end has one line that tells what the client was
\* told, or a message in the journal, for any number of concurrent requests and
\* whatever fails (handler.go:52-199).
THEOREM LogIsFaithful == Spec => []LogTellsReply
<1>1. Coherent /\ Logged => LogTellsReply
  BY DEF Coherent, Logged, Answers, LogTellsReply
<1>2. QED
  BY <1>1, CoherentAlways, LoggedAlways, PTL

(***************************************************************************)
(* The authenticator in the server                                         *)
(***************************************************************************)
Checker == INSTANCE AuthenticatorProofs

\* To the authenticator every step of the server is a check, a tick or nothing:
\* the mutex of Check makes one of two goroutines wait (auth.go:60).
THEOREM ChecksAreSerial == Spec => Checker!Spec
<1>1. Init => Checker!Init
  BY Zenon DEF Init, Auth!Init, Checker!Init
<1>2. [Next]_vars => [Checker!Next]_Checker!vars
  <2> SUFFICES ASSUME [Next]_vars
               PROVE  [Checker!Next]_Checker!vars
    OBVIOUS
  <2>1. CASE \E q \in Requests : Authenticate(q)
    BY <2>1, Zenon DEF Authenticate, Auth!Refuse, Auth!Accept, Auth!Reject, Auth!InWindow,
       Auth!LockedOut, Checker!Next, Checker!Refuse, Checker!Accept, Checker!Reject,
       Checker!InWindow, Checker!LockedOut, Auth!vars, Checker!vars, Auth!Cardinality, Checker!Cardinality
  <2>2. CASE Tick
    BY <2>2, Zenon DEF Tick, Auth!Tick, Checker!Next, Checker!Tick
  <2>3. CASE ~(\E q \in Requests : Authenticate(q)) /\ ~Tick
    BY <2>3, Zenon DEF Next, Handle, Arrive, Validate, Update, Audit, Stamp, WriteStatus, Sigterm,
       Exit, vars, auth, Checker!vars
  <2>4. QED
    BY <2>1, <2>2, <2>3, Zenon
<1>3. QED
  BY <1>1, <1>2, PTL DEF Spec, Checker!Spec

\* What the authenticator promises holds of the server, whatever its goroutines
\* do: no window sees more wrong passwords evaluated than the limit, and a check
\* is refused exactly after a burst of them (auth.go:53-89).
THEOREM ServerLimitsGuesses == Spec => [](Auth!GuessBound /\ Auth!LockoutIffBurst)
<1>1. Checker!PolicyAssumption /\ Checker!BoundsAssumption
  BY PolicyAssumption DEF PolicyAssumption, Checker!PolicyAssumption, Checker!BoundsAssumption
<1>2. Checker!Spec => []Checker!GuessBound
  BY <1>1, Checker!GuessesAreBounded
<1>3. Checker!Spec => []Checker!LockoutIffBurst
  BY <1>1, Checker!LockoutIsExact
<1>4. Checker!GuessBound /\ Checker!LockoutIffBurst => Auth!GuessBound /\ Auth!LockoutIffBurst
  BY Zenon DEF Checker!GuessBound, Auth!GuessBound, Checker!LockoutIffBurst, Auth!LockoutIffBurst,
     Checker!LockedOut, Auth!LockedOut, Checker!RecentBurst, Auth!RecentBurst, Checker!BurstAt,
     Auth!BurstAt, Checker!InWindow, Auth!InWindow, Auth!Cardinality, Checker!Cardinality
<1>5. QED
  BY <1>2, <1>3, <1>4, ChecksAreSerial, PTL
=============================================================================
