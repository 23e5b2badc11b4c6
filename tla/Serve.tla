------------------------------- MODULE Serve -------------------------------
(***************************************************************************)
(* Serve mode (internal/server): net/http runs ServeHTTP concurrently, one *)
(* goroutine per request.  The requests share the Authenticator (module    *)
(* Authenticator, used as it is), the audit log, the status file and the   *)
(* life of the server process, which SIGTERM ends through a Shutdown with  *)
(* a deadline.  The update flow itself is module Updater; here a request   *)
(* only takes one of its outcomes.                                         *)
(***************************************************************************)
EXTENDS Naturals, Sequences

CONSTANTS
  Requests,         \* the requests of a behaviour, each handled once
  Inputs,           \* what a request may look like
  Faults,           \* faults allowed: "wanip", "panic", "audit", "status"
  HandlerTimeout,   \* handlerTimeout, in ticks
  Grace,            \* the deadline given to http.Server.Shutdown
  MaxFailures, Window, Lockout, MaxTime, MaxGuesses   \* of Authenticator

\* What the handler looks at: the CIDR allowlist's verdict, the method, the
\* Basic-Auth password and the hostname parameter.
Input == [allowed : BOOLEAN, get : BOOLEAN,
          password : {"missing", "wrong", "right"}, host : {"", "other", "ours"}]

ASSUME InputsAssumption == Inputs \subseteq Input
ASSUME TimesAssumption  == HandlerTimeout \in Nat /\ Grace \in Nat
ASSUME PolicyAssumption ==
  /\ MaxFailures \in Nat \ {0} /\ Window \in Nat /\ Lockout \in Nat /\ Window <= Lockout
  /\ MaxTime \in Nat /\ MaxGuesses \in Nat

VARIABLES
  now, failures, lockedUntil, guesses, tries,   \* the Authenticator
  server,     \* "up", "draining" (Shutdown called) or "down"
  deadline,   \* when Shutdown gives up
  pc,         \* where each request stands
  input,      \* the request
  begun,      \* when its context was created
  entry,      \* its AuditEntry
  reply,      \* the code written to the client
  stamp,      \* LastRequestAt of its status snapshot
  audit,      \* the audit log
  journal,    \* requests whose audit line failed and went to stderr
  status      \* the status file

auth == <<failures, lockedUntil, guesses, tries>>
process == <<server, deadline>>
request == <<input, begun, entry, reply, stamp>>
files == <<audit, journal, status>>
vars == <<now, auth, process, pc, request, files>>

Auth == INSTANCE Authenticator

Replies == {"", "403", "405", "badauth", "notfqdn", "nohost", "dnserr", "good", "nochg", "911"}
Actions == {"", "cidr-deny", "method-deny", "notfqdn", "nohost", "wanip-error", "dnserr",
            "updated", "nochg-cache", "nochg-dns", "panic"}
Entry == [auth : {"", "missing", "bad", "locked", "ok"}, action : Actions]
Blank == [auth |-> "", action |-> ""]
Line == [req : Requests, entry : Entry, at : Nat]
NoStatus == [req |-> "none"]

Places == {"free", "auth", "validate", "update", "audit", "stamp", "status", "done", "killed"}

InFlight(q) == pc[q] \notin {"free", "done", "killed"}

TypeOK ==
  /\ Auth!TypeOK
  /\ server \in {"up", "draining", "down"}
  /\ deadline \in Nat
  /\ pc \in [Requests -> Places]
  /\ input \in [Requests -> Input]
  /\ begun \in [Requests -> Nat]
  /\ entry \in [Requests -> Entry]
  /\ reply \in [Requests -> Replies]
  /\ stamp \in [Requests -> Nat]
  /\ audit \in Seq(Line)
  /\ journal \subseteq Requests
  /\ status \in Line \cup {NoStatus}

Init ==
  /\ Auth!Init
  /\ server = "up" /\ deadline = 0
  /\ pc = [q \in Requests |-> "free"]
  /\ input \in [Requests -> Inputs]
  /\ begun = [q \in Requests |-> 0]
  /\ entry = [q \in Requests |-> Blank]
  /\ reply = [q \in Requests |-> ""]
  /\ stamp = [q \in Requests |-> 0]
  /\ audit = <<>> /\ journal = {} /\ status = NoStatus

(***************************************************************************)
(* ServeHTTP                                                               *)
(***************************************************************************)
Goto(q, from, to) ==
  /\ pc[q] = from
  /\ pc' = [pc EXCEPT ![q] = to]

\* The request is over but for emit: entry filled in, reply written.
Answer(q, from, e, code) ==
  /\ Goto(q, from, "audit")
  /\ entry' = [entry EXCEPT ![q] = e]
  /\ reply' = [reply EXCEPT ![q] = code]
  /\ UNCHANGED <<input, begun, stamp>>

\* The listener accepts the connection and the checks that need no shared
\* state are made: origin, method, presence of credentials.
Arrive(q) ==
  /\ server = "up"
  /\ \/ /\ ~input[q].allowed
        /\ Answer(q, "free", [Blank EXCEPT !.action = "cidr-deny"], "403")
     \/ /\ input[q].allowed /\ ~input[q].get
        /\ Answer(q, "free", [Blank EXCEPT !.action = "method-deny"], "405")
     \/ /\ input[q].allowed /\ input[q].get /\ input[q].password = "missing"
        /\ Answer(q, "free", [Blank EXCEPT !.auth = "missing"], "badauth")
     \/ /\ input[q].allowed /\ input[q].get /\ input[q].password # "missing"
        /\ Goto(q, "free", "auth")
        /\ UNCHANGED request
  /\ UNCHANGED <<now, auth, process, files>>

Authenticate(q) ==
  /\ \/ /\ Auth!Refuse
        /\ Answer(q, "auth", [Blank EXCEPT !.auth = "locked"], "badauth")
     \/ /\ input[q].password = "wrong" /\ Auth!Reject
        /\ Answer(q, "auth", [Blank EXCEPT !.auth = "bad"], "badauth")
     \/ /\ input[q].password = "right" /\ Auth!Accept
        /\ Goto(q, "auth", "validate")
        /\ entry' = [entry EXCEPT ![q].auth = "ok"]
        /\ UNCHANGED <<input, begun, reply, stamp>>
  /\ UNCHANGED <<process, files>>

Acted(q, action) == [entry[q] EXCEPT !.action = action]

\* Mutant: a reply code outside the protocol.
ValidateMisspelt(q) ==
  /\ input[q].host = ""
  /\ Answer(q, "validate", Acted(q, "notfqdn"), "nofqdn")
  /\ UNCHANGED <<now, auth, process, files>>

\* Hostname, then the address of the WAN interface; the update gets a context
\* that ends HandlerTimeout from here.
Validate(q) ==
  /\ \/ /\ input[q].host = ""
        /\ Answer(q, "validate", Acted(q, "notfqdn"), "notfqdn")
     \/ /\ input[q].host = "other"
        /\ Answer(q, "validate", Acted(q, "nohost"), "nohost")
     \/ /\ input[q].host = "ours" /\ "wanip" \in Faults
        /\ Answer(q, "validate", Acted(q, "wanip-error"), "dnserr")
     \/ /\ input[q].host = "ours"
        /\ Goto(q, "validate", "update")
        /\ begun' = [begun EXCEPT ![q] = now]
        /\ UNCHANGED <<input, entry, reply, stamp>>
  /\ UNCHANGED <<now, auth, process, files>>

\* Mutant: the switch answers "nochg" to an update.
UpdateAsNochg(q) ==
  /\ \E action \in {"updated", "nochg-cache", "nochg-dns"} :
       Answer(q, "update", Acted(q, action), "nochg")
  /\ UNCHANGED <<now, auth, process, files>>

\* updater.Update returns, or panics and the deferred recover answers.
Update(q) ==
  /\ \/ Answer(q, "update", Acted(q, "dnserr"), "dnserr")
     \/ Answer(q, "update", Acted(q, "updated"), "good")
     \/ \E action \in {"nochg-cache", "nochg-dns"} :
          Answer(q, "update", Acted(q, action), "nochg")
     \/ "panic" \in Faults /\ Answer(q, "update", Acted(q, "panic"), "911")
  /\ UNCHANGED <<now, auth, process, files>>

\* Mutant: the line carries the time the handler looked at, not the time of the
\* append.
AuditWithOldStamp(q) ==
  /\ Goto(q, "audit", "stamp")
  /\ audit' = Append(audit, [req |-> q, entry |-> entry[q], at |-> begun[q]])
  /\ UNCHANGED <<now, auth, process, request, journal, status>>

\* AuditLog.Write stamps the line while it holds the log's mutex; emit reports a
\* failure on stderr and goes on.
Audit(q) ==
  /\ Goto(q, "audit", "stamp")
  /\ \/ audit' = Append(audit, [req |-> q, entry |-> entry[q], at |-> now]) /\ UNCHANGED journal
     \/ "audit" \in Faults /\ journal' = journal \cup {q} /\ UNCHANGED audit
  /\ UNCHANGED <<now, auth, process, request, status>>

\* emit takes LastRequestAt before StatusWriter.Write takes its mutex.
Stamp(q) ==
  /\ Goto(q, "stamp", "status")
  /\ stamp' = [stamp EXCEPT ![q] = now]
  /\ UNCHANGED <<now, auth, process, input, begun, entry, reply, files>>

\* Mutant: an early return keeps the mutex.
WriteStatusKeepsMutex(q) ==
  /\ status = NoStatus
  /\ Goto(q, "status", "done")
  /\ status' = [req |-> q, entry |-> entry[q], at |-> stamp[q]]
  /\ UNCHANGED <<now, auth, process, request, audit, journal>>

\* Write to a temporary file and rename; the handler returns and net/http
\* sends the reply it had buffered.
WriteStatus(q) ==
  /\ Goto(q, "status", "done")
  /\ \/ status' = [req |-> q, entry |-> entry[q], at |-> stamp[q]]
     \/ "status" \in Faults /\ UNCHANGED status
  /\ UNCHANGED <<now, auth, process, request, audit, journal>>

Handle(q) ==
  \/ Authenticate(q) \/ Validate(q) \/ Update(q)
  \/ Audit(q) \/ Stamp(q) \/ WriteStatus(q)

(***************************************************************************)
(* The server process                                                      *)
(***************************************************************************)
Sigterm ==
  /\ server = "up"
  /\ server' = "draining"
  /\ deadline' = now + Grace
  /\ UNCHANGED <<now, auth, pc, request, files>>

\* Mutant: connections that have been served keep Shutdown waiting.
ExitWaitsForServed ==
  /\ server = "draining"
  /\ \A q \in Requests : pc[q] = "free"
  /\ server' = "down"
  /\ UNCHANGED <<now, auth, deadline, pc, request, files>>

\* Shutdown returns when nothing is in flight or at its deadline; Run returns
\* and the process exits with whatever still runs.
Exit ==
  /\ server = "draining"
  /\ now >= deadline \/ \A q \in Requests : ~InFlight(q)
  /\ server' = "down"
  /\ pc' = [q \in Requests |-> IF InFlight(q) THEN "killed" ELSE pc[q]]
  /\ UNCHANGED <<now, auth, deadline, request, files>>

\* Neither an update nor Shutdown outlives its deadline.
Tick ==
  /\ server # "down"
  /\ \A q \in Requests : pc[q] = "update" => now < begun[q] + HandlerTimeout
  /\ server = "draining" => now < deadline
  /\ Auth!Tick
  /\ UNCHANGED <<process, pc, request, files>>

Next ==
  \/ \E q \in Requests : Arrive(q) \/ Handle(q)
  \/ Sigterm \/ Exit \/ Tick

Spec == Init /\ [][Next]_vars

\* Goroutines are scheduled, and a draining server exits.
FairSpec ==
  /\ Spec
  /\ \A q \in Requests : WF_vars(Handle(q))
  /\ WF_vars(Exit) /\ WF_vars(Tick)

(***************************************************************************)
(* Properties                                                              *)
(***************************************************************************)

Lines(q) == {i \in DOMAIN audit : audit[i].req = q}

\* The audit log is in order of time, whichever goroutines append to it
\* (audit.go:57-61, the stamp is taken under the mutex).
AuditInOrder == \A i, j \in DOMAIN audit : i < j => audit[i].at <= audit[j].at

\* A request that ran to its end has exactly one line, or none and a message in
\* the journal, and the line tells what the client was told: "good" for an update
\* and only for one, "badauth" for credentials not accepted (handler.go:52-199,
\* docs/udm-guide.md:392).
LogTellsReply ==
  \A q \in Requests : pc[q] = "done" =>
    \/ q \in journal /\ Lines(q) = {}
    \/ \E i \in Lines(q) :
         /\ Lines(q) = {i}
         /\ audit[i].entry.action = "updated" <=> reply[q] = "good"
         /\ audit[i].entry.auth \in {"missing", "bad", "locked"} <=> reply[q] = "badauth"

\* Every request that was accepted is answered, unless the process exits first
\* (handlerTimeout bounds the update, handler.go:17-19, 140-141).
Answered == \A q \in Requests : InFlight(q) ~> (pc[q] = "done" \/ server = "down")

\* SIGTERM stops the server, whatever is in flight (server.go:67-71).
Stops == (server = "draining") ~> (server = "down")
=============================================================================
