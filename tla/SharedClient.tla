---------------------------- MODULE SharedClient ----------------------------
(***************************************************************************)
(* One Client that several goroutines use. The Gateway knows a REST session*)
(* and its working copy by the JSESSIONID cookie, so what separates the    *)
(* goroutines is the cookie jar their requests are made with: a            *)
(* configuration transaction has one of its own (newSessionClient), the    *)
(* low-level methods of the Client share the Client's.                     *)
(*                                                                         *)
(* Each worker runs one session: version check, create, load the active    *)
(* configuration, one edit, validate, activate rejecting an outdated       *)
(* working copy, terminate. A request reads the jar when it is sent and    *)
(* takes effect in the session it carries; the reply to a create stores a  *)
(* cookie. A configuration is the set of the workers whose edit it has.    *)
(*                                                                         *)
(* A request that is not answered leaves its worker waiting until the      *)
(* connection breaks or the time of its HTTP client is up.                 *)
(***************************************************************************)
EXTENDS ClientSettings

CONSTANTS
    Transactions,  \* workers that have started a configuration transaction
    Callers,       \* workers that call the Client's low-level methods
    SessionIds,    \* the sessions the Gateway can open
    Shared,        \* the Client's own jar
    Configs,       \* what the Client can be made from
    MaxFaults      \* bound: failed and lost requests

Workers == Transactions \cup Callers

Configurations == SUBSET Workers

\* owner: history, the worker whose request has created the session. base: the
\* configuration that was active when `work' was loaded.
SessionRecords ==
    [owner : Workers, open : BOOLEAN, loaded : BOOLEAN,
     base : Configurations, work : Configurations]

ASSUME SharedClientAssumption ==
    /\ Transactions \cap Callers = {}
    /\ Shared \notin Workers
    /\ None \notin SessionIds \cup SessionRecords
    /\ Configs \subseteq ConfigRecords
    /\ MaxFaults \in Nat

VARIABLES
    config,     \* what the Client was made from
    http,       \* its HTTP client
    jar,        \* the session cookie in each jar, or None
    pc,         \* the next request of each worker
    sent,       \* it is on its way
    carried,    \* the cookie it carries
    waiting,    \* workers whose request has failed without their knowing
    err,        \* what the worker's call returns
    session,    \* the Gateway's sessions, or None
    active,     \* the running configuration
    faults      \* history: how many requests failed

vars == <<config, http, jar, pc, sent, carried, waiting, err, session, active, faults>>

InSession == {"load", "edit", "validate", "activate", "terminate"}

Requests == {"version", "create"} \cup InSession

Errors == {"none", "failed", "conflict", "session"}

Init ==
    /\ config \in Configs
    /\ http \in New(config)
    /\ jar = [j \in Workers \cup {Shared} |-> None]
    /\ pc = [w \in Workers |-> "version"]
    /\ sent = [w \in Workers |-> FALSE]
    /\ carried = [w \in Workers |-> None]
    /\ waiting = {}
    /\ err = [w \in Workers |-> "none"]
    /\ session = [s \in SessionIds |-> None]
    /\ active = {}
    /\ faults = 0

\* Mutant: a transaction uses the Client it was started on.
JarOfClient(w) == Shared

JarOf(w) == IF w \in Transactions THEN w ELSE Shared

\* Mutant: a transaction has a jar only if the HTTP client has one.
KeepsCookiesOfClient(j) == http.jar

\* The new jar of a transaction replaces whatever the HTTP client has.
KeepsCookies(j) == j # Shared \/ http.jar

Open(s) == s \in SessionIds /\ session[s] # None /\ session[s].open

LoadedIn(s) == Open(s) /\ session[s].loaded

(***************************************************************************)
(* What follows a request.                                                 *)
(***************************************************************************)
Following(step) ==
    CASE step = "version"  -> "create"
      [] step = "create"   -> "load"
      [] step = "load"     -> "edit"
      [] step = "edit"     -> "validate"
      [] step = "validate" -> "activate"
      [] step = "activate" -> "terminate"
      [] OTHER             -> "done"

\* Mutant: every error is followed by the end of the session.
AfterErrorTerminates(step) == IF step = "terminate" THEN "done" ELSE "terminate"

\* An error ends the session, once there is one.
AfterError(step) == IF step \in InSession \ {"terminate"} THEN "terminate" ELSE "done"

Proceeds(w) ==
    /\ pc' = [pc EXCEPT ![w] = Following(pc[w])]
    /\ UNCHANGED err

Fails(w, error) ==
    /\ pc' = [pc EXCEPT ![w] = AfterError(pc[w])]
    /\ err' = [err EXCEPT ![w] = IF err[w] = "none" THEN error ELSE err[w]]

Ends(w) ==
    /\ sent' = [sent EXCEPT ![w] = FALSE]
    /\ carried' = [carried EXCEPT ![w] = None]

Send(w) ==
    /\ pc[w] \in Requests
    /\ ~sent[w] /\ w \notin waiting
    /\ sent' = [sent EXCEPT ![w] = TRUE]
    /\ carried' = [carried EXCEPT ![w] = jar[JarOf(w)]]
    /\ UNCHANGED <<config, http, jar, pc, waiting, err, session, active, faults>>

(***************************************************************************)
(* What a request does on the Gateway (external).                          *)
(***************************************************************************)
\* The Gateway refuses a request without a session to serve it in.
Refused(w) ==
    \/ pc[w] = "create" /\ \A s \in SessionIds : session[s] # None
    \/ pc[w] \in {"load", "terminate"} /\ ~Open(carried[w])
    \/ pc[w] \in {"edit", "validate", "activate"} /\ ~LoadedIn(carried[w])

Outdated(w) == pc[w] = "activate" /\ session[carried[w]].base # active

Created(w, s) ==
    session' = [session EXCEPT ![s] =
        [owner |-> w, open |-> TRUE, loaded |-> FALSE, base |-> {}, work |-> {}]]

\* The request's session becomes `to'.
Becomes(w, to) == session' = [session EXCEPT ![carried[w]] = to]

LoadedNow(w) ==
    Becomes(w, [session[carried[w]] EXCEPT !.loaded = TRUE, !.base = active, !.work = active])

Edited(w) ==
    LET held == session[carried[w]]
    IN  Becomes(w, [held EXCEPT !.work = held.work \cup {w}])

Activated(w) ==
    /\ active' = session[carried[w]].work
    /\ Becomes(w, [session[carried[w]] EXCEPT !.base = session[carried[w]].work])

Closed(w) == Becomes(w, [session[carried[w]] EXCEPT !.open = FALSE])

TakesEffect(w) ==
    \/ pc[w] \in {"version", "validate"} /\ UNCHANGED <<session, active>>
    \/ pc[w] = "load" /\ LoadedNow(w) /\ UNCHANGED active
    \/ pc[w] = "edit" /\ Edited(w) /\ UNCHANGED active
    \/ pc[w] = "activate" /\ Activated(w)
    \/ pc[w] = "terminate" /\ Closed(w) /\ UNCHANGED active

(***************************************************************************)
(* How a request ends.                                                     *)
(***************************************************************************)
Served(w) == sent[w] /\ ~Refused(w) /\ ~Outdated(w)

Answer(w) ==
    /\ Served(w)
    /\ pc[w] # "create"
    /\ TakesEffect(w)
    /\ Proceeds(w)
    /\ Ends(w)
    /\ UNCHANGED <<config, http, waiting, jar, faults>>

\* The reply's cookie goes to the jar the request was made with.
CreateSession(w) ==
    /\ Served(w)
    /\ pc[w] = "create"
    /\ \E s \in SessionIds :
          /\ session[s] = None
          /\ Created(w, s)
          /\ jar' = IF KeepsCookies(JarOf(w)) THEN [jar EXCEPT ![JarOf(w)] = s] ELSE jar
    /\ Proceeds(w)
    /\ Ends(w)
    /\ UNCHANGED <<config, http, waiting, active, faults>>

Refuse(w) ==
    /\ sent[w]
    /\ \/ Refused(w) /\ Fails(w, "session")
       \/ ~Refused(w) /\ Outdated(w) /\ Fails(w, "conflict")
    /\ Ends(w)
    /\ UNCHANGED <<config, http, waiting, jar, session, active, faults>>

Fault == faults < MaxFaults /\ faults' = faults + 1

\* The worker learns of it at once, or waits for an answer.
Unanswered(w) ==
    /\ Fails(w, "failed")
    /\ Ends(w)
    /\ waiting' \in {waiting, waiting \cup {w}}

\* The request did not reach the Gateway.
RequestFails(w) ==
    /\ sent[w]
    /\ Fault
    /\ Unanswered(w)
    /\ UNCHANGED <<config, http, jar, session, active>>

\* It did, but its reply, and its cookie, got lost.
AnswerLost(w) ==
    /\ Served(w)
    /\ Fault
    /\ \/ pc[w] # "create" /\ TakesEffect(w)
       \/ /\ pc[w] = "create"
          /\ \E s \in SessionIds : session[s] = None /\ Created(w, s)
          /\ UNCHANGED active
    /\ Unanswered(w)
    /\ UNCHANGED <<config, http, jar>>

\* The connection breaks, or the time is up.
GivesUp(w) ==
    /\ w \in waiting
    /\ waiting' = waiting \ {w}
    /\ UNCHANGED <<config, http, jar, pc, sent, carried, err, session, active, faults>>

TimesOut(w) == http.timeout > 0 /\ GivesUp(w)

Step(w) ==
    \/ Send(w) \/ Answer(w) \/ CreateSession(w) \/ Refuse(w)
    \/ RequestFails(w) \/ AnswerLost(w) \/ GivesUp(w)

Returned(w) == pc[w] = "done" /\ w \notin waiting

Terminating == (\A w \in Workers : Returned(w)) /\ UNCHANGED vars

Next == (\E w \in Workers : Step(w)) \/ Terminating

Spec == Init /\ [][Next]_vars

\* A worker goes on, the Gateway answers what it has received, and a timeout
\* expires; a connection need not break.
Fairness ==
    \A w \in Workers :
        /\ WF_vars(Send(w))
        /\ WF_vars(Answer(w) \/ CreateSession(w) \/ Refuse(w))
        /\ WF_vars(TimesOut(w))

FairSpec == Spec /\ Fairness

(***************************************************************************)
(* Correctness.                                                            *)
(***************************************************************************)
OwnedBy(s, w) == s \in SessionIds /\ session[s] # None /\ session[s].owner = w

\* What the requests of a transaction rest on: its jar has the cookie of the
\* session it has created, which is open and loaded when it must be.
Rests(t) ==
    /\ pc[t] \in InSession => OwnedBy(jar[t], t) /\ Open(jar[t])
    /\ pc[t] \in {"edit", "validate", "activate"} => LoadedIn(jar[t])
    /\ pc[t] \in InSession /\ sent[t] => carried[t] = jar[t]

\* Types, and what the steps of a transaction rest on.
TypeOK ==
    /\ config \in Configs /\ http \in New(config)
    /\ jar \in [Workers \cup {Shared} -> SessionIds \cup {None}]
    /\ pc \in [Workers -> Requests \cup {"done"}]
    /\ sent \in [Workers -> BOOLEAN]
    /\ carried \in [Workers -> SessionIds \cup {None}]
    /\ waiting \subseteq Workers
    /\ err \in [Workers -> Errors]
    /\ session \in [SessionIds -> SessionRecords \cup {None}]
    /\ active \in Configurations
    /\ faults \in 0 .. MaxFaults
    /\ \A t \in Transactions : Rests(t)

\* client.go: "sharing a jar between concurrent transactions would mix their
\* server-side state". The working copy of a transaction has its own edit and
\* what was active when it was loaded, and nothing of any other worker.
Isolation ==
    \A s \in SessionIds : \A t \in Transactions :
        OwnedBy(s, t) => session[s].work \subseteq session[s].base \cup {t}

\* A transaction's session is ended by nobody else, and its requests go to no
\* other: it is refused a session only if the Gateway opens none for it.
NeverRefused ==
    \A t \in Transactions :
        err[t] = "session" => \A s \in SessionIds : ~OwnedBy(s, t)

\* A step of one transaction changes no session of another worker, and what it
\* makes active is the running configuration with its own edit.
OwnEffects ==
    [][\A t \in Transactions : Step(t) =>
          /\ \A s \in SessionIds :
                (session[s] # None /\ ~OwnedBy(s, t)) => session'[s] = session[s]
          /\ active' \in {active, active \cup {t}}]_vars

\* docs/API.md: "complete HTTP timeout; default 30 seconds". Every call returns,
\* also when the Gateway falls silent, if the Config has a timeout or brings no
\* HTTP client of the caller's: transactions and low-level methods alike.
CallsReturn ==
    (config.timeout > 0 \/ config.httpClient = None) => \A w \in Workers : <>Returned(w)

=============================================================================
