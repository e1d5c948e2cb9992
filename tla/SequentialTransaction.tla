------------------------ MODULE SequentialTransaction ------------------------
(***************************************************************************)
(* What a ConfigurationTransaction promises to the goroutines that share   *)
(* it: every call takes effect in one step, as if the others did not run   *)
(* meanwhile. There are no requests and no mutex here.                     *)
(*                                                                         *)
(* managed_certificate.go: a staged call "is safe for concurrent           *)
(* goroutines using the same transaction".                                 *)
(***************************************************************************)
EXTENDS GatewayConfiguration

CONSTANTS
    Goroutines,
    CallsOf,   \* the calls each of them can make
    Loaded     \* the configurations the transaction can have loaded

VARIABLES
    work,     \* the working copy
    changed,  \* a stage has succeeded that wrote to it
    closed,   \* the transaction was committed or aborted
    active,   \* the running configuration
    call,     \* the call of each goroutine
    outcome   \* "idle", "pending", "ok" or "error"

vars == <<work, changed, closed, active, call, outcome>>

\* The IDs a plan can write: its own, or an unused one. Built-in ones are refused.
WritableIds(cfg, p) ==
    {i \in CertificateIds :
        i > 0 /\ (IF p.id = NoCertificate THEN ~Exists(cfg, i) ELSE i = p.id)}

\* The working copy with a plan carried out as a whole.
Whole(cfg, p) ==
    UNION {IF p.hosts = {} THEN {WriteIn(cfg, p, i)}
           ELSE {ConnectIn(WriteIn(cfg, p, i), i, v) : v \in p.hosts} :
             i \in WritableIds(cfg, p)}

\* What a stage that fails leaves in it: the certificate without its binding,
\* or everything, its answer being lost.
Remains(cfg, p) == {WriteIn(cfg, p, i) : i \in WritableIds(cfg, p)} \cup Whole(cfg, p)

Writes(cfg, j) == {p \in Plans(cfg, j) : p.write}

Init ==
    /\ work \in Loaded
    /\ active = work
    /\ changed = FALSE
    /\ closed = FALSE
    /\ call = [g \in Goroutines |-> None]
    /\ outcome = [g \in Goroutines |-> "idle"]

Call(g) ==
    /\ outcome[g] = "idle"
    /\ outcome' = [outcome EXCEPT ![g] = "pending"]
    /\ \E j \in CallsOf[g] : call' = [call EXCEPT ![g] = j]
    /\ UNCHANGED <<work, changed, closed, active>>

Returns(g, o) ==
    /\ outcome' = [outcome EXCEPT ![g] = o]
    /\ UNCHANGED call

StageOperations == {"sync", "leaf", "key", "create", "get"}

Calling(g, operations) == outcome[g] = "pending" /\ call[g].operation \in operations

\* A stage that returns an error does not mark the transaction as changed.
Stage(g) ==
    /\ Calling(g, StageOperations)
    /\ ~closed
    /\ \/ Returns(g, "ok") /\ Satisfied(work, call[g]) /\ UNCHANGED <<work, changed>>
       \/ /\ Returns(g, "ok")
          /\ \E p \in Writes(work, call[g]) : work' \in Whole(work, p)
          /\ changed' = TRUE
       \/ Returns(g, "error") /\ UNCHANGED <<work, changed>>
       \/ /\ Returns(g, "error")
          /\ \E p \in Writes(work, call[g]) : work' \in Remains(work, p)
          /\ UNCHANGED changed
    /\ UNCHANGED <<closed, active>>

\* A commit activates everything that was staged before it, or returns an
\* error, of which only that of the activation leaves the outcome open.
Commit(g) ==
    /\ Calling(g, {"commit"})
    /\ ~closed
    /\ closed' = TRUE
    /\ \/ Returns(g, "ok") /\ active' = IF changed THEN work ELSE active
       \/ Returns(g, "error") /\ active' \in {active} \cup {w \in {work} : changed}
    /\ UNCHANGED <<work, changed>>

Abort(g) ==
    /\ Calling(g, {"abort"})
    /\ ~closed
    /\ closed' = TRUE
    /\ Returns(g, "ok") \/ Returns(g, "error")
    /\ UNCHANGED <<work, changed, active>>

\* A transaction that is closed does nothing any more.
AfterClose(g) ==
    /\ closed
    /\ \/ Calling(g, {"abort"}) /\ Returns(g, "ok")
       \/ Calling(g, StageOperations \cup {"commit"}) /\ Returns(g, "error")
    /\ UNCHANGED <<work, changed, closed, active>>

Next == \E g \in Goroutines : Call(g) \/ Stage(g) \/ Commit(g) \/ Abort(g) \/ AfterClose(g)

Spec == Init /\ [][Next]_vars
=============================================================================
