-------------------------- MODULE SharedTransaction --------------------------
(***************************************************************************)
(* One ConfigurationTransaction that several goroutines use at a time: its *)
(* mutex t.mu, the flags changed and closed, and the REST session with the *)
(* working copy. The transaction has been started. Every action is one     *)
(* request with the local code up to the next one, so goroutines that are  *)
(* not kept apart by the mutex interleave between requests.                *)
(*                                                                         *)
(* All requests are made under the context the transaction was started     *)
(* with. One that is answered with an error may have taken effect. What    *)
(* other sessions do on the Gateway is modelled in ManagedLifecycle: here  *)
(* it is an activation that is refused.                                    *)
(***************************************************************************)
EXTENDS GatewayConfiguration

CONSTANTS
    Goroutines,
    CallsOf,    \* the calls each of them can make
    Loaded,     \* the configurations the transaction can have loaded
    FirstId,    \* the first ID the Gateway gives out
    MaxFaults   \* bound: failed or lost requests, cancellations

StageOperations == {"sync", "leaf", "key", "create", "get"}

Calls ==
    [operation : StageOperations \cup {"commit", "abort"}, target : Targets,
     bundle : Bundles, passphrase : Passphrases \cup {Empty}]

ASSUME SharedAssumption ==
    /\ None \notin Goroutines \cup PlanRecords
    /\ \A g \in Goroutines : CallsOf[g] \subseteq Calls
    /\ Loaded \subseteq Configurations
    /\ FirstId \in Nat \ {0}
    /\ MaxFaults \in Nat
    /\ \A cfg \in Loaded : \A i \in CertificateIds : i >= FirstId => ~Exists(cfg, i)

VARIABLES
    mu,         \* the goroutine that holds t.mu, or None
    pc,         \* where each goroutine is
    call,       \* its call
    plan,       \* what its stage writes, or None
    err,        \* the error it returns
    work,       \* the working copy
    nextId,     \* the next ID the Gateway gives out
    changed,    \* t.changed
    closed,     \* t.closed
    active,     \* the running configuration
    cancelled,  \* t.ctx is done
    faults,     \* history: how many requests failed so far
    settled     \* history: what the last goroutine with the mutex has left

vars == <<mu, pc, call, plan, err, work, nextId, changed, closed, active,
          cancelled, faults, settled>>

Steps == {"idle", "lock", "resolve", "write", "bind", "validate", "activate",
          "terminate", "done"}

RequestSteps == {"resolve", "write", "bind", "validate", "activate", "terminate"}

Errors == {"none", "closed", "arguments", "stage", "default-entity", "validate",
           "messages", "activate", "terminate"}

Snapshot == [work |-> work, changed |-> changed, closed |-> closed, active |-> active]

Init ==
    /\ work \in Loaded
    /\ active = work
    /\ mu = None
    /\ pc = [g \in Goroutines |-> "idle"]
    /\ call = [g \in Goroutines |-> None]
    /\ plan = [g \in Goroutines |-> None]
    /\ err = [g \in Goroutines |-> "none"]
    /\ nextId = FirstId
    /\ changed = FALSE
    /\ closed = FALSE
    /\ cancelled = FALSE
    /\ faults = 0
    /\ settled = Snapshot

(***************************************************************************)
(* The ways a request and a call end.                                      *)
(***************************************************************************)
Fault == faults < MaxFaults /\ faults' = faults + 1

Answered == ~cancelled /\ UNCHANGED faults

RequestFails == \/ cancelled /\ UNCHANGED faults
                \/ ~cancelled /\ Fault

\* The request took effect; the client sees an error.
AnswerLost == ~cancelled /\ Fault

Goto(g, step) == pc' = [pc EXCEPT ![g] = step]

\* Mutant: t.mu is unlocked by a call that succeeds, not deferred.
UnlocksOnSuccess(g, error) == mu' = IF error = "none" THEN None ELSE mu

\* defer t.mu.Unlock()
Unlocks(g, error) == mu' = None

Returns(g, error) ==
    /\ Goto(g, "done")
    /\ err' = [err EXCEPT ![g] = error]
    /\ Unlocks(g, error)

\* The last conjunct of an action that can unlock t.mu.
Settles == settled' = IF mu' = None THEN Snapshot' ELSE settled

\* Commit goes on to finish with what it has to return.
Finishing(g, error) ==
    /\ Goto(g, "terminate")
    /\ err' = [err EXCEPT ![g] = error]
    /\ UNCHANGED mu

Continues(g, step) == Goto(g, step) /\ UNCHANGED <<mu, err>>

(***************************************************************************)
(* Entering the transaction.                                               *)
(***************************************************************************)
Call(g) ==
    /\ pc[g] = "idle"
    /\ \E c \in CallsOf[g] : call' = [call EXCEPT ![g] = c]
    /\ Goto(g, "lock")
    /\ UNCHANGED <<mu, plan, err, work, nextId, changed, closed, active,
                   cancelled, faults, settled>>

\* Mutant: every call goes on at once.
NoMutex == TRUE

MutexIsFree == mu = None

\* Mutant: a stage does not look at t.closed.
OpenForStages(c) == closed => c.operation \in StageOperations

Open(c) == ~closed

FirstStep(c) ==
    CASE c.operation = "create" -> "write"
      [] c.operation = "commit" -> IF changed THEN "validate" ELSE "terminate"
      [] c.operation = "abort"  -> "terminate"
      [] OTHER                  -> "resolve"

Invalid(c) == c.operation \in StageOperations /\ ~ValidArguments(c)

\* t.mu.Lock() and what a call checks before its first request.
Enter(g) ==
    LET c == call[g]
    IN  /\ pc[g] = "lock"
        /\ MutexIsFree
        /\ \/ /\ ~Open(c)
              /\ Returns(g, IF c.operation = "abort" THEN "none" ELSE "closed")
              /\ UNCHANGED plan
           \/ Open(c) /\ Invalid(c) /\ Returns(g, "arguments") /\ UNCHANGED plan
           \/ /\ Open(c)
              /\ ~Invalid(c)
              /\ mu' = g
              /\ Goto(g, FirstStep(c))
              /\ plan' = IF c.operation = "create"
                         THEN [plan EXCEPT ![g] = Creation(c.bundle)] ELSE plan
              /\ UNCHANGED err
        /\ UNCHANGED <<call, work, nextId, changed, closed, active, cancelled, faults>>
        /\ Settles

(***************************************************************************)
(* Staging.                                                                *)
(***************************************************************************)
\* The reads of a stage, of which nothing is kept but the plan.
Resolve(g) ==
    LET c == call[g]
    IN  /\ pc[g] = "resolve"
        /\ \/ Answered /\ Satisfied(work, c) /\ Returns(g, "none") /\ UNCHANGED plan
           \/ /\ Answered
              /\ c.operation # "get"
              /\ \E p \in {q \in Plans(work, c) : q.write} :
                    plan' = [plan EXCEPT ![g] = p]
              /\ Continues(g, "write")
           \/ /\ Answered
              /\ IF c.operation = "get" THEN ~Readable(work, c) ELSE Plans(work, c) = {}
              /\ Returns(g, "stage")
              /\ UNCHANGED plan
           \/ RequestFails /\ Returns(g, "stage") /\ UNCHANGED plan
        /\ UNCHANGED <<call, work, nextId, changed, closed, active, cancelled>>
        /\ Settles

WrittenId(g) == IF plan[g].id = NoCertificate THEN nextId ELSE plan[g].id

\* POST or PATCH of the ssl-certificate resource takes effect.
Written(g, id) ==
    /\ work' = WriteIn(work, plan[g], id)
    /\ nextId' = IF plan[g].id = NoCertificate THEN nextId + 1 ELSE nextId
    /\ plan' = [plan EXCEPT ![g].id = id]

\* Mutant: CreateManagedCertificate does not set the flag.
ChangedBySync(g) == changed' = (changed \/ call[g].operation # "create")

\* t.changed = true, the last statement of a stage that wrote.
Changed(g) == changed' = TRUE

\* An answer that cannot be decoded is one that was lost.
Write(g) ==
    LET id == WrittenId(g)
    IN  /\ pc[g] = "write"
        /\ id \in CertificateIds
        /\ \/ /\ Answered /\ id > 0 /\ Written(g, id)
              /\ \/ plan[g].hosts # {} /\ Continues(g, "bind") /\ UNCHANGED changed
                 \/ plan[g].hosts = {} /\ Changed(g) /\ Returns(g, "none")
           \/ /\ Answered /\ id < 0
              /\ Returns(g, "default-entity")
              /\ UNCHANGED <<work, nextId, plan, changed>>
           \/ /\ RequestFails
              /\ Returns(g, "stage")
              /\ UNCHANGED <<work, nextId, plan, changed>>
           \/ /\ AnswerLost /\ id > 0 /\ Written(g, id)
              /\ Returns(g, "stage")
              /\ UNCHANGED changed
        /\ UNCHANGED <<call, closed, active, cancelled>>
        /\ Settles

Bind(g) ==
    /\ pc[g] = "bind"
    /\ \/ /\ Answered
          /\ \E v \in plan[g].hosts : work' = ConnectIn(work, plan[g].id, v)
          /\ Changed(g)
          /\ Returns(g, "none")
       \/ /\ AnswerLost
          /\ \E v \in plan[g].hosts : work' = ConnectIn(work, plan[g].id, v)
          /\ Returns(g, "stage")
          /\ UNCHANGED changed
       \/ RequestFails /\ Returns(g, "stage") /\ UNCHANGED <<work, changed>>
    /\ UNCHANGED <<call, plan, nextId, closed, active, cancelled>>
    /\ Settles

(***************************************************************************)
(* Committing and aborting.                                                *)
(***************************************************************************)
ValidateConfiguration(g) ==
    /\ pc[g] = "validate"
    /\ \/ Answered /\ Continues(g, "activate")
       \/ Answered /\ Finishing(g, "messages")
       \/ RequestFails /\ Finishing(g, "validate")
    /\ UNCHANGED <<call, plan, work, nextId, changed, closed, active, cancelled>>
    /\ Settles

\* The Gateway activates the working copy, or refuses: it is outdated.
Activate(g) ==
    /\ pc[g] = "activate"
    /\ \/ Answered /\ active' = work /\ Finishing(g, "none")
       \/ Answered /\ Finishing(g, "activate") /\ UNCHANGED active
       \/ RequestFails /\ Finishing(g, "activate") /\ UNCHANGED active
       \/ AnswerLost /\ active' = work /\ Finishing(g, "activate")
    /\ UNCHANGED <<call, plan, work, nextId, changed, closed, cancelled>>
    /\ Settles

\* Mutant: the transaction stays open if its session could not be terminated.
ClosesIfTerminated(terminated) == closed' = terminated

Closes(terminated) == closed' = TRUE

\* finish: a context that is done is replaced by one of its own.
Finish(g) ==
    /\ pc[g] = "terminate"
    /\ \/ UNCHANGED faults /\ Closes(TRUE) /\ Returns(g, err[g])
       \/ /\ Fault
          /\ Closes(FALSE)
          /\ Returns(g, IF err[g] = "none" THEN "terminate" ELSE err[g])
    /\ UNCHANGED <<call, plan, work, nextId, changed, active, cancelled>>
    /\ Settles

Cancel ==
    /\ ~cancelled
    /\ Fault
    /\ cancelled' = TRUE
    /\ UNCHANGED <<mu, pc, call, plan, err, work, nextId, changed, closed, active, settled>>

Step(g) ==
    \/ Resolve(g) \/ Write(g) \/ Bind(g)
    \/ ValidateConfiguration(g) \/ Activate(g) \/ Finish(g)

Terminating ==
    /\ \A g \in Goroutines : pc[g] = "done"
    /\ UNCHANGED vars

Next ==
    \/ \E g \in Goroutines : Call(g) \/ Enter(g) \/ Step(g)
    \/ Cancel
    \/ Terminating

Spec == Init /\ [][Next]_vars

\* Every request ends, at the HTTP client's deadline if not before; sync.Mutex
\* starves no waiter.
Fairness == \A g \in Goroutines : WF_vars(Step(g)) /\ SF_vars(Enter(g))

FairSpec == Spec /\ Fairness

(***************************************************************************)
(* Correctness.                                                            *)
(***************************************************************************)
PlanOrNone == PlanRecords \cup {None}

\* What the requests of a call rest on: what it writes is valid, the resource
\* it patches or binds is there.
Rests(g) ==
    /\ pc[g] # "idle" => call[g] \in Calls
    /\ pc[g] \in RequestSteps => ~Invalid(call[g])
    /\ pc[g] \in {"write", "bind"} => plan[g] \in PlanRecords /\ ValidBundle(plan[g].bundle)
    /\ pc[g] = "write" => plan[g].id = NoCertificate \/ Exists(work, plan[g].id)
    /\ pc[g] = "bind" => Exists(work, plan[g].id) /\ plan[g].hosts # {}

\* IDs to come are not in use.
Fresh == \A i \in CertificateIds : i >= nextId => ~Exists(work, i)

\* Types, and what the steps of a call rest on.
TypeOK ==
    /\ mu \in Goroutines \cup {None}
    /\ pc \in [Goroutines -> Steps]
    /\ call \in [Goroutines -> Calls \cup {None}]
    /\ plan \in [Goroutines -> PlanOrNone]
    /\ err \in [Goroutines -> Errors]
    /\ work \in Configurations
    /\ nextId \in Nat \ {0}
    /\ changed \in BOOLEAN /\ closed \in BOOLEAN /\ cancelled \in BOOLEAN
    /\ active \in Configurations
    /\ faults \in 0 .. MaxFaults
    /\ settled \in [work : Configurations, changed : BOOLEAN, closed : BOOLEAN,
                    active : Configurations]
    /\ \A g \in Goroutines : Rests(g)
    /\ Fresh

\* t.mu: at most one goroutine is between its first and its last request, and
\* the session gets no request after it was terminated, whichever goroutine
\* commits or aborts while others have still something to stage.
OneAtATime ==
    \A g \in Goroutines :
        pc[g] \in RequestSteps => /\ mu = g
                                  /\ ~closed

Succeeded(g) == pc[g] = "done" /\ err[g] = "none"

Wrote(g) == Succeeded(g) /\ plan[g] # None

\* Of several goroutines that synchronize one virtual host without a
\* certificate of its own, one creates and binds it; the others find it there.
BoundOnce ==
    \A g, h \in Goroutines :
        (g # h /\ Wrote(g) /\ Wrote(h)) => plan[g].hosts \cap plan[h].hosts = {}

\* What a stage has reported as staged is active once a commit has succeeded:
\* its resource holds its certificate, or that of another call's later write to
\* the same resource, and its virtual host is bound to it.
StagedIsActive ==
    \A g, c \in Goroutines :
        (Wrote(g) /\ Succeeded(c) /\ call[c].operation = "commit") =>
            /\ Exists(active, plan[g].id)
            /\ \E h \in Goroutines :
                  /\ plan[h] # None
                  /\ plan[h].id = plan[g].id
                  /\ active.certificates[plan[g].id].certificate = plan[h].bundle.certificate
            /\ \A v \in plan[g].hosts : active.bound[v] = plan[g].id

\* Every call returns, whatever fails and whoever is cancelled.
CallsReturn == \A g \in Goroutines : (pc[g] # "idle") ~> (pc[g] = "done")

\* What a goroutine knows of its call.
Outcome(g) ==
    IF pc[g] = "idle" THEN "idle"
    ELSE IF pc[g] # "done" THEN "pending"
    ELSE IF err[g] = "none" THEN "ok" ELSE "error"

Sequential ==
    INSTANCE SequentialTransaction WITH
        work    <- settled.work,
        changed <- settled.changed,
        closed  <- settled.closed,
        active  <- settled.active,
        outcome <- [g \in Goroutines |-> Outcome(g)]

\* managed_certificate.go: a stage "is safe for concurrent goroutines using the
\* same transaction". The calls take effect one after the other, each in the
\* step in which it unlocks t.mu.
CallsAreSequential == Sequential!Spec
=============================================================================
