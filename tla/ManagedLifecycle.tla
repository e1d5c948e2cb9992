-------------------------- MODULE ManagedLifecycle --------------------------
(***************************************************************************)
(* Managed certificate calls and configuration transactions of             *)
(* pkg/airlock against one Airlock Gateway.                                *)
(*                                                                         *)
(* A transaction is one ConfigurationTransaction with the REST session it  *)
(* owns. Most are the inside of one managed call (SyncCertificate,         *)
(* SyncLeafCertificate, SyncKey, CreateManagedCertificate, and             *)
(* GetManagedCertificate, which never commits); those in Owned belong to a *)
(* caller that stages, commits and aborts by itself. Every action is one   *)
(* HTTP request with the local code up to the next one, so other           *)
(* transactions, the Configuration Center and cancellation interleave      *)
(* between requests.                                                       *)
(*                                                                         *)
(* A request is answered, fails before it takes effect, or takes effect    *)
(* and its answer is lost. An activation whose answer is lost takes effect *)
(* any time while its session is open.                                     *)
(***************************************************************************)
EXTENDS GatewayConfiguration

CONSTANTS
    Transactions,
    Owned,                  \* the transactions their callers drive
    Clients,                \* the Client values: each has one managedMu
    ClientOf,               \* the client a transaction is started from
    JobsOf,                 \* the calls a transaction can be used for
    CommitPolicies,         \* the policies an owner commits with
    InitialConfigurations,  \* what is active at the start
    AdminAttributes,        \* what the Configuration Center writes
    FirstId,                \* the first ID the Gateway gives out
    MaxStages,              \* bound: stages of an owned transaction
    MaxFaults,              \* bound: failed or lost requests, cancellations
    MaxRevisions            \* bound: activations by the Configuration Center

Jobs == UNION {JobsOf[s] : s \in Transactions}

JobRecords ==
    [operation : {"sync", "leaf", "key", "create", "get"}, target : Targets,
     bundle : Bundles, passphrase : Passphrases \cup {Empty},
     policy : ConflictPolicies]

ASSUME LifecycleAssumption ==
    /\ Owned \subseteq Transactions
    /\ ClientOf \in [Transactions -> Clients]
    /\ None \notin Transactions
    /\ \A s \in Transactions : JobsOf[s] \subseteq JobRecords
    /\ CommitPolicies \subseteq ConflictPolicies
    /\ InitialConfigurations \subseteq Configurations
    /\ AdminAttributes \subseteq Attributes
    /\ FirstId \in Nat \ {0}
    /\ MaxStages \in Nat /\ MaxFaults \in Nat

\* The Gateway and the Configuration Center hold nothing that cannot be served.
ASSUME SoundAssumption ==
    /\ \A cfg \in InitialConfigurations : SoundConfiguration(cfg)
    /\ \A a \in AdminAttributes : Sound(a)

\* The Gateway gives out IDs that no resource has and no virtual host refers to.
ASSUME FreshAssumption ==
    \A c \in InitialConfigurations :
        /\ \A i \in CertificateIds : i >= FirstId => ~Exists(c, i)
        /\ \A v \in VirtualHosts : c.bound[v] < FirstId

VARIABLES
    log,      \* the configurations that were active, the last one now
    nextId,   \* the next resource ID the Gateway gives out
    mutex,    \* managedMu of each client: its holder, or None
    call,     \* the client side of each transaction
    session,  \* its REST session on the Gateway, with the working copy
    touched,  \* history: the resources its requests edited
    cut,      \* history: transactions whose create or terminate request failed
    faults    \* history: how many requests failed so far

vars == <<log, nextId, mutex, call, session, touched, cut, faults>>

Managed == Transactions \ Owned

Active == log[Len(log)].configuration

Revision(by, cfg, policy, validated) ==
    [by |-> by, configuration |-> cfg, policy |-> policy, validated |-> validated]

Steps == {"idle", "lock", "version", "create", "load", "abandon", "ready",
          "resolve", "write", "bind", "decode", "validate", "activate",
          "finish", "done"}

StageSteps == {"resolve", "write", "bind", "decode"}

LoadedSteps == StageSteps \cup {"ready", "validate", "activate", "finish"}

Errors == {"none", "arguments", "version", "create", "load", "stage",
           "default-entity", "validate", "messages", "policy", "activate",
           "conflict", "terminate"}

NoCall ==
    [pc |-> "idle", job |-> None, plan |-> None, policy |-> "", stages |-> 0,
     cancelled |-> FALSE, changed |-> FALSE, closed |-> FALSE, err |-> "none"]

Init ==
    /\ \E c \in InitialConfigurations :
          /\ log = <<Revision(None, c, "", TRUE)>>
          /\ session = [s \in Transactions |->
                [state |-> "none", base |-> 0, work |-> c,
                 validated |-> FALSE, late |-> FALSE]]
    /\ nextId = FirstId
    /\ mutex = [c \in Clients |-> None]
    /\ call = [s \in Transactions |-> NoCall]
    /\ touched = [s \in Transactions |-> [certificates |-> {}, hosts |-> {}]]
    /\ cut = {}
    /\ faults = 0

(***************************************************************************)
(* The ways a request and a call end.                                      *)
(***************************************************************************)
Fault == faults < MaxFaults /\ faults' = faults + 1

\* A request under the caller's context that has no effect: the context is
\* done, or the transport or the Gateway fails it.
RequestFails(s) ==
    \/ call[s].cancelled /\ UNCHANGED faults
    \/ ~call[s].cancelled /\ Fault

Answered(s) == ~call[s].cancelled /\ UNCHANGED faults

\* The request took effect; the client sees an error.
AnswerLost(s) == ~call[s].cancelled /\ Fault

Goto(s, step) == call' = [call EXCEPT ![s].pc = step]

\* Mutant: the mutex is unlocked at the end of the call, not deferred.
ReleasedOnSuccess(s) ==
    [c \in Clients |-> IF mutex[c] = s /\ call[s].err = "none" THEN None ELSE mutex[c]]

\* defer managedMu.Unlock()
Released(s) == [c \in Clients |-> IF mutex[c] = s THEN None ELSE mutex[c]]

Return(s, error) ==
    /\ call' = [call EXCEPT ![s].pc = "done", ![s].err = error]
    /\ mutex' = Released(s)

\* CommitWithOptions and Abort both end in finish.
Finishing(s, error) ==
    call' = [call EXCEPT ![s].pc = "finish", ![s].err = error]

\* Mutant: the transaction is marked as changed before a stage is complete,
\* and a stage's error is joined to the commit's instead of aborting.
StageCommitsAnyway(s, error) ==
    IF s \in Owned THEN Goto(s, "ready")
    ELSE call' = [call EXCEPT ![s].pc = "validate", ![s].err = error]

\* A stage that returns an error: a managed call aborts its transaction, an
\* owner has it back and decides what to do.
StageFails(s, error) ==
    IF s \in Owned THEN Goto(s, "ready") ELSE Finishing(s, error)

\* A stage that returns a result: a managed call goes on to commit.
StageSucceeds(s, changed) ==
    call' = [call EXCEPT
        ![s].changed = @ \/ changed,
        ![s].pc = IF s \in Owned THEN "ready"
                  ELSE IF call[s].changed \/ changed THEN "validate" ELSE "finish"]

(***************************************************************************)
(* Starting a call: arguments, managedMu, the session.                     *)
(***************************************************************************)
ValidJobs == {j \in Jobs : ValidArguments(j)}

Call(s) ==
    /\ s \in Managed
    /\ call[s].pc = "idle"
    /\ \E j \in JobsOf[s] :
          \/ /\ ValidArguments(j)
             /\ call' = [call EXCEPT
                   ![s].job = j, ![s].policy = j.policy,
                   ![s].pc = IF j.operation = "get" THEN "version" ELSE "lock"]
          \/ /\ ~ValidArguments(j)
             /\ call' = [call EXCEPT
                   ![s].job = j, ![s].policy = j.policy,
                   ![s].pc = "done", ![s].err = "arguments"]
    /\ UNCHANGED <<log, nextId, mutex, session, touched, cut, faults>>

Start(s) ==
    /\ s \in Owned
    /\ call[s].pc = "idle"
    /\ Goto(s, "version")
    /\ UNCHANGED <<log, nextId, mutex, session, touched, cut, faults>>

\* Mutant: every session has a mutex of its own.
OwnMutex(s) == TRUE

MutexIsFree(s) == mutex[ClientOf[s]] = None

Acquire(s) ==
    /\ call[s].pc = "lock"
    /\ MutexIsFree(s)
    /\ mutex' = [mutex EXCEPT ![ClientOf[s]] = s]
    /\ Goto(s, "version")
    /\ UNCHANGED <<log, nextId, session, touched, cut, faults>>

\* An unsupported major version fails like the request.
VerifyGatewayVersion(s) ==
    /\ call[s].pc = "version"
    /\ \/ Answered(s) /\ Goto(s, "create") /\ UNCHANGED mutex
       \/ RequestFails(s) /\ Return(s, "version")
    /\ UNCHANGED <<log, nextId, session, touched, cut>>

CreateSession(s) ==
    /\ call[s].pc = "create"
    /\ \/ /\ Answered(s)
          /\ session' = [session EXCEPT ![s].state = "open"]
          /\ Goto(s, "load")
          /\ UNCHANGED <<mutex, cut>>
       \/ /\ RequestFails(s)
          /\ Return(s, "create")
          /\ UNCHANGED <<session, cut>>
       \/ /\ AnswerLost(s)
          /\ session' = [session EXCEPT ![s].state = "open"]
          /\ cut' = cut \cup {s}
          /\ Return(s, "create")
    /\ UNCHANGED <<log, nextId, touched>>

LoadActiveConfiguration(s) ==
    /\ call[s].pc = "load"
    /\ \/ /\ Answered(s)
          /\ session' = [session EXCEPT ![s].base = Len(log), ![s].work = Active]
          /\ Goto(s, IF s \in Owned THEN "ready" ELSE "resolve")
       \/ /\ RequestFails(s)
          /\ call' = [call EXCEPT ![s].pc = "abandon", ![s].err = "load"]
          /\ UNCHANGED session
    /\ UNCHANGED <<log, nextId, mutex, touched, cut>>

(***************************************************************************)
(* Terminating the session. A context that is done is replaced by one of   *)
(* its own, so only the transport or the Gateway can fail this request.    *)
(***************************************************************************)
Terminated(s) ==
    session' = [session EXCEPT ![s].state = "closed", ![s].late = FALSE]

\* Mutant: the session is terminated under the caller's context.
TerminationFailsWithContext(s) ==
    \/ call[s].cancelled /\ UNCHANGED <<cut, faults>>
    \/ Fault /\ cut' = cut \cup {s}

TerminationFails(s) == Fault /\ cut' = cut \cup {s}

\* The load failed: terminate as well as possible, return the load's error.
Abandon(s) ==
    /\ call[s].pc = "abandon"
    /\ \/ Terminated(s) /\ UNCHANGED <<cut, faults>>
       \/ TerminationFails(s) /\ (Terminated(s) \/ UNCHANGED session)
    /\ Return(s, call[s].err)
    /\ UNCHANGED <<log, nextId, touched>>

\* Mutant: a transaction that ends with an error can be used again.
ClosesOnSuccess(s, error) ==
    /\ call' = [call EXCEPT
          ![s].closed = (error = "none"), ![s].err = error,
          ![s].pc = IF s \in Owned THEN "ready" ELSE "done"]
    /\ mutex' = Released(s)

\* The transaction is closed even if its session could not be terminated.
Closes(s, error) ==
    /\ call' = [call EXCEPT
          ![s].closed = TRUE, ![s].err = error,
          ![s].pc = IF s \in Owned THEN "ready" ELSE "done"]
    /\ mutex' = Released(s)

Finish(s) ==
    /\ call[s].pc = "finish"
    /\ \/ /\ Terminated(s)
          /\ Closes(s, call[s].err)
          /\ UNCHANGED <<cut, faults>>
       \/ /\ TerminationFails(s)
          /\ Terminated(s) \/ UNCHANGED session
          /\ Closes(s, IF call[s].err = "none" THEN "terminate" ELSE call[s].err)
    /\ UNCHANGED <<log, nextId, touched>>

(***************************************************************************)
(* Staging one job in the working copy.                                    *)
(***************************************************************************)
Stage(s) ==
    /\ s \in Owned
    /\ call[s].pc = "ready"
    /\ ~call[s].closed
    /\ call[s].stages < MaxStages
    /\ \E j \in {k \in JobsOf[s] : ValidArguments(k)} :
          call' = [call EXCEPT ![s].job = j, ![s].pc = "resolve",
                               ![s].stages = @ + 1]
    /\ UNCHANGED <<log, nextId, mutex, session, touched, cut, faults>>

\* The reads of a stage see one working copy that nobody else writes. A get has
\* nothing to commit: a managed one ends with its reads, an owner goes on.
Resolve(s) ==
    LET job == call[s].job  cfg == session[s].work
    IN  /\ call[s].pc = "resolve"
        /\ \/ /\ Answered(s)
              /\ job.operation = "get"
              /\ IF Readable(cfg, job) THEN Goto(s, IF s \in Owned THEN "ready" ELSE "finish")
                 ELSE StageFails(s, "stage")
           \/ /\ Answered(s)
              /\ job.operation # "get"
              /\ Plans(cfg, job) = {}
              /\ StageFails(s, "stage")
           \/ /\ Answered(s)
              /\ job.operation # "get"
              /\ \E p \in Plans(cfg, job) :
                    \/ ~p.write /\ StageSucceeds(s, FALSE)
                    \/ /\ p.write
                       /\ call' = [call EXCEPT ![s].plan = p, ![s].pc = "write"]
           \/ RequestFails(s) /\ StageFails(s, "stage")
        /\ UNCHANGED <<log, nextId, mutex, session, touched, cut>>

\* Mutant: the passphrase is kept back with the caller.
WrittenWithoutPassphrase(s, id) ==
    LET p == call[s].plan
        a == [AttributesFromBundle(p.bundle) EXCEPT !.passphrase = Empty]
    IN  /\ session' = [session EXCEPT
              ![s].validated = FALSE,
              ![s].work = IF p.id = NoCertificate THEN CreateIn(@, id, a)
                          ELSE PatchIn(@, id, a)]
        /\ nextId' = IF p.id = NoCertificate THEN nextId + 1 ELSE nextId
        /\ touched' = [touched EXCEPT ![s].certificates = @ \cup {id}]

\* POST or PATCH of the ssl-certificate resource takes effect.
Written(s, id) ==
    LET p == call[s].plan  a == AttributesFromBundle(p.bundle)
    IN  /\ session' = [session EXCEPT
              ![s].validated = FALSE,
              ![s].work = IF p.id = NoCertificate THEN CreateIn(@, id, a)
                          ELSE PatchIn(@, id, a)]
        /\ nextId' = IF p.id = NoCertificate THEN nextId + 1 ELSE nextId
        /\ touched' = [touched EXCEPT ![s].certificates = @ \cup {id}]

WrittenId(s) ==
    IF call[s].plan.id = NoCertificate THEN nextId ELSE call[s].plan.id

Write(s) ==
    LET p == call[s].plan  id == WrittenId(s)
    IN  /\ call[s].pc = "write"
        /\ id \in CertificateIds
        /\ \/ /\ Answered(s)
              /\ id > 0
              /\ Written(s, id)
              /\ call' = [call EXCEPT
                    ![s].plan.id = id,
                    ![s].pc = IF p.hosts = {} THEN "decode" ELSE "bind"]
           \/ /\ Answered(s)
              /\ id < 0
              /\ StageFails(s, "default-entity")
              /\ UNCHANGED <<session, nextId, touched>>
           \/ /\ RequestFails(s)
              /\ StageFails(s, "stage")
              /\ UNCHANGED <<session, nextId, touched>>
           \/ /\ AnswerLost(s)
              /\ id > 0
              /\ Written(s, id)
              /\ StageFails(s, "stage")
        /\ UNCHANGED <<log, mutex, cut>>

\* The virtual host is connected to the certificate in the working copy.
Connected(s, v) ==
    /\ session' = [session EXCEPT
          ![s].validated = FALSE,
          ![s].work = ConnectIn(@, call[s].plan.id, v)]
    /\ touched' = [touched EXCEPT ![s].hosts = @ \cup {v}]

Bind(s) ==
    /\ call[s].pc = "bind"
    /\ \E v \in call[s].plan.hosts :
          \/ Answered(s) /\ Connected(s, v) /\ Goto(s, "decode")
          \/ /\ RequestFails(s)
             /\ StageFails(s, "stage")
             /\ UNCHANGED <<session, touched>>
          \/ AnswerLost(s) /\ Connected(s, v) /\ StageFails(s, "stage")
    /\ UNCHANGED <<log, nextId, mutex, cut>>

\* The answer to the write is decoded last; only then is the transaction
\* marked as changed. An answer that cannot be decoded fails the stage.
Decode(s) ==
    /\ call[s].pc = "decode"
    /\ \/ StageSucceeds(s, TRUE) /\ UNCHANGED faults
       \/ Fault /\ StageFails(s, "stage")
    /\ UNCHANGED <<log, nextId, mutex, session, touched, cut>>

(***************************************************************************)
(* Committing.                                                             *)
(***************************************************************************)
CommitWithOptions(s) ==
    /\ s \in Owned
    /\ call[s].pc = "ready"
    /\ \/ /\ ~call[s].closed
          /\ \E policy \in CommitPolicies :
                call' = [call EXCEPT
                    ![s].policy = policy, ![s].err = "none",
                    ![s].pc = IF call[s].changed THEN "validate" ELSE "finish"]
       \/ /\ call[s].closed
          /\ call' = [call EXCEPT ![s].pc = "done"]
    /\ UNCHANGED <<log, nextId, mutex, session, touched, cut, faults>>

Abort(s) ==
    /\ s \in Owned
    /\ call[s].pc = "ready"
    /\ ~call[s].closed
    /\ Finishing(s, "none")
    /\ UNCHANGED <<log, nextId, mutex, session, touched, cut, faults>>

\* Mutant: messages of severity ERROR are not an error of the commit.
MessagesIgnored(s) == Goto(s, "activate")

MessagesReported(s) == Finishing(s, "messages")

ValidateConfiguration(s) ==
    /\ call[s].pc = "validate"
    /\ \/ /\ Answered(s)
          /\ session' = [session EXCEPT ![s].validated = TRUE]
          /\ Goto(s, "activate")
       \/ Answered(s) /\ MessagesReported(s) /\ UNCHANGED session
       \/ RequestFails(s) /\ Finishing(s, "validate") /\ UNCHANGED session
    /\ UNCHANGED <<log, nextId, mutex, touched, cut>>

\* The configurations the Gateway can make active for s: none on a conflict.
Activatable(s) ==
    UNION {Activated(o, session[s].base # Len(log), log[session[s].base].configuration,
                     session[s].work, Active) : o \in RequestOptions(call[s].policy)}

Activates(s) ==
    \E cfg \in Activatable(s) :
        log' = Append(log, Revision(s, cfg, call[s].policy,
                                    session[s].validated /\ cfg = session[s].work))

ActivateConfigurationWithOptions(s) ==
    /\ call[s].pc = "activate"
    /\ \/ /\ RequestOptions(call[s].policy) = {}
          /\ Finishing(s, "policy")
          /\ UNCHANGED <<log, session, faults>>
       \/ /\ Answered(s)
          /\ Activates(s)
          /\ Goto(s, "finish")
          /\ UNCHANGED session
       \/ /\ Answered(s)
          /\ RequestOptions(call[s].policy) # {}
          /\ Activatable(s) = {}
          /\ Finishing(s, "conflict")
          /\ UNCHANGED <<log, session>>
       \/ /\ RequestOptions(call[s].policy) # {}
          /\ RequestFails(s)
          /\ Finishing(s, "activate")
          /\ UNCHANGED <<log, session>>
       \/ /\ RequestOptions(call[s].policy) # {}
          /\ AnswerLost(s)
          /\ session' = [session EXCEPT ![s].late = TRUE]
          /\ Finishing(s, "activate")
          /\ UNCHANGED log
    /\ UNCHANGED <<nextId, mutex, touched, cut>>

(***************************************************************************)
(* The environment.                                                        *)
(***************************************************************************)
\* The Gateway gets to an activation whose client has given up on it.
GatewayActivates(s) ==
    /\ session[s].late
    /\ \/ Activates(s)
       \/ Activatable(s) = {} /\ UNCHANGED log
    /\ session' = [session EXCEPT ![s].late = FALSE]
    /\ UNCHANGED <<nextId, mutex, call, touched, cut, faults>>

Cancel(s) ==
    /\ call[s].pc \notin {"idle", "done"}
    /\ ~call[s].cancelled
    /\ Fault
    /\ call' = [call EXCEPT ![s].cancelled = TRUE]
    /\ UNCHANGED <<log, nextId, mutex, session, touched, cut>>

\* The Configuration Center, or another program, edits and activates.
AdministratorActivates ==
    /\ Len(log) < MaxRevisions
    /\ \E cfg \in Edits(Active, AdminAttributes) :
          /\ cfg # Active
          /\ log' = Append(log, Revision(None, cfg, "", TRUE))
    /\ UNCHANGED <<nextId, mutex, call, session, touched, cut, faults>>

\* One step of a transaction towards its end.
Step(s) ==
    \/ VerifyGatewayVersion(s) \/ CreateSession(s) \/ LoadActiveConfiguration(s)
    \/ Abandon(s) \/ Resolve(s) \/ Write(s) \/ Bind(s) \/ Decode(s)
    \/ ValidateConfiguration(s) \/ ActivateConfigurationWithOptions(s) \/ Finish(s)

\* Everything has returned; what the Gateway still has to do it may not do.
Terminating ==
    /\ \A s \in Transactions : call[s].pc = "done"
    /\ UNCHANGED vars

Next ==
    \/ \E s \in Transactions :
          \/ Call(s) \/ Start(s) \/ Acquire(s) \/ Step(s)
          \/ Stage(s) \/ CommitWithOptions(s) \/ Abort(s)
          \/ GatewayActivates(s) \/ Cancel(s)
    \/ AdministratorActivates
    \/ Terminating

Spec == Init /\ [][Next]_vars

\* The HTTP client gives every request a deadline, so a transaction that has
\* taken managedMu, and one whose owner has called it, takes its next step;
\* sync.Mutex starves no waiter.
Fairness ==
    \A s \in Transactions : WF_vars(Step(s)) /\ SF_vars(Acquire(s))

FairSpec == Spec /\ Fairness

(***************************************************************************)
(* Correctness.                                                            *)
(***************************************************************************)
CallRecords ==
    [pc : Steps, job : Jobs \cup {None}, plan : PlanRecords \cup {None},
     policy : ConflictPolicies, stages : 0 .. MaxStages, cancelled : BOOLEAN,
     changed : BOOLEAN, closed : BOOLEAN, err : Errors]

SessionRecords ==
    [state : {"none", "open", "closed"}, base : Nat, work : Configurations,
     validated : BOOLEAN, late : BOOLEAN]

Revisions ==
    [by : Transactions \cup {None}, configuration : Configurations,
     policy : ConflictPolicies, validated : BOOLEAN]

\* What the steps of a transaction with call c and session r rest on, n being
\* the number of revisions: the session was loaded from one of them before
\* anything is staged, validated or activated in it, a step has the valid job
\* and the valid plan it needs, and what is patched is there.
Consistent(s, c, r, n) ==
    /\ r.base <= n
    /\ r.late => r.base > 0
    /\ c.pc \in LoadedSteps => r.base > 0
    /\ c.pc \in StageSteps => c.job \in ValidJobs
    /\ s \in Managed /\ c.pc \notin {"idle", "done"} => c.job \in ValidJobs
    /\ c.pc \in {"write", "bind"} => c.plan \in PlanRecords /\ ValidBundle(c.plan.bundle)
    /\ c.pc = "write" => c.plan.id = NoCertificate \/ Exists(r.work, c.plan.id)

\* Types, and the consistency of every transaction.
TypeOK ==
    /\ log \in Seq(Revisions) \ {<< >>}
    /\ nextId \in Nat \ {0}
    /\ mutex \in [Clients -> Transactions \cup {None}]
    /\ call \in [Transactions -> CallRecords]
    /\ session \in [Transactions -> SessionRecords]
    /\ touched \in [Transactions -> [certificates : SUBSET CertificateIds,
                                     hosts : SUBSET VirtualHosts]]
    /\ cut \in SUBSET Transactions
    /\ faults \in 0 .. MaxFaults
    /\ \A s \in Transactions : Consistent(s, call[s], session[s], Len(log))

ActivatedBy(s) == {k \in 1 .. Len(log) : log[k].by = s}

Returned(s) == call[s].pc = "done"

Succeeded(s) == Returned(s) /\ call[s].err = "none"

\* config.go, RejectConcurrentChanges and MergeNonConflictingChanges: without
\* the overwrite policy an activation changes only what the transaction itself
\* wrote; every other certificate and binding stays as the activation before
\* it, whoever made that one, has left it.
NoLostUpdate ==
    \A k \in 2 .. Len(log) :
        LET s == log[k].by  old == log[k - 1].configuration  new == log[k].configuration
        IN  (s \in Transactions /\ log[k].policy # "overwrite") =>
                /\ \A i \in CertificateIds \ touched[s].certificates :
                      new.certificates[i] = old.certificates[i]
                /\ \A v \in VirtualHosts \ touched[s].hosts :
                      new.bound[v] = old.bound[v]

\* The resource `id' of cfg is what the job asks for: the bundle, or the new
\* half together with everything else that the target selected in `base'. A
\* call that only reads asks for nothing that could be installed.
Holds(cfg, id, base, job) ==
    LET new     == cfg.certificates[id]
        old     == base.certificates[CHOOSE i \in SelectedIds(base, job.target) : TRUE]
        rest(a) == <<a.certificateChain, a.rootCaCertificate, a.certType>>
        b       == job.bundle
    IN  /\ Exists(cfg, id)
        /\ CASE job.operation \in {"sync", "create"} ->
                  /\ new.certificate = b.certificate /\ new.privateKey.key = b.key.pem.key
                  /\ rest(new) = <<b.chain, b.rootCA, b.type>>
             [] job.operation = "leaf" ->
                  /\ new.certificate = b.certificate
                  /\ new.privateKey = old.privateKey /\ rest(new) = rest(old)
             [] job.operation = "key" ->
                  /\ new.privateKey.key = b.key.pem.key
                  /\ new.certificate = old.certificate /\ rest(new) = rest(old)
             [] job.operation = "get" -> FALSE

Installed(cfg, s) ==
    LET job == call[s].job
    IN  \E id \in IF job.operation = "create" THEN CertificateIds
                  ELSE SelectedIds(cfg, job.target) :
            Holds(cfg, id, log[session[s].base].configuration, job)

\* Before revision k, somebody else has bound the target's virtual host to
\* another certificate than the one s has found there.
Rebound(s, k) ==
    \E j \in session[s].base + 1 .. k :
        /\ log[j].by # s
        /\ SelectedIds(log[j].configuration, call[s].job.target)
              # SelectedIds(log[j - 1].configuration, call[s].job.target)

\* In revision k the target has what s was called for. A merge changes no
\* binding that s did not write: a virtual host that was bound to something
\* else meanwhile keeps that, but nothing else excuses s.
InstalledIn(s, k) ==
    \/ Installed(log[k].configuration, s)
    \/ call[s].policy = "merge" /\ Rebound(s, k)

\* managed_certificate.go, the managed calls: what one of them activates is its
\* whole change, certificate, key and binding, and never a part of it.
AllOrNothing == \A s \in Managed : \A k \in ActivatedBy(s) : InstalledIn(s, k)

\* A call that returns no error has its certificate in a configuration that
\* was active since it loaded its own; it reports a change exactly if it
\* activated one.
SuccessIsInstalled ==
    \A s \in Managed :
        (Succeeded(s) /\ call[s].job.operation # "get") =>
            /\ call[s].changed <=> ActivatedBy(s) # {}
            /\ \E k \in session[s].base .. Len(log) : InstalledIn(s, k)

\* An error other than that of the activation request or of the session's end
\* means that nothing was activated, and nothing will be.
DefiniteErrors ==
    \A s \in Managed :
        (Returned(s) /\ call[s].err \notin {"none", "activate", "terminate"}) =>
            ActivatedBy(s) = {} /\ ~session[s].late

\* PRODUCTION_READINESS.md: changes become active only after the appliance has
\* validated them. What was merged on the appliance is another configuration.
ValidatedBeforeActive ==
    \A k \in 1 .. Len(log) : log[k].policy # "merge" => log[k].validated

\* SyncLeafCertificate: no mismatched intermediate device state. In every
\* working copy and every revision each resource's key can be opened with the
\* passphrase the Gateway has for it and belongs to its certificate.
NoMismatchedPair ==
    \A cfg \in {session[s].work : s \in Transactions}
                 \cup {log[k].configuration : k \in 1 .. Len(log)} :
        SoundConfiguration(cfg)

\* Managed writes of one client do not activate overlapping working copies:
\* of two that succeed, the later one was loaded after the other's activation,
\* so that even the overwrite policy keeps the other's change.
SerializedWrites ==
    \A s, t \in Managed :
        (s # t /\ ClientOf[s] = ClientOf[t] /\ Succeeded(s) /\ Succeeded(t)) =>
            \A i \in ActivatedBy(s) : \A j \in ActivatedBy(t) :
                i < j => session[t].base >= i

\* API.md: the session is terminated on success and error paths. One that stays
\* open after the transaction is over is one whose own requests were lost.
SessionsTerminated ==
    \A s \in Transactions :
        (Returned(s) /\ session[s].state = "open") => s \in cut

\* syncCertificateLocked: the built-in certificate of a virtual host is replaced,
\* not patched, so a call that selects by name never meets the error for that.
NoDefaultEntityError ==
    \A s \in Managed :
        call[s].err = "default-entity" => call[s].job.target.kind = "id"

\* A transaction activates at most once, whatever its owner calls after a
\* commit or an abort has closed it.
AtMostOneActivation ==
    \A s \in Transactions : Cardinality(ActivatedBy(s)) <= 1

\* What a virtual host serves.
Served(cfg, v) ==
    IF cfg.bound[v] = NoCertificate THEN None ELSE cfg.certificates[cfg.bound[v]]

\* syncCertificateLocked patches a certificate that several virtual hosts share
\* in place. What a virtual host that is not the target serves changes with an
\* activation only for that reason: it shares the resource the target selects,
\* and stays bound to it.
OthersKeepServing ==
    \A k \in 2 .. Len(log) :
        LET s == log[k].by  old == log[k - 1].configuration  new == log[k].configuration
        IN  (s \in Managed /\ log[k].policy # "overwrite") =>
                \A v \in VirtualHosts \ VirtualHostsOf(call[s].job.target) :
                    \/ Served(new, v) = Served(old, v)
                    \/ /\ new.bound[v] = old.bound[v]
                       /\ new.bound[v] \in SelectedIds(log[session[s].base].configuration,
                                                       call[s].job.target)

\* getVirtualHostByName: a name that is not exactly one virtual host's is an
\* error. Such a call picks none of them and has edited nothing when it returns.
AmbiguousNameChangesNothing ==
    \A s \in Managed :
        LET job == call[s].job
        IN  (/\ Returned(s)
             /\ job.operation # "create"
             /\ job.target.kind = "virtualHost"
             /\ Cardinality(VirtualHostsOf(job.target)) # 1) =>
                /\ call[s].err # "none"
                /\ touched[s] = [certificates |-> {}, hosts |-> {}]
                /\ ActivatedBy(s) = {}

\* Every managed call returns: whatever requests fail and whoever is
\* cancelled, managedMu is released and the next waiter goes on.
CallsReturn == \A s \in Managed : (call[s].pc # "idle") ~> Returned(s)

(***************************************************************************)
(* Managed calls that reject an outdated working copy implement            *)
(* AtomicRotation.                                                         *)
(***************************************************************************)
\* What the caller of s knows of it.
Outcome(s) ==
    IF call[s].pc = "idle" THEN "idle"
    ELSE IF ~Returned(s) THEN "pending"
    ELSE IF Succeeded(s) THEN "ok" ELSE "error"

Rotation ==
    INSTANCE AtomicRotation WITH
        history <- [k \in DOMAIN log |-> log[k].configuration],
        job     <- [s \in Transactions |-> call[s].job],
        outcome <- [s \in Transactions |-> Outcome(s)],
        applied <- {s \in Transactions : ActivatedBy(s) # {}},
        seen    <- [s \in Transactions |-> session[s].base]

\* doc.go: managed calls apply certificates "atomically through an isolated
\* Gateway configuration session". Where nobody stages and commits by itself,
\* each call takes effect in one step or not at all, on the configuration that
\* is active in this step.
RotatesAtomically == Rotation!Spec

(***************************************************************************)
(* What the documentation says and the code does not do.                   *)
(***************************************************************************)
\* certificate_sync.go: "Changes only become active when Commit succeeds."
ActiveOnlyIfCommitSucceeds ==
    \A s \in Managed : (Returned(s) /\ ActivatedBy(s) # {}) => Succeeded(s)

\* API.md: "Certificate, key, chain, root CA, and relationship changes are
\* staged in one Gateway working configuration and become visible together at
\* activation." A certificate made for a virtual host is never active without
\* the binding it was made for.
VisibleTogether ==
    \A k \in 2 .. Len(log) : \A i \in CertificateIds :
        (/\ log[k].by \in Transactions
         /\ \A j \in JobsOf[log[k].by] : j.operation # "create" /\ j.target.kind = "virtualHost"
         /\ Exists(log[k].configuration, i)
         /\ ~Exists(log[k - 1].configuration, i)) =>
            \E v \in VirtualHosts : log[k].configuration.bound[v] = i

\* API.md: "Managed writes on one Client are additionally serialized to keep a
\* parallel producer/consumer pipeline from activating overlapping working
\* copies."
NoOverlappingWorkingCopies ==
    \A s, t \in Managed :
        (s # t /\ ClientOf[s] = ClientOf[t]) =>
            \A i \in ActivatedBy(s) : \A j \in ActivatedBy(t) :
                i < j => session[t].base >= i

\* managed_certificate.go: "SyncKey replaces only the private key"; certificate.go:
\* the original PEM of a key is kept "so Airlock can receive the format supplied
\* by the caller". A key-only call that succeeds leaves the key as it was given.
KeyStoredAsSupplied ==
    \A s \in Managed :
        (Succeeded(s) /\ call[s].job.operation = "key") =>
            \E k \in session[s].base .. Len(log) :
                \E id \in SelectedIds(log[k].configuration, call[s].job.target) :
                    log[k].configuration.certificates[id].privateKey
                        = call[s].job.bundle.key.pem
=============================================================================
