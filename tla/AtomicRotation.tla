---------------------------- MODULE AtomicRotation ----------------------------
(***************************************************************************)
(* What the managed lifecycle API promises when an outdated working copy   *)
(* is rejected (the default): a call takes effect in one step, on the      *)
(* configuration that is active at that moment, or has none, whatever the  *)
(* calls do that merge or overwrite. There are no sessions, working        *)
(* copies, requests or mutexes here.                                       *)
(*                                                                         *)
(* doc.go: the calls apply certificates "atomically through an isolated    *)
(* Gateway configuration session".                                         *)
(***************************************************************************)
EXTENDS GatewayConfiguration

CONSTANTS
    Transactions,           \* the managed calls
    JobsOf,                 \* what each can be asked to do
    InitialConfigurations,  \* what is active at the start
    AdminAttributes         \* what the Configuration Center writes

VARIABLES
    history,  \* the running configuration, and every one before it
    job,      \* what each call was asked to do
    outcome,  \* "idle", "pending", "ok" or "error"
    applied,  \* the calls that have changed the configuration
    seen      \* the place in history each call has looked at, or 0

vars == <<history, job, outcome, applied, seen>>

active == history[Len(history)]

Becomes(cfg) == history' = Append(history, cfg)

\* The configuration with a plan carried out as a whole.
Rotation(cfg, p, id) ==
    [WriteIn(cfg, p, id) EXCEPT
        !.bound = [v \in VirtualHosts |-> IF v \in p.hosts THEN id ELSE cfg.bound[v]]]

Rotations(cfg, j) ==
    UNION {{Rotation(cfg, p, id) :
              id \in IF p.id # NoCertificate THEN {p.id}
                     ELSE {i \in CertificateIds : i > 0 /\ ~Exists(cfg, i)}} :
            p \in {q \in Plans(cfg, j) : q.write}}

Init ==
    /\ \E cfg \in InitialConfigurations : history = <<cfg>>
    /\ job = [s \in Transactions |-> None]
    /\ outcome = [s \in Transactions |-> "idle"]
    /\ applied = {}
    /\ seen = [s \in Transactions |-> 0]

Call(s) ==
    /\ outcome[s] = "idle"
    /\ \E j \in JobsOf[s], o \in {"pending", "error"} :
          /\ job' = [job EXCEPT ![s] = j]
          /\ outcome' = [outcome EXCEPT ![s] = o]
    /\ UNCHANGED <<history, applied, seen>>

RejectsOutdated(j) == j.policy \in {"", "reject"}

\* The call changes the configuration that is active now: a call that rejects
\* an outdated working copy carries out a plan for just this configuration. A
\* call that has returned an error may still do so.
Apply(s) ==
    /\ outcome[s] \in {"pending", "error"}
    /\ s \notin applied
    /\ applied' = applied \cup {s}
    /\ IF RejectsOutdated(job[s])
       THEN \E cfg \in Rotations(active, job[s]) : Becomes(cfg)
       ELSE /\ history' \in Seq(Configurations)
            /\ Len(history') = Len(history) + 1
            /\ SubSeq(history', 1, Len(history)) = history
    /\ UNCHANGED <<job, outcome, seen>>

\* The call looks at the configuration that is active now.
Look(s) ==
    /\ outcome[s] = "pending"
    /\ seen[s] = 0
    /\ seen' = [seen EXCEPT ![s] = Len(history)]
    /\ UNCHANGED <<history, job, outcome, applied>>

\* A call that has changed nothing succeeds if it has seen what it wants.
Return(s) ==
    /\ outcome[s] = "pending"
    /\ \/ s \in applied /\ outcome' = [outcome EXCEPT ![s] = "ok"]
       \/ /\ seen[s] > 0
          /\ Satisfied(history[seen[s]], job[s])
          /\ outcome' = [outcome EXCEPT ![s] = "ok"]
       \/ outcome' = [outcome EXCEPT ![s] = "error"]
    /\ UNCHANGED <<history, job, applied, seen>>

AdministratorActivates ==
    /\ \E cfg \in Edits(active, AdminAttributes) : Becomes(cfg)
    /\ UNCHANGED <<job, outcome, applied, seen>>

Next ==
    \/ \E s \in Transactions : Call(s) \/ Apply(s) \/ Look(s) \/ Return(s)
    \/ AdministratorActivates

Spec == Init /\ [][Next]_vars
=============================================================================
