------------------------ MODULE ManagedLifecycleProofs ------------------------
(***************************************************************************)
(* ManagedLifecycle keeps its type invariant: for every set of             *)
(* transactions, clients, jobs and certificates, and for every bound.      *)
(*                                                                         *)
(* A step of a transaction changes its call record, its session and what   *)
(* is around them (the log, the mutexes, the counters). The first lemmas   *)
(* say what each of the three is after the updates the actions are made    *)
(* of; then every action has a lemma of its own.                           *)
(***************************************************************************)
EXTENDS ManagedLifecycle, GatewayConfigurationProofs

(***************************************************************************)
(* The parts of a step.                                                    *)
(***************************************************************************)
\* The variables that do not belong to one transaction are typed.
AroundOK ==
    /\ log \in Seq(Revisions) \ {<< >>}
    /\ nextId \in Nat \ {0}
    /\ mutex \in [Clients -> Transactions \cup {None}]
    /\ touched \in [Transactions -> [certificates : SUBSET CertificateIds,
                                     hosts : SUBSET VirtualHosts]]
    /\ cut \in SUBSET Transactions
    /\ faults \in 0 .. MaxFaults

\* The step leaves transaction s at `pc' with `job'.
CallAfter(s, pc, job) ==
    \E c \in CallRecords :
        call' = [call EXCEPT ![s] = c] /\ c.pc = pc /\ c.job = job

\* The step leaves its session based on revision `base'; `late' is whether an
\* activation is still to come.
SessionAfter(s, base, late) ==
    \E r \in SessionRecords :
        session' = [session EXCEPT ![s] = r] /\ r.base = base /\ r.late = late

\* What the actions do to a session.
KeepsSession(s) == UNCHANGED session
OpensSession(s) == session' = [session EXCEPT ![s].state = "open"]
LoadsSession(s, base, work) == session' = [session EXCEPT ![s].base = base, ![s].work = work]
EditsSession(s, work) == session' = [session EXCEPT ![s].validated = FALSE, ![s].work = work]
ValidatesSession(s) == session' = [session EXCEPT ![s].validated = TRUE]
LeavesLate(s, late) == session' = [session EXCEPT ![s].late = late]

\* The type invariant is typed transactions, typed surroundings, consistency.
LEMMA TypeParts ==
    TypeOK <=> /\ AroundOK
               /\ call \in [Transactions -> CallRecords]
               /\ session \in [Transactions -> SessionRecords]
               /\ \A s \in Transactions : Consistent(s, call[s], session[s], Len(log))
  BY DEF TypeOK, AroundOK

\* The transactions and their sessions are typed.
LEMMA RecordTypes ==
    ASSUME TypeOK, NEW s \in Transactions
    PROVE  /\ call[s] \in CallRecords /\ call[s].pc \in Steps /\ call[s].err \in Errors
           /\ session[s] \in SessionRecords
           /\ session[s].base \in Nat /\ session[s].late \in BOOLEAN
           /\ session[s].work \in Configurations
           /\ Len(log) \in Nat \ {0}
           /\ Consistent(s, call[s], session[s], Len(log))
<1>1. call[s] \in CallRecords
  BY DEF TypeOK
<1>2. session[s] \in SessionRecords
  BY DEF TypeOK
<1>3. call[s].pc \in Steps /\ call[s].err \in Errors
  BY <1>1 DEF CallRecords
<1>4. /\ session[s].base \in Nat /\ session[s].late \in BOOLEAN
      /\ session[s].work \in Configurations
  BY <1>2 DEF SessionRecords
<1>5. Len(log) \in Nat \ {0}
  BY DEF TypeOK
<1>6. Consistent(s, call[s], session[s], Len(log))
  BY DEF TypeOK
<1> QED
  BY <1>1, <1>2, <1>3, <1>4, <1>5, <1>6

\* Every revision is a configuration, the active one too.
LEMMA RevisionType ==
    ASSUME TypeOK
    PROVE  /\ \A k \in 1 .. Len(log) : log[k].configuration \in Configurations
           /\ Active \in Configurations
<1>1. log \in Seq(Revisions) /\ log # << >>
  BY DEF TypeOK
<1>2. ASSUME NEW k \in 1 .. Len(log)
      PROVE  log[k].configuration \in Configurations
  <2>1. log[k] \in Revisions
    BY <1>1
  <2> QED
    BY <2>1 DEF Revisions
<1>3. Len(log) \in 1 .. Len(log)
  BY <1>1
<1> QED
  BY <1>2, <1>3 DEF Active

\* An argument of a call is typed.
LEMMA JobType ==
    ASSUME NEW j \in Jobs
    PROVE  /\ j \in JobRecords
           /\ j.bundle \in Bundles /\ j.target \in Targets
           /\ j.passphrase \in Passphrases \cup {Empty} /\ j.policy \in ConflictPolicies
<1>1. j \in JobRecords
  BY LifecycleAssumption DEF Jobs
<1> QED
  BY <1>1 DEF JobRecords

\* A step of one transaction keeps the type invariant when what it makes of
\* that transaction is typed and consistent.
LEMMA StepType ==
    ASSUME TypeOK, NEW s \in Transactions,
           NEW c \in CallRecords, call' = [call EXCEPT ![s] = c],
           NEW r \in SessionRecords, session' = [session EXCEPT ![s] = r],
           AroundOK', Len(log') >= Len(log), Consistent(s, c, r, Len(log'))
    PROVE  TypeOK'
<1>1. call' \in [Transactions -> CallRecords] /\ session' \in [Transactions -> SessionRecords]
  BY DEF TypeOK
<1>2. ASSUME NEW t \in Transactions
      PROVE  Consistent(t, call[t], session[t], Len(log))'
  <2>1. CASE t = s
    BY <2>1 DEF TypeOK, Consistent
  <2>2. CASE t # s
    <3>1. call'[t] = call[t] /\ session'[t] = session[t]
      BY <2>2 DEF TypeOK
    <3>2. session[t].base \in Nat /\ Len(log) \in Nat /\ Len(log') \in Nat
      BY DEF TypeOK, SessionRecords, AroundOK
    <3>3. Consistent(t, call[t], session[t], Len(log))
      BY DEF TypeOK
    <3> QED
      BY <3>1, <3>2, <3>3 DEF Consistent
  <2> QED
    BY <2>1, <2>2
<1> QED
  BY <1>1, <1>2 DEF TypeOK, AroundOK

\* A step that moves a transaction on, but neither to a write nor to a binding.
LEMMA MoveType ==
    ASSUME TypeOK, NEW s \in Transactions,
           NEW pc \in Steps, pc \notin {"write", "bind"},
           CallAfter(s, pc, call[s].job),
           NEW base \in Nat, NEW late \in BOOLEAN, SessionAfter(s, base, late),
           AroundOK', Len(log') >= Len(log),
           base <= Len(log'), late => base > 0, pc \in LoadedSteps => base > 0,
           pc \in StageSteps \/ (s \in Managed /\ pc # "done") => call[s].job \in ValidJobs
    PROVE  TypeOK'
<1>1. PICK c \in CallRecords :
          call' = [call EXCEPT ![s] = c] /\ c.pc = pc /\ c.job = call[s].job
  BY DEF CallAfter
<1>2. PICK r \in SessionRecords :
          session' = [session EXCEPT ![s] = r] /\ r.base = base /\ r.late = late
  BY DEF SessionAfter
<1>3. Consistent(s, c, r, Len(log'))
  BY <1>1, <1>2 DEF Consistent
<1> QED
  BY <1>1, <1>2, <1>3, StepType

\* What a session is based on after each of the updates.
LEMMA SessionUpdates ==
    ASSUME TypeOK, NEW s \in Transactions, NEW base \in Nat, NEW work \in Configurations,
           NEW late \in BOOLEAN
    PROVE  /\ KeepsSession(s) => SessionAfter(s, session[s].base, session[s].late)
           /\ OpensSession(s) => SessionAfter(s, session[s].base, session[s].late)
           /\ Terminated(s) => SessionAfter(s, session[s].base, FALSE)
           /\ LoadsSession(s, base, work) => SessionAfter(s, base, session[s].late)
           /\ EditsSession(s, work) => SessionAfter(s, session[s].base, session[s].late)
           /\ ValidatesSession(s) => SessionAfter(s, session[s].base, session[s].late)
           /\ LeavesLate(s, late) => SessionAfter(s, session[s].base, late)
<1>1. PICK r \in SessionRecords : r = session[s]
  BY RecordTypes
<1> DEFINE open   == [r EXCEPT !.state = "open"]
           closed == [r EXCEPT !.state = "closed", !.late = FALSE]
           loaded == [r EXCEPT !.base = base, !.work = work]
           edited == [r EXCEPT !.validated = FALSE, !.work = work]
           valid  == [r EXCEPT !.validated = TRUE]
           left   == [r EXCEPT !.late = late]
<1>2. /\ KeepsSession(s) => session' = [session EXCEPT ![s] = r]
      /\ OpensSession(s) => session' = [session EXCEPT ![s] = open]
      /\ Terminated(s) => session' = [session EXCEPT ![s] = closed]
      /\ LoadsSession(s, base, work) => session' = [session EXCEPT ![s] = loaded]
      /\ EditsSession(s, work) => session' = [session EXCEPT ![s] = edited]
      /\ ValidatesSession(s) => session' = [session EXCEPT ![s] = valid]
      /\ LeavesLate(s, late) => session' = [session EXCEPT ![s] = left]
  <2>1. KeepsSession(s) => session' = [session EXCEPT ![s] = r]
    BY <1>1 DEF KeepsSession, TypeOK
  <2> QED
    BY <1>1, <2>1, Zenon DEF OpensSession, Terminated, LoadsSession, EditsSession,
                             ValidatesSession, LeavesLate
<1>3. open \in SessionRecords /\ open.base = r.base /\ open.late = r.late
  BY DEF SessionRecords
<1>4. closed \in SessionRecords /\ closed.base = r.base /\ closed.late = FALSE
  BY DEF SessionRecords
<1>5. loaded \in SessionRecords /\ loaded.base = base /\ loaded.late = r.late
  BY DEF SessionRecords
<1>6. edited \in SessionRecords /\ edited.base = r.base /\ edited.late = r.late
  BY DEF SessionRecords
<1>7. valid \in SessionRecords /\ valid.base = r.base /\ valid.late = r.late
  BY DEF SessionRecords
<1>8. left \in SessionRecords /\ left.base = r.base /\ left.late = late
  BY DEF SessionRecords
<1> HIDE DEF open, closed, loaded, edited, valid, left
<1> QED
  BY <1>1, <1>2, <1>3, <1>4, <1>5, <1>6, <1>7, <1>8, Zenon DEF SessionAfter

\* Where a transaction is after each of the updates of its call record.
LEMMA CallUpdates ==
    ASSUME TypeOK, NEW s \in Transactions, NEW pc \in Steps, NEW err \in Errors,
           NEW changed \in BOOLEAN
    PROVE  /\ Goto(s, pc) => CallAfter(s, pc, call[s].job)
           /\ Return(s, err) => CallAfter(s, "done", call[s].job)
           /\ Finishing(s, err) => CallAfter(s, "finish", call[s].job)
           /\ StageFails(s, err) =>
                 \E to \in {"ready", "finish"} : CallAfter(s, to, call[s].job)
           /\ StageSucceeds(s, changed) =>
                 \E to \in {"ready", "validate", "finish"} : CallAfter(s, to, call[s].job)
           /\ Closes(s, err) =>
                 \E to \in {"ready", "done"} : CallAfter(s, to, call[s].job)
<1>1. PICK c \in CallRecords : c = call[s]
  BY RecordTypes
<1> DEFINE
      went(to)    == [c EXCEPT !.pc = to]
      ended(to)   == [c EXCEPT !.pc = to, !.err = err]
      staged(to)  == [c EXCEPT !.changed = c.changed \/ changed, !.pc = to]
      shut(to)    == [c EXCEPT !.closed = TRUE, !.err = err, !.pc = to]
<1>2. ASSUME NEW to \in Steps
      PROVE  /\ call' = [call EXCEPT ![s] = went(to)] => CallAfter(s, to, c.job)
             /\ call' = [call EXCEPT ![s] = ended(to)] => CallAfter(s, to, c.job)
             /\ call' = [call EXCEPT ![s] = staged(to)] => CallAfter(s, to, c.job)
             /\ call' = [call EXCEPT ![s] = shut(to)] => CallAfter(s, to, c.job)
  <2>1. went(to) \in CallRecords /\ went(to).pc = to /\ went(to).job = c.job
    BY DEF CallRecords
  <2>2. ended(to) \in CallRecords /\ ended(to).pc = to /\ ended(to).job = c.job
    BY DEF CallRecords
  <2>3. staged(to) \in CallRecords /\ staged(to).pc = to /\ staged(to).job = c.job
    BY DEF CallRecords
  <2>4. shut(to) \in CallRecords /\ shut(to).pc = to /\ shut(to).job = c.job
    BY DEF CallRecords
  <2> HIDE DEF went, ended, staged, shut
  <2> QED
    BY <2>1, <2>2, <2>3, <2>4, Zenon DEF CallAfter
<1>3. {"ready", "validate", "finish", "done"} \subseteq Steps
  BY DEF Steps
<1>4. Goto(s, pc) => CallAfter(s, pc, call[s].job)
  BY <1>1, <1>2, Zenon DEF Goto
<1>5. Return(s, err) => CallAfter(s, "done", call[s].job)
  <2>1. Return(s, err) => call' = [call EXCEPT ![s] = ended("done")]
    BY <1>1, Zenon DEF Return
  <2> QED
    BY <1>1, <1>2, <1>3, <2>1, Zenon
<1>6. Finishing(s, err) => CallAfter(s, "finish", call[s].job)
  <2>1. Finishing(s, err) => call' = [call EXCEPT ![s] = ended("finish")]
    BY <1>1, Zenon DEF Finishing
  <2> QED
    BY <1>1, <1>2, <1>3, <2>1, Zenon
<1>7. StageFails(s, err) =>
          \E to \in {"ready", "finish"} : CallAfter(s, to, call[s].job)
  <2>1. StageFails(s, err) => call' = [call EXCEPT ![s] = went("ready")] \/ Finishing(s, err)
    BY <1>1, Zenon DEF StageFails, Goto
  <2> QED
    BY <1>1, <1>2, <1>3, <1>6, <2>1, Zenon
<1>8. StageSucceeds(s, changed) =>
          \E to \in {"ready", "validate", "finish"} : CallAfter(s, to, call[s].job)
  <2>1. StageSucceeds(s, changed) =>
            \E to \in {"ready", "validate", "finish"} :
                call' = [call EXCEPT ![s] = staged(to)]
    BY <1>1, Zenon DEF StageSucceeds
  <2> QED
    BY <1>1, <1>2, <1>3, <2>1, Zenon
<1>9. Closes(s, err) => \E to \in {"ready", "done"} : CallAfter(s, to, call[s].job)
  <2>1. Closes(s, err) =>
            \E to \in {"ready", "done"} : call' = [call EXCEPT ![s] = shut(to)]
    BY <1>1, Zenon DEF Closes
  <2> QED
    BY <1>1, <1>2, <1>3, <2>1, Zenon
<1> QED
  BY <1>4, <1>5, <1>6, <1>7, <1>8, <1>9

\* Where a transaction is after its load has failed.
LEMMA AbandonedCall ==
    ASSUME TypeOK, NEW s \in Transactions
    PROVE  call' = [call EXCEPT ![s].pc = "abandon", ![s].err = "load"]
              => CallAfter(s, "abandon", call[s].job)
<1>1. PICK c \in CallRecords : c = call[s]
  BY RecordTypes
<1> DEFINE d == [c EXCEPT !.pc = "abandon", !.err = "load"]
<1>2. call' = [call EXCEPT ![s].pc = "abandon", ![s].err = "load"]
          => call' = [call EXCEPT ![s] = d]
  BY <1>1, Zenon
<1>3. d \in CallRecords /\ d.pc = "abandon" /\ d.job = c.job
  BY DEF CallRecords, Steps, Errors
<1> HIDE DEF d
<1> QED
  BY <1>1, <1>2, <1>3, Zenon DEF CallAfter

\* How a request ends, and what a return does to the mutex, stays typed.
LEMMA EndingTypes ==
    ASSUME TypeOK, NEW s \in Transactions
    PROVE  /\ \A err : Return(s, err) => mutex' \in [Clients -> Transactions \cup {None}]
           /\ \A err : Closes(s, err) => mutex' \in [Clients -> Transactions \cup {None}]
           /\ Fault => faults' \in 0 .. MaxFaults
           /\ RequestFails(s) => faults' \in 0 .. MaxFaults
           /\ Answered(s) => faults' \in 0 .. MaxFaults
           /\ AnswerLost(s) => faults' \in 0 .. MaxFaults
           /\ TerminationFails(s) =>
                 faults' \in 0 .. MaxFaults /\ cut' \in SUBSET Transactions
<1>1. MaxFaults \in Nat
  BY LifecycleAssumption
<1>2. Fault => faults' \in 0 .. MaxFaults
  BY <1>1 DEF Fault, TypeOK
<1>3. UNCHANGED faults => faults' \in 0 .. MaxFaults
  BY DEF TypeOK
<1>4. cut \cup {s} \in SUBSET Transactions
  BY DEF TypeOK
<1>5. Released(s) \in [Clients -> Transactions \cup {None}]
  BY DEF Released, TypeOK
<1> QED
  BY <1>2, <1>3, <1>4, <1>5, Zenon
     DEF RequestFails, Answered, AnswerLost, TerminationFails, Return, Closes

\* A step that moves a transaction on and leaves its session as it is.
LEMMA KeepType ==
    ASSUME TypeOK, NEW s \in Transactions,
           NEW pc \in Steps, pc \notin {"write", "bind"},
           CallAfter(s, pc, call[s].job), UNCHANGED session,
           AroundOK', Len(log') >= Len(log),
           pc \in LoadedSteps => session[s].base > 0,
           pc \in StageSteps \/ (s \in Managed /\ pc # "done") => call[s].job \in ValidJobs
    PROVE  TypeOK'
<1>1. /\ session[s].base \in Nat /\ session[s].late \in BOOLEAN
      /\ session[s].work \in Configurations /\ Len(log) \in Nat
      /\ session[s].base <= Len(log) /\ (session[s].late => session[s].base > 0)
  BY RecordTypes DEF Consistent
<1>2. SessionAfter(s, session[s].base, session[s].late)
  BY <1>1, SessionUpdates, Zenon DEF KeepsSession
<1>3. Len(log') \in Nat
  BY DEF AroundOK
<1> QED
  BY <1>1, <1>2, <1>3, MoveType

(***************************************************************************)
(* One lemma for each action.                                              *)
(***************************************************************************)
\* A call starts with a typed job, at the mutex, at the version or at its end.
LEMMA CallType ==
    ASSUME TypeOK, NEW s \in Transactions, Call(s)
    PROVE  TypeOK'
<1>1. /\ s \in Managed /\ UNCHANGED <<log, nextId, mutex, session, touched, cut, faults>>
      /\ \E j \in JobsOf[s] : \E pc \in {"version", "lock", "done"} :
            /\ pc = "done" \/ ValidArguments(j)
            /\ \/ call' = [call EXCEPT ![s].job = j, ![s].policy = j.policy, ![s].pc = pc]
               \/ call' = [call EXCEPT ![s].job = j, ![s].policy = j.policy,
                                       ![s].pc = pc, ![s].err = "arguments"]
  BY Zenon DEF Call
<1>2. PICK j \in JobsOf[s], to \in {"version", "lock", "done"} :
            /\ to = "done" \/ ValidArguments(j)
            /\ \/ call' = [call EXCEPT ![s].job = j, ![s].policy = j.policy, ![s].pc = to]
               \/ call' = [call EXCEPT ![s].job = j, ![s].policy = j.policy,
                                       ![s].pc = to, ![s].err = "arguments"]
  BY <1>1
<1>3. j \in Jobs /\ j.policy \in ConflictPolicies /\ to \in Steps
  BY JobType DEF Jobs, Steps
<1>4. PICK c \in CallRecords : c = call[s]
  BY RecordTypes
<1> DEFINE d == [c EXCEPT !.job = j, !.policy = j.policy, !.pc = to]
           e == [c EXCEPT !.job = j, !.policy = j.policy, !.pc = to, !.err = "arguments"]
<1>5. call' = [call EXCEPT ![s] = d] \/ call' = [call EXCEPT ![s] = e]
  BY <1>2, <1>4, Zenon
<1>6. d \in CallRecords /\ d.pc = to /\ d.job = j
  BY <1>3 DEF CallRecords
<1>7. e \in CallRecords /\ e.pc = to /\ e.job = j
  BY <1>3 DEF CallRecords, Errors
<1> HIDE DEF d, e
<1>8. PICK f \in CallRecords : call' = [call EXCEPT ![s] = f] /\ f.pc = to /\ f.job = j
  BY <1>5, <1>6, <1>7, Zenon
<1>9. PICK r \in SessionRecords : r = session[s] /\ session' = [session EXCEPT ![s] = r]
  BY <1>1, RecordTypes DEF TypeOK
<1>10. Consistent(s, f, r, Len(log'))
  <2>1. to = "done" \/ j \in ValidJobs
    BY <1>2, <1>3, Zenon DEF ValidJobs
  <2> QED
    BY <1>1, <1>3, <1>8, <1>9, <2>1, RecordTypes DEF Consistent, LoadedSteps, StageSteps
<1>11. AroundOK' /\ Len(log') >= Len(log)
  BY <1>1, RecordTypes, TypeParts DEF AroundOK
<1> QED
  BY <1>8, <1>9, <1>10, <1>11, StepType

\* An owner's transaction starts.
LEMMA StartType ==
    ASSUME TypeOK, NEW s \in Transactions, Start(s)
    PROVE  TypeOK'
<1>1. /\ s \notin Managed /\ Goto(s, "version")
      /\ UNCHANGED <<log, nextId, mutex, session, touched, cut, faults>>
  BY DEF Start, Managed
<1>2. AroundOK' /\ Len(log') >= Len(log)
  BY <1>1, RecordTypes, TypeParts DEF AroundOK
<1>3. CallAfter(s, "version", call[s].job)
  BY <1>1, CallUpdates DEF Steps, Errors
<1> QED
  BY <1>1, <1>2, <1>3, KeepType DEF Steps, LoadedSteps, StageSteps

\* A managed call takes its client's mutex.
LEMMA AcquireType ==
    ASSUME TypeOK, NEW s \in Transactions, Acquire(s)
    PROVE  TypeOK'
<1>1. /\ call[s].pc = "lock" /\ Goto(s, "version")
      /\ mutex' = [mutex EXCEPT ![ClientOf[s]] = s]
      /\ UNCHANGED <<log, nextId, session, touched, cut, faults>>
  BY DEF Acquire
<1>2. AroundOK' /\ Len(log') >= Len(log)
  <2>1. mutex' \in [Clients -> Transactions \cup {None}]
    BY <1>1, TypeParts, LifecycleAssumption DEF AroundOK
  <2>2. UNCHANGED <<log, nextId, touched, cut, faults>>
    BY <1>1
  <2> QED
    BY <2>1, <2>2, RecordTypes, TypeParts DEF AroundOK
<1>3. CallAfter(s, "version", call[s].job)
  BY <1>1, CallUpdates DEF Steps, Errors
<1>4. s \in Managed => call[s].job \in ValidJobs
  BY <1>1, RecordTypes DEF Consistent
<1> QED
  BY <1>1, <1>2, <1>3, <1>4, KeepType DEF Steps, LoadedSteps, StageSteps

\* The version request.
LEMMA VerifyType ==
    ASSUME TypeOK, NEW s \in Transactions, VerifyGatewayVersion(s)
    PROVE  TypeOK'
<1>1. /\ call[s].pc = "version" /\ UNCHANGED <<log, nextId, session, touched, cut>>
      /\ \/ Answered(s) /\ Goto(s, "create") /\ UNCHANGED mutex
         \/ RequestFails(s) /\ Return(s, "version")
  BY DEF VerifyGatewayVersion
<1>2. AroundOK' /\ Len(log') >= Len(log)
  BY <1>1, RecordTypes, TypeParts, EndingTypes DEF AroundOK
<1>3. PICK pc \in {"create", "done"} : CallAfter(s, pc, call[s].job)
  BY <1>1, CallUpdates DEF Steps, Errors
<1>4. s \in Managed => call[s].job \in ValidJobs
  BY <1>1, RecordTypes DEF Consistent
<1> QED
  BY <1>1, <1>2, <1>3, <1>4, KeepType DEF Steps, LoadedSteps, StageSteps

\* The request that creates the session.
LEMMA CreateType ==
    ASSUME TypeOK, NEW s \in Transactions, CreateSession(s)
    PROVE  TypeOK'
<1>1. /\ call[s].pc = "create" /\ UNCHANGED <<log, nextId, touched>>
      /\ \/ Answered(s) /\ OpensSession(s) /\ Goto(s, "load") /\ UNCHANGED <<mutex, cut>>
         \/ RequestFails(s) /\ KeepsSession(s) /\ Return(s, "create") /\ UNCHANGED cut
         \/ AnswerLost(s) /\ OpensSession(s) /\ Return(s, "create") /\ cut' = cut \cup {s}
  BY Zenon DEF CreateSession, OpensSession, KeepsSession
<1>2. cut' \in SUBSET Transactions
  BY <1>1, TypeParts DEF AroundOK
<1>3. AroundOK' /\ Len(log') >= Len(log)
  BY <1>1, <1>2, RecordTypes, TypeParts, EndingTypes DEF AroundOK
<1>4. PICK pc \in {"load", "done"} : CallAfter(s, pc, call[s].job)
  BY <1>1, CallUpdates DEF Steps, Errors
<1>5. SessionAfter(s, session[s].base, session[s].late)
  BY <1>1, RecordTypes, SessionUpdates
<1> QED
  BY <1>1, <1>3, <1>4, <1>5, RecordTypes, MoveType
     DEF Consistent, Steps, LoadedSteps, StageSteps

\* The request that loads the active configuration into the session.
LEMMA LoadType ==
    ASSUME TypeOK, NEW s \in Transactions, LoadActiveConfiguration(s)
    PROVE  TypeOK'
<1>1. /\ call[s].pc = "load" /\ UNCHANGED <<log, nextId, mutex, touched, cut>>
      /\ \/ /\ Answered(s) /\ LoadsSession(s, Len(log), Active)
            /\ Goto(s, IF s \in Owned THEN "ready" ELSE "resolve")
         \/ /\ RequestFails(s) /\ KeepsSession(s)
            /\ call' = [call EXCEPT ![s].pc = "abandon", ![s].err = "load"]
  BY Zenon DEF LoadActiveConfiguration, LoadsSession, KeepsSession
<1>2. AroundOK' /\ Len(log') >= Len(log)
  BY <1>1, RecordTypes, TypeParts, EndingTypes DEF AroundOK
<1>3. Active \in Configurations
  BY RevisionType
<1>4. s \in Managed => call[s].job \in ValidJobs
  BY <1>1, RecordTypes DEF Consistent
<1>5. CASE LoadsSession(s, Len(log), Active) /\ Goto(s, IF s \in Owned THEN "ready" ELSE "resolve")
  <2>1. CallAfter(s, IF s \in Owned THEN "ready" ELSE "resolve", call[s].job)
    BY <1>5, CallUpdates DEF Steps, Errors
  <2>2. SessionAfter(s, Len(log), session[s].late)
    BY <1>3, <1>5, RecordTypes, SessionUpdates
  <2> QED
    BY <1>1, <1>2, <1>4, <2>1, <2>2, RecordTypes, MoveType
       DEF Steps, LoadedSteps, StageSteps, Managed
<1>6. CASE KeepsSession(s) /\ call' = [call EXCEPT ![s].pc = "abandon", ![s].err = "load"]
  <2>1. CallAfter(s, "abandon", call[s].job)
    BY <1>6, AbandonedCall, Zenon
  <2> QED
    BY <1>2, <1>4, <1>6, <2>1, KeepType DEF Steps, LoadedSteps, StageSteps, KeepsSession
<1> QED
  BY <1>1, <1>5, <1>6, Zenon

\* The request that ends a session that could not be loaded.
LEMMA AbandonType ==
    ASSUME TypeOK, NEW s \in Transactions, Abandon(s)
    PROVE  TypeOK'
<1>1. /\ call[s].pc = "abandon" /\ UNCHANGED <<log, nextId, touched>>
      /\ \/ UNCHANGED <<cut, faults>>
         \/ TerminationFails(s)
      /\ Terminated(s) \/ KeepsSession(s)
      /\ Return(s, call[s].err)
  BY Zenon DEF Abandon, KeepsSession
<1>2. AroundOK' /\ Len(log') >= Len(log)
  BY <1>1, RecordTypes, TypeParts, EndingTypes DEF AroundOK
<1>3. CallAfter(s, "done", call[s].job)
  BY <1>1, RecordTypes, CallUpdates
<1>4. PICK late \in BOOLEAN : SessionAfter(s, session[s].base, late) /\ (late => session[s].late)
  BY <1>1, RecordTypes, SessionUpdates
<1> QED
  BY <1>1, <1>2, <1>3, <1>4, RecordTypes, MoveType
     DEF Consistent, Steps, LoadedSteps, StageSteps

\* The request that ends the session of a transaction.
LEMMA FinishType ==
    ASSUME TypeOK, NEW s \in Transactions, Finish(s)
    PROVE  TypeOK'
<1>1. /\ call[s].pc = "finish" /\ UNCHANGED <<log, nextId, touched>>
      /\ \/ UNCHANGED <<cut, faults>>
         \/ TerminationFails(s)
      /\ Terminated(s) \/ KeepsSession(s)
      /\ \E err \in {call[s].err, "terminate"} : Closes(s, err)
  BY Zenon DEF Finish, KeepsSession
<1>2. AroundOK' /\ Len(log') >= Len(log)
  BY <1>1, RecordTypes, TypeParts, EndingTypes DEF AroundOK
<1>3. PICK pc \in {"ready", "done"} : CallAfter(s, pc, call[s].job)
  <2>1. PICK err \in Errors : Closes(s, err)
    BY <1>1, RecordTypes DEF Errors
  <2> QED
    BY <2>1, CallUpdates DEF Steps
<1>4. PICK late \in BOOLEAN : SessionAfter(s, session[s].base, late) /\ (late => session[s].late)
  BY <1>1, RecordTypes, SessionUpdates
<1> QED
  BY <1>1, <1>2, <1>3, <1>4, RecordTypes, MoveType
     DEF Consistent, Steps, LoadedSteps, StageSteps

\* An owner stages another job.
LEMMA StageType ==
    ASSUME TypeOK, NEW s \in Transactions, Stage(s)
    PROVE  TypeOK'
<1>1. /\ s \notin Managed /\ call[s].pc = "ready" /\ call[s].stages < MaxStages
      /\ UNCHANGED <<log, nextId, mutex, session, touched, cut, faults>>
  BY DEF Stage, Managed
<1>2. PICK j \in JobsOf[s] :
          /\ ValidArguments(j)
          /\ call' = [call EXCEPT ![s].job = j, ![s].pc = "resolve", ![s].stages = @ + 1]
  BY Zenon DEF Stage
<1>3. PICK c \in CallRecords : c = call[s]
  BY RecordTypes
<1> DEFINE d == [c EXCEPT !.job = j, !.pc = "resolve", !.stages = c.stages + 1]
<1>4. call' = [call EXCEPT ![s] = d]
  BY <1>2, <1>3, Zenon
<1>5. c.stages + 1 \in 0 .. MaxStages
  BY <1>1, <1>3, LifecycleAssumption DEF CallRecords
<1>6. j \in Jobs /\ j \in ValidJobs
  BY <1>2, Zenon DEF Jobs, ValidJobs
<1>7. d \in CallRecords /\ d.pc = "resolve" /\ d.job = j
  <2> DEFINE n == c.stages + 1
  <2>1. n \in 0 .. MaxStages /\ d = [c EXCEPT !.job = j, !.pc = "resolve", !.stages = n]
    BY <1>5
  <2> HIDE DEF n, d
  <2> QED
    BY <1>6, <2>1 DEF CallRecords, Steps
<1> HIDE DEF d
<1>8. PICK r \in SessionRecords : r = session[s] /\ session' = [session EXCEPT ![s] = r]
  BY <1>1, RecordTypes DEF TypeOK
<1>9. Consistent(s, d, r, Len(log'))
  BY <1>1, <1>6, <1>7, <1>8, RecordTypes DEF Consistent, LoadedSteps, StageSteps
<1>10. AroundOK' /\ Len(log') >= Len(log)
  BY <1>1, RecordTypes, TypeParts DEF AroundOK
<1> QED
  BY <1>4, <1>7, <1>8, <1>9, <1>10, StepType

\* The reads of a stage: a plan is typed, and what it patches is there.
LEMMA ResolveType ==
    ASSUME TypeOK, NEW s \in Transactions, Resolve(s)
    PROVE  TypeOK'
<1>1. /\ call[s].pc = "resolve" /\ UNCHANGED <<log, nextId, mutex, session, touched, cut>>
      /\ Answered(s) \/ RequestFails(s)
      /\ \/ \E pc \in {"ready", "finish"} : Goto(s, pc)
         \/ StageFails(s, "stage")
         \/ StageSucceeds(s, FALSE)
         \/ \E p \in Plans(session[s].work, call[s].job) :
               call' = [call EXCEPT ![s].plan = p, ![s].pc = "write"]
  BY Zenon DEF Resolve
<1>2. AroundOK' /\ Len(log') >= Len(log)
  BY <1>1, RecordTypes, TypeParts, EndingTypes DEF AroundOK
<1>3. call[s].job \in ValidJobs /\ session[s].base > 0
  BY <1>1, RecordTypes DEF Consistent, StageSteps, LoadedSteps
<1>4. ASSUME NEW pc \in {"ready", "validate", "finish"}, CallAfter(s, pc, call[s].job)
      PROVE  TypeOK'
  BY <1>1, <1>2, <1>3, <1>4, KeepType DEF Steps
<1>5. CASE \E pc \in {"ready", "finish"} : Goto(s, pc)
  BY <1>4, <1>5, CallUpdates DEF Steps, Errors
<1>6. CASE StageFails(s, "stage")
  BY <1>4, <1>6, CallUpdates DEF Steps, Errors
<1>7. CASE StageSucceeds(s, FALSE)
  BY <1>4, <1>7, CallUpdates DEF Steps, Errors
<1>8. ASSUME NEW p \in Plans(session[s].work, call[s].job),
             call' = [call EXCEPT ![s].plan = p, ![s].pc = "write"]
      PROVE  TypeOK'
  <2>1. PICK c \in CallRecords : c = call[s]
    BY RecordTypes
  <2> DEFINE d == [c EXCEPT !.plan = p, !.pc = "write"]
  <2>2. call' = [call EXCEPT ![s] = d]
    BY <1>8, <2>1, Zenon
  <2>3. p \in PlanRecords /\ (p.id = NoCertificate \/ Exists(session[s].work, p.id))
    <3>1. session[s].work \in Configurations
      BY RecordTypes
    <3>2. /\ call[s].job.bundle \in Bundles /\ call[s].job.target \in Targets
          /\ call[s].job.passphrase \in Passphrases \cup {Empty}
      BY <1>3, JobType DEF ValidJobs
    <3> QED
      BY <3>1, <3>2, PlansType, Zenon
  <2>7. ValidBundle(p.bundle)
    BY <1>3, PlansValid DEF ValidJobs, ValidArguments
  <2>4. d \in CallRecords /\ d.pc = "write" /\ d.job = c.job /\ d.plan = p
    BY <2>3 DEF CallRecords, Steps
  <2> HIDE DEF d
  <2>5. PICK r \in SessionRecords : r = session[s] /\ session' = [session EXCEPT ![s] = r]
    BY <1>1, RecordTypes DEF TypeOK
  <2>6. Consistent(s, d, r, Len(log'))
    BY <1>1, <1>3, <2>1, <2>3, <2>4, <2>5, <2>7, RecordTypes DEF Consistent
  <2> QED
    BY <1>2, <2>2, <2>4, <2>5, <2>6, StepType
<1> QED
  BY <1>1, <1>5, <1>6, <1>7, <1>8, Zenon

\* A write leaves a configuration in the working copy: what is patched exists.
LEMMA WrittenType ==
    ASSUME TypeOK, NEW s \in Transactions, call[s].pc = "write",
           WrittenId(s) \in CertificateIds, Written(s, WrittenId(s))
    PROVE  /\ SessionAfter(s, session[s].base, session[s].late)
           /\ nextId' \in Nat \ {0}
           /\ touched' \in [Transactions -> [certificates : SUBSET CertificateIds,
                                             hosts : SUBSET VirtualHosts]]
<1> DEFINE id == WrittenId(s)
           p == call[s].plan
           a == AttributesFromBundle(p.bundle)
           work == session[s].work
           new == IF p.id = NoCertificate THEN CreateIn(work, id, a) ELSE PatchIn(work, id, a)
<1>1. p \in PlanRecords /\ (p.id = NoCertificate \/ Exists(work, p.id))
  BY RecordTypes DEF Consistent
<1>2. a \in Attributes
  BY <1>1, AttributesType DEF PlanRecords
<1>3. work \in Configurations /\ id \in CertificateIds
  BY RecordTypes
<1>4. p.id # NoCertificate => id = p.id
  BY DEF WrittenId
<1>5. /\ EditsSession(s, new)
      /\ nextId' = IF p.id = NoCertificate THEN nextId + 1 ELSE nextId
      /\ touched' = [touched EXCEPT ![s].certificates = @ \cup {id}]
  BY Zenon DEF Written, EditsSession
<1>6. touched' = [touched EXCEPT ![s] = [touched[s] EXCEPT !.certificates = @ \cup {id}]]
  BY <1>5, Zenon
<1> HIDE DEF a, work, p, id
<1>7. new \in Configurations
  <2>1. /\ CreateIn(work, id, a) \in Configurations
        /\ Exists(work, id) => PatchIn(work, id, a) \in Configurations
    BY <1>2, <1>3, CertificateEditType, Zenon
  <2> QED
    BY <1>1, <1>4, <2>1, Zenon
<1> HIDE DEF new
<1>8. SessionAfter(s, session[s].base, session[s].late)
  BY <1>5, <1>7, RecordTypes, SessionUpdates
<1>9. nextId' \in Nat \ {0}
  BY <1>5, TypeParts DEF AroundOK
<1>10. touched' \in [Transactions -> [certificates : SUBSET CertificateIds,
                                      hosts : SUBSET VirtualHosts]]
  <2>1. PICK t \in [certificates : SUBSET CertificateIds, hosts : SUBSET VirtualHosts] :
             t = touched[s]
    BY TypeParts DEF AroundOK
  <2> DEFINE u == [t EXCEPT !.certificates = t.certificates \cup {id}]
  <2>2. touched' = [touched EXCEPT ![s] = u]
    BY <1>6, <2>1, Zenon
  <2>3. u \in [certificates : SUBSET CertificateIds, hosts : SUBSET VirtualHosts]
    BY <1>3
  <2> HIDE DEF u
  <2> QED
    BY <2>2, <2>3, TypeParts DEF AroundOK
<1> QED
  BY <1>8, <1>9, <1>10

\* The request that writes the resource.
LEMMA WriteType ==
    ASSUME TypeOK, NEW s \in Transactions, Write(s)
    PROVE  TypeOK'
<1> DEFINE id == WrittenId(s)
           to == IF call[s].plan.hosts = {} THEN "decode" ELSE "bind"
<1>1. /\ call[s].pc = "write" /\ id \in CertificateIds /\ UNCHANGED <<log, mutex, cut>>
      /\ Answered(s) \/ RequestFails(s) \/ AnswerLost(s)
      /\ \/ Written(s, id) /\ call' = [call EXCEPT ![s].plan.id = id, ![s].pc = to]
         \/ Written(s, id) /\ StageFails(s, "stage")
         \/ /\ KeepsSession(s) /\ UNCHANGED <<nextId, touched>>
            /\ \E err \in {"stage", "default-entity"} : StageFails(s, err)
  BY Zenon DEF Write, KeepsSession
<1>2. /\ nextId' \in Nat \ {0}
      /\ touched' \in [Transactions -> [certificates : SUBSET CertificateIds,
                                        hosts : SUBSET VirtualHosts]]
      /\ SessionAfter(s, session[s].base, session[s].late)
  <2>1. CASE Written(s, id)
    BY <1>1, <2>1, WrittenType
  <2>2. CASE KeepsSession(s) /\ UNCHANGED <<nextId, touched>>
    BY <2>2, RecordTypes, SessionUpdates, TypeParts DEF AroundOK
  <2> QED
    BY <1>1, <2>1, <2>2, Zenon
<1>3. AroundOK' /\ Len(log') >= Len(log)
  <2>1. faults' \in 0 .. MaxFaults
    BY <1>1, EndingTypes
  <2>2. log' = log /\ mutex' = mutex /\ cut' = cut
    BY <1>1
  <2> QED
    BY <1>2, <2>1, <2>2, RecordTypes, TypeParts DEF AroundOK
<1>4. /\ call[s].job \in ValidJobs /\ session[s].base > 0 /\ call[s].plan \in PlanRecords
      /\ session[s].base <= Len(log') /\ ValidBundle(call[s].plan.bundle)
  BY <1>1, RecordTypes DEF Consistent, StageSteps, LoadedSteps
<1>5. CASE \E err \in {"stage", "default-entity"} : StageFails(s, err)
  <2>1. PICK pc \in {"ready", "finish"} : CallAfter(s, pc, call[s].job)
    BY <1>5, CallUpdates DEF Steps, Errors
  <2> QED
    BY <1>2, <1>3, <1>4, <2>1, RecordTypes, MoveType DEF Steps
<1>6. CASE call' = [call EXCEPT ![s].plan.id = id, ![s].pc = to]
  <2>1. PICK c \in CallRecords : c = call[s]
    BY RecordTypes
  <2>2. PICK p \in PlanRecords : p = c.plan
    BY <1>4, <2>1
  <2> DEFINE q == [p EXCEPT !.id = id]
             d == [c EXCEPT !.plan = q, !.pc = to]
  <2>3. call' = [call EXCEPT ![s] = d]
    BY <1>6, <2>1, <2>2, Zenon
  <2>4. q \in PlanRecords /\ q.bundle = p.bundle
    BY <1>1 DEF PlanRecords
  <2>5. to \in {"decode", "bind"}
    OBVIOUS
  <2> HIDE DEF q, to
  <2>6. d \in CallRecords /\ d.pc = to /\ d.job = c.job /\ d.plan = q
    BY <2>4, <2>5 DEF CallRecords, Steps
  <2> HIDE DEF d
  <2>7. PICK r \in SessionRecords :
            /\ session' = [session EXCEPT ![s] = r]
            /\ r.base = session[s].base /\ r.late = session[s].late
    BY <1>2 DEF SessionAfter
  <2>8. Consistent(s, d, r, Len(log'))
    BY <1>4, <2>1, <2>2, <2>4, <2>5, <2>6, <2>7 DEF Consistent
  <2> QED
    BY <1>3, <2>3, <2>6, <2>7, <2>8, StepType
<1> QED
  BY <1>1, <1>5, <1>6, Zenon

\* The request that binds a virtual host.
LEMMA BindType ==
    ASSUME TypeOK, NEW s \in Transactions, Bind(s)
    PROVE  TypeOK'
<1>1. PICK v \in call[s].plan.hosts :
          \/ Answered(s) /\ Connected(s, v) /\ Goto(s, "decode")
          \/ /\ RequestFails(s) /\ StageFails(s, "stage")
             /\ UNCHANGED <<session, touched>>
          \/ AnswerLost(s) /\ Connected(s, v) /\ StageFails(s, "stage")
  BY Zenon DEF Bind
<1>2. call[s].pc = "bind" /\ UNCHANGED <<log, nextId, mutex, cut>>
  BY DEF Bind
<1>3. /\ call[s].job \in ValidJobs /\ session[s].base > 0 /\ call[s].plan \in PlanRecords
      /\ session[s].base <= Len(log')
  BY <1>2, RecordTypes DEF Consistent, StageSteps, LoadedSteps
<1>4. /\ call[s].plan.id \in CertificateIds \cup {NoCertificate}
      /\ v \in VirtualHosts
  BY <1>3 DEF PlanRecords
<1> DEFINE work == ConnectIn(session[s].work, call[s].plan.id, v)
<1>5. work \in Configurations
  BY <1>4, RecordTypes, ConnectType
<1>6. Connected(s, v) =>
          /\ EditsSession(s, work)
          /\ touched' = [touched EXCEPT ![s] = [touched[s] EXCEPT !.hosts = @ \cup {v}]]
  BY Zenon DEF Connected, EditsSession
<1> HIDE DEF work
<1>7. SessionAfter(s, session[s].base, session[s].late)
  BY <1>1, <1>5, <1>6, RecordTypes, SessionUpdates DEF KeepsSession
<1>8. touched' \in [Transactions -> [certificates : SUBSET CertificateIds,
                                     hosts : SUBSET VirtualHosts]]
  <2>1. PICK t \in [certificates : SUBSET CertificateIds, hosts : SUBSET VirtualHosts] :
             t = touched[s]
    BY TypeParts DEF AroundOK
  <2> DEFINE u == [t EXCEPT !.hosts = t.hosts \cup {v}]
  <2>2. Connected(s, v) => touched' = [touched EXCEPT ![s] = u]
    BY <1>6, <2>1, Zenon
  <2>3. u \in [certificates : SUBSET CertificateIds, hosts : SUBSET VirtualHosts]
    BY <1>4
  <2> HIDE DEF u
  <2> QED
    BY <1>1, <2>2, <2>3, TypeParts DEF AroundOK
<1>9. AroundOK' /\ Len(log') >= Len(log)
  <2>1. faults' \in 0 .. MaxFaults
    BY <1>1, EndingTypes
  <2> QED
    BY <1>2, <1>8, <2>1, RecordTypes, TypeParts DEF AroundOK
<1>10. PICK pc \in {"decode", "ready", "finish"} : CallAfter(s, pc, call[s].job)
  BY <1>1, CallUpdates DEF Steps, Errors
<1> QED
  BY <1>3, <1>7, <1>9, <1>10, RecordTypes, MoveType DEF Consistent, Steps

\* The decoding of the answer to a write.
LEMMA DecodeType ==
    ASSUME TypeOK, NEW s \in Transactions, Decode(s)
    PROVE  TypeOK'
<1>1. /\ call[s].pc = "decode" /\ UNCHANGED <<log, nextId, mutex, session, touched, cut>>
      /\ \/ StageSucceeds(s, TRUE) /\ UNCHANGED faults
         \/ Fault /\ StageFails(s, "stage")
  BY DEF Decode
<1>2. AroundOK' /\ Len(log') >= Len(log)
  <2>1. faults' \in 0 .. MaxFaults
    BY <1>1, EndingTypes, TypeParts DEF AroundOK
  <2>2. UNCHANGED <<log, nextId, mutex, touched, cut>>
    BY <1>1
  <2> QED
    BY <2>1, <2>2, RecordTypes, TypeParts DEF AroundOK
<1>3. call[s].job \in ValidJobs /\ session[s].base > 0
  BY <1>1, RecordTypes DEF Consistent, StageSteps, LoadedSteps
<1>4. PICK pc \in {"ready", "validate", "finish"} : CallAfter(s, pc, call[s].job)
  BY <1>1, CallUpdates DEF Steps, Errors
<1> QED
  BY <1>1, <1>2, <1>3, <1>4, KeepType DEF Steps

\* An owner commits.
LEMMA CommitType ==
    ASSUME TypeOK, NEW s \in Transactions, CommitWithOptions(s)
    PROVE  TypeOK'
<1>1. /\ s \notin Managed /\ call[s].pc = "ready"
      /\ UNCHANGED <<log, nextId, mutex, session, touched, cut, faults>>
  BY Zenon DEF CommitWithOptions, Managed
<1>0. \/ \E policy \in CommitPolicies, to \in {"validate", "finish"} :
            call' = [call EXCEPT ![s].policy = policy, ![s].err = "none", ![s].pc = to]
      \/ Goto(s, "done")
  BY Zenon DEF CommitWithOptions, Goto
<1>2. AroundOK' /\ Len(log') >= Len(log)
  BY <1>1, RecordTypes, TypeParts DEF AroundOK
<1>3. session[s].base > 0
  BY <1>1, RecordTypes DEF Consistent, LoadedSteps
<1>4. ASSUME NEW policy \in CommitPolicies, NEW to \in {"validate", "finish"},
             call' = [call EXCEPT ![s].policy = policy, ![s].err = "none", ![s].pc = to]
      PROVE  CallAfter(s, to, call[s].job)
  <2>1. PICK c \in CallRecords : c = call[s]
    BY RecordTypes
  <2> DEFINE d == [c EXCEPT !.policy = policy, !.err = "none", !.pc = to]
  <2>2. call' = [call EXCEPT ![s] = d]
    BY <1>4, <2>1, Zenon
  <2>3. policy \in ConflictPolicies
    BY LifecycleAssumption
  <2>4. d \in CallRecords /\ d.pc = to /\ d.job = c.job
    BY <2>3 DEF CallRecords, Steps, Errors
  <2> HIDE DEF d
  <2> QED
    BY <2>1, <2>2, <2>4, Zenon DEF CallAfter
<1>5. PICK pc \in {"validate", "finish", "done"} : CallAfter(s, pc, call[s].job)
  <2>1. Goto(s, "done") => CallAfter(s, "done", call[s].job)
    BY CallUpdates DEF Steps, Errors
  <2> QED
    BY <1>0, <1>4, <2>1, Zenon
<1> QED
  BY <1>1, <1>2, <1>3, <1>5, KeepType DEF Steps, StageSteps

\* An owner aborts.
LEMMA AbortType ==
    ASSUME TypeOK, NEW s \in Transactions, Abort(s)
    PROVE  TypeOK'
<1>1. /\ s \notin Managed /\ call[s].pc = "ready" /\ Finishing(s, "none")
      /\ UNCHANGED <<log, nextId, mutex, session, touched, cut, faults>>
  BY DEF Abort, Managed
<1>2. AroundOK' /\ Len(log') >= Len(log)
  BY <1>1, RecordTypes, TypeParts DEF AroundOK
<1>3. session[s].base > 0
  BY <1>1, RecordTypes DEF Consistent, LoadedSteps
<1>4. CallAfter(s, "finish", call[s].job)
  BY <1>1, CallUpdates DEF Steps, Errors
<1> QED
  BY <1>1, <1>2, <1>3, <1>4, KeepType DEF Steps, StageSteps

\* The request that validates the working copy.
LEMMA ValidateType ==
    ASSUME TypeOK, NEW s \in Transactions, ValidateConfiguration(s)
    PROVE  TypeOK'
<1>1. /\ call[s].pc = "validate" /\ UNCHANGED <<log, nextId, mutex, touched, cut>>
      /\ Answered(s) \/ RequestFails(s)
      /\ \/ ValidatesSession(s) /\ Goto(s, "activate")
         \/ KeepsSession(s) /\ \E err \in {"messages", "validate"} : Finishing(s, err)
  BY Zenon DEF ValidateConfiguration, ValidatesSession, KeepsSession, MessagesReported
<1>2. AroundOK' /\ Len(log') >= Len(log)
  BY <1>1, RecordTypes, TypeParts, EndingTypes DEF AroundOK
<1>3. PICK pc \in {"activate", "finish"} : CallAfter(s, pc, call[s].job)
  BY <1>1, CallUpdates DEF Steps, Errors
<1>4. SessionAfter(s, session[s].base, session[s].late)
  BY <1>1, RecordTypes, SessionUpdates
<1>5. session[s].base > 0 /\ session[s].base <= Len(log')
  BY <1>1, RecordTypes DEF Consistent, LoadedSteps
<1>6. s \in Managed => call[s].job \in ValidJobs
  BY <1>1, RecordTypes DEF Consistent
<1> QED
  BY <1>1, <1>2, <1>3, <1>4, <1>5, <1>6, RecordTypes, MoveType DEF Steps, StageSteps

\* An activation adds a typed revision, or none.
LEMMA ActivatesType ==
    ASSUME TypeOK, NEW s \in Transactions, session[s].base > 0, Activates(s)
    PROVE  log' \in Seq(Revisions) \ {<< >>} /\ Len(log') >= Len(log)
<1>1. session[s].base \in 1 .. Len(log)
  BY RecordTypes DEF Consistent
<1>2. /\ log[session[s].base].configuration \in Configurations
      /\ session[s].work \in Configurations /\ Active \in Configurations
  BY <1>1, RecordTypes, RevisionType
<1>3. Activatable(s) \subseteq Configurations
  BY <1>2, ActivatedType DEF Activatable
<1>4. call[s].policy \in ConflictPolicies
  BY RecordTypes DEF CallRecords
<1>5. PICK cfg \in Activatable(s) :
          log' = Append(log, Revision(s, cfg, call[s].policy,
                                      session[s].validated /\ cfg = session[s].work))
  BY Zenon DEF Activates
<1>6. PICK validated \in BOOLEAN : log' = Append(log, Revision(s, cfg, call[s].policy, validated))
  BY <1>5
<1>7. PICK rev \in Revisions : log' = Append(log, rev)
  BY <1>3, <1>4, <1>5, <1>6 DEF Revision, Revisions
<1> QED
  BY <1>7, TypeParts DEF AroundOK

\* The request that activates the working copy.
LEMMA ActivateType ==
    ASSUME TypeOK, NEW s \in Transactions, ActivateConfigurationWithOptions(s)
    PROVE  TypeOK'
<1>1. /\ call[s].pc = "activate" /\ UNCHANGED <<nextId, mutex, touched, cut>>
      /\ UNCHANGED log \/ Activates(s)
      /\ KeepsSession(s) \/ LeavesLate(s, TRUE)
      /\ UNCHANGED faults \/ Answered(s) \/ RequestFails(s) \/ AnswerLost(s)
      /\ \/ \E err \in {"policy", "conflict", "activate"} : Finishing(s, err)
         \/ Goto(s, "finish")
  BY Zenon DEF ActivateConfigurationWithOptions, KeepsSession, LeavesLate
<1>2. session[s].base > 0 /\ session[s].base <= Len(log)
  BY <1>1, RecordTypes DEF Consistent, LoadedSteps
<1>3. AroundOK' /\ Len(log') >= Len(log)
  <2>1. faults' \in 0 .. MaxFaults
    BY <1>1, EndingTypes, TypeParts DEF AroundOK
  <2>2. log' \in Seq(Revisions) \ {<< >>} /\ Len(log') >= Len(log)
    BY <1>1, <1>2, ActivatesType, RecordTypes, TypeParts DEF AroundOK
  <2>3. UNCHANGED <<nextId, mutex, touched, cut>>
    BY <1>1
  <2> QED
    BY <2>1, <2>2, <2>3, TypeParts DEF AroundOK
<1>4. CallAfter(s, "finish", call[s].job)
  BY <1>1, CallUpdates DEF Steps, Errors
<1>5. PICK late \in BOOLEAN : SessionAfter(s, session[s].base, late)
  BY <1>1, RecordTypes, SessionUpdates
<1>6. s \in Managed => call[s].job \in ValidJobs
  BY <1>1, RecordTypes DEF Consistent
<1>7. session[s].base <= Len(log')
  BY <1>2, <1>3, RecordTypes DEF AroundOK
<1> QED
  BY <1>2, <1>3, <1>4, <1>5, <1>6, <1>7, RecordTypes, MoveType DEF Steps, StageSteps

\* The Gateway gets to an activation its client has given up.
LEMMA GatewayActivatesType ==
    ASSUME TypeOK, NEW s \in Transactions, GatewayActivates(s)
    PROVE  TypeOK'
<1>1. /\ session[s].late /\ UNCHANGED <<nextId, mutex, call, touched, cut, faults>>
      /\ UNCHANGED log \/ Activates(s)
      /\ LeavesLate(s, FALSE)
  BY Zenon DEF GatewayActivates, LeavesLate
<1>2. session[s].base > 0 /\ session[s].base <= Len(log)
  BY <1>1, RecordTypes DEF Consistent
<1>3. AroundOK' /\ Len(log') >= Len(log)
  <2>1. log' \in Seq(Revisions) \ {<< >>} /\ Len(log') >= Len(log)
    BY <1>1, <1>2, ActivatesType, RecordTypes, TypeParts DEF AroundOK
  <2>2. UNCHANGED <<nextId, mutex, touched, cut, faults>>
    BY <1>1
  <2> QED
    BY <2>1, <2>2, TypeParts DEF AroundOK
<1>4. PICK r \in SessionRecords : r = session[s]
  BY RecordTypes
<1> DEFINE q == [r EXCEPT !.late = FALSE]
<1>5. session' = [session EXCEPT ![s] = q]
  BY <1>1, <1>4, Zenon DEF LeavesLate
<1>6. q \in SessionRecords /\ q.base = r.base /\ q.work = r.work /\ q.late = FALSE
  BY DEF SessionRecords
<1> HIDE DEF q
<1>7. PICK c \in CallRecords : c = call[s] /\ call' = [call EXCEPT ![s] = c]
  BY <1>1, RecordTypes DEF TypeOK
<1>8. Consistent(s, c, q, Len(log'))
  <2>1. Len(log') \in Nat /\ q.base <= Len(log')
    BY <1>2, <1>3, <1>4, <1>6, RecordTypes DEF AroundOK
  <2> QED
    BY <1>2, <1>4, <1>6, <1>7, <2>1, RecordTypes DEF Consistent
<1> QED
  BY <1>3, <1>5, <1>6, <1>7, <1>8, StepType

\* The caller's context is cancelled.
LEMMA CancelType ==
    ASSUME TypeOK, NEW s \in Transactions, Cancel(s)
    PROVE  TypeOK'
<1>1. /\ Fault /\ UNCHANGED <<log, nextId, mutex, session, touched, cut>>
  BY DEF Cancel
<1>2. call' = [call EXCEPT ![s].cancelled = TRUE]
  BY DEF Cancel
<1>3. PICK c \in CallRecords : c = call[s]
  BY RecordTypes
<1> DEFINE d == [c EXCEPT !.cancelled = TRUE]
<1>4. call' = [call EXCEPT ![s] = d]
  BY <1>2, <1>3, Zenon
<1>5. d \in CallRecords /\ d.pc = c.pc /\ d.job = c.job /\ d.plan = c.plan
  BY DEF CallRecords
<1> HIDE DEF d
<1>6. PICK r \in SessionRecords : r = session[s] /\ session' = [session EXCEPT ![s] = r]
  BY <1>1, RecordTypes DEF TypeOK
<1>7. Consistent(s, d, r, Len(log'))
  BY <1>1, <1>3, <1>5, <1>6, RecordTypes DEF Consistent
<1>8. AroundOK' /\ Len(log') >= Len(log)
  BY <1>1, RecordTypes, TypeParts, EndingTypes DEF AroundOK
<1> QED
  BY <1>4, <1>5, <1>6, <1>7, <1>8, StepType

\* The Configuration Center activates an edit of the active configuration.
LEMMA AdministratorType ==
    ASSUME TypeOK, AdministratorActivates
    PROVE  TypeOK'
<1>1. PICK cfg \in Edits(Active, AdminAttributes) :
          log' = Append(log, Revision(None, cfg, "", TRUE))
  BY Zenon DEF AdministratorActivates
<1>2. UNCHANGED <<nextId, mutex, call, session, touched, cut, faults>>
  BY DEF AdministratorActivates
<1>3. cfg \in Configurations
  BY RevisionType, EditsType, LifecycleAssumption
<1>4. PICK rev \in Revisions : log' = Append(log, rev)
  BY <1>1, <1>3 DEF Revision, Revisions, ConflictPolicies
<1>5. log' \in Seq(Revisions) \ {<< >>} /\ Len(log') = Len(log) + 1 /\ Len(log) \in Nat
  BY <1>4, TypeParts DEF AroundOK
<1>6. ASSUME NEW t \in Transactions
      PROVE  Consistent(t, call[t], session[t], Len(log))'
  BY <1>2, <1>5, RecordTypes DEF Consistent
<1> QED
  BY <1>2, <1>5, <1>6 DEF TypeOK

(***************************************************************************)
(* The theorem.                                                            *)
(***************************************************************************)
\* In the initial states everything is typed and no transaction has begun.
LEMMA InitType == Init => TypeOK
<1> SUFFICES ASSUME Init PROVE TypeOK
  OBVIOUS
<1>1. PICK c \in InitialConfigurations :
          /\ log = <<Revision(None, c, "", TRUE)>>
          /\ session = [s \in Transactions |->
                [state |-> "none", base |-> 0, work |-> c,
                 validated |-> FALSE, late |-> FALSE]]
  BY DEF Init
<1>2. c \in Configurations
  BY LifecycleAssumption
<1>3. PICK rev \in Revisions : log = <<rev>>
  BY <1>1, <1>2 DEF Revision, Revisions, ConflictPolicies
<1>4. log \in Seq(Revisions) /\ log # << >> /\ Len(log) = 1
  BY <1>3
<1>5. session \in [Transactions -> SessionRecords]
  BY <1>1, <1>2 DEF SessionRecords
<1>6. MaxStages \in Nat /\ MaxFaults \in Nat
  BY LifecycleAssumption
<1>7. NoCall \in CallRecords /\ NoCall.pc = "idle"
  BY <1>6 DEF NoCall, CallRecords, Steps, Errors, ConflictPolicies
<1>8. call \in [Transactions -> CallRecords] /\ \A s \in Transactions : call[s].pc = "idle"
  BY <1>7 DEF Init
<1>9. \A s \in Transactions : session[s].base = 0 /\ session[s].late = FALSE
  BY <1>1
<1>10. \A s \in Transactions : Consistent(s, call[s], session[s], Len(log))
  BY <1>4, <1>8, <1>9 DEF Consistent, LoadedSteps, StageSteps
<1>11. touched \in [Transactions -> [certificates : SUBSET CertificateIds,
                                     hosts : SUBSET VirtualHosts]]
  BY DEF Init
<1>12. nextId \in Nat \ {0}
  BY LifecycleAssumption DEF Init
<1>13. mutex \in [Clients -> Transactions \cup {None}] /\ cut = {} /\ faults = 0
  BY DEF Init
<1>14. faults \in 0 .. MaxFaults
  BY <1>6, <1>13
<1> QED
  BY <1>4, <1>5, <1>8, <1>10, <1>11, <1>12, <1>13, <1>14 DEF TypeOK

\* Every step keeps the type invariant.
LEMMA NextType == TypeOK /\ [Next]_vars => TypeOK'
<1> SUFFICES ASSUME TypeOK, [Next]_vars PROVE TypeOK'
  OBVIOUS
<1>1. ASSUME NEW s \in Transactions, Step(s)
      PROVE  TypeOK'
  BY <1>1, VerifyType, CreateType, LoadType, AbandonType, ResolveType, WriteType, BindType,
     DecodeType, ValidateType, ActivateType, FinishType, Zenon DEF Step
<1>2. ASSUME NEW s \in Transactions,
             \/ Call(s) \/ Start(s) \/ Acquire(s) \/ Stage(s) \/ CommitWithOptions(s)
             \/ Abort(s) \/ GatewayActivates(s) \/ Cancel(s)
      PROVE  TypeOK'
  BY <1>2, CallType, StartType, AcquireType, StageType, CommitType, AbortType,
     GatewayActivatesType, CancelType, Zenon
<1>3. CASE UNCHANGED vars
  <2>1. \A s \in Transactions : Consistent(s, call[s], session[s], Len(log))'
    BY <1>3, RecordTypes DEF vars, Consistent
  <2> QED
    BY <1>3, <2>1 DEF vars, TypeOK
<1> QED
  BY <1>1, <1>2, <1>3, AdministratorType, Zenon DEF Next, Terminating

\* Whatever transactions, callers, the Configuration Center and the network do,
\* every transaction is typed and consistent: nothing is staged, validated or
\* activated in a session that was not loaded, and a resource is patched only
\* where the working copy has it.
THEOREM TypeCorrect == Spec => []TypeOK
<1>1. Init => TypeOK
  BY InitType
<1>2. TypeOK /\ [Next]_vars => TypeOK'
  BY NextType
<1> QED
  BY <1>1, <1>2, PTL DEF Spec
=============================================================================
