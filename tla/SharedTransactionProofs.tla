------------------------ MODULE SharedTransactionProofs ------------------------
(***************************************************************************)
(* SharedTransaction for any number of goroutines, calls and failures: its *)
(* type invariant, mutual exclusion, that its calls take effect one after  *)
(* the other, as SequentialTransaction says, that no call gives a virtual  *)
(* host a second certificate, and that what succeeded calls have staged is *)
(* active once a commit has succeeded.                                     *)
(***************************************************************************)
EXTENDS SharedTransaction, GatewayConfigurationProofs

(***************************************************************************)
(* What the requests of a stage make of a working copy.                    *)
(***************************************************************************)
\* Writing a plan under an ID it can write leaves a configuration, in which
\* that ID and what was there before exists.
LEMMA WriteInType ==
    ASSUME NEW cfg \in Configurations, NEW p \in PlanRecords, NEW id \in CertificateIds,
           p.id # NoCertificate => id = p.id /\ Exists(cfg, id)
    PROVE  /\ WriteIn(cfg, p, id) \in Configurations
           /\ \A i \in CertificateIds : Exists(WriteIn(cfg, p, id), i) <=> Exists(cfg, i) \/ i = id
<1> DEFINE a == AttributesFromBundle(p.bundle)
<1>1. a \in Attributes
  BY AttributesType DEF PlanRecords
<1>2. None \notin Attributes
  BY ConfigurationAssumption
<1> HIDE DEF a
<1>3. CASE p.id = NoCertificate
  <2>1. WriteIn(cfg, p, id) = CreateIn(cfg, id, a)
    BY <1>3 DEF WriteIn, a
  <2>2. CreateIn(cfg, id, a).certificates = [cfg.certificates EXCEPT ![id] = a]
    BY DEF CreateIn, Configurations
  <2>3. cfg.certificates \in [CertificateIds -> Attributes \cup {None}]
    BY DEF Configurations
  <2> QED
    BY <1>1, <1>2, <2>1, <2>2, <2>3, CertificateEditType DEF Exists
<1>4. CASE p.id # NoCertificate
  <2>1. Exists(cfg, id)
    BY <1>4
  <2>2. WriteIn(cfg, p, id) = PatchIn(cfg, id, a)
    BY <1>4 DEF WriteIn, a
  <2>3. PatchIn(cfg, id, a).certificates =
          [cfg.certificates EXCEPT ![id] = Patched(cfg.certificates[id], a)]
    BY DEF PatchIn, Configurations
  <2>4. cfg.certificates \in [CertificateIds -> Attributes \cup {None}]
    BY DEF Configurations
  <2>5. Patched(cfg.certificates[id], a) \in Attributes
    BY <1>1, <2>1, <2>4, PatchedType DEF Exists
  <2> QED
    BY <1>1, <1>2, <2>1, <2>2, <2>3, <2>4, <2>5, CertificateEditType DEF Exists
<1> QED
  BY <1>3, <1>4

\* Connecting a virtual host leaves a configuration with the same certificates.
LEMMA ConnectKeeps ==
    ASSUME NEW cfg \in Configurations, NEW id \in CertificateIds, NEW v \in VirtualHosts
    PROVE  /\ ConnectIn(cfg, id, v) \in Configurations
           /\ \A i \in CertificateIds : Exists(ConnectIn(cfg, id, v), i) <=> Exists(cfg, i)
<1>1. ConnectIn(cfg, id, v).certificates = cfg.certificates
  BY DEF ConnectIn, Configurations
<1> QED
  BY <1>1, ConnectType DEF Exists

(***************************************************************************)
(* Types.                                                                  *)
(***************************************************************************)
\* The variables that are not of one goroutine.
AroundOK ==
    /\ mu \in Goroutines \cup {None}
    /\ work \in Configurations
    /\ nextId \in Nat \ {0}
    /\ changed \in BOOLEAN /\ closed \in BOOLEAN /\ cancelled \in BOOLEAN
    /\ active \in Configurations
    /\ faults \in 0 .. MaxFaults
    /\ Fresh

SettledOK ==
    settled \in [work : Configurations, changed : BOOLEAN, closed : BOOLEAN,
                 active : Configurations]

GoroutinesOK ==
    /\ pc \in [Goroutines -> Steps]
    /\ call \in [Goroutines -> Calls \cup {None}]
    /\ plan \in [Goroutines -> PlanOrNone]
    /\ err \in [Goroutines -> Errors]

\* The type invariant in three parts and one for each goroutine.
LEMMA TypeParts ==
    TypeOK <=> AroundOK /\ SettledOK /\ GoroutinesOK /\ \A g \in Goroutines : Rests(g)
  BY DEF TypeOK, AroundOK, SettledOK, GoroutinesOK

\* What is settled stays typed.
LEMMA SettledType ==
    ASSUME TypeOK, AroundOK', Settles \/ UNCHANGED settled
    PROVE  SettledOK'
<1>1. Snapshot' \in [work : Configurations, changed : BOOLEAN, closed : BOOLEAN,
                     active : Configurations]
  BY DEF AroundOK, Snapshot
<1> QED
  BY <1>1 DEF Settles, SettledOK, TypeOK

\* The step leaves goroutine g at `s' with call c, plan p and error e.
After(g, s, c, p, e) ==
    /\ pc' = [pc EXCEPT ![g] = s]
    /\ call' = [call EXCEPT ![g] = c]
    /\ plan' = [plan EXCEPT ![g] = p]
    /\ err' = [err EXCEPT ![g] = e]

\* What a goroutine there rests on, in working copy w.
RestsAt(w, s, c, p) ==
    /\ s \in Steps /\ c \in Calls /\ p \in PlanOrNone
    /\ s \in RequestSteps => ~Invalid(c)
    /\ s \in {"write", "bind"} => p \in PlanRecords /\ ValidBundle(p.bundle)
    /\ s = "write" => p.id = NoCertificate \/ Exists(w, p.id)
    /\ s = "bind" => Exists(w, p.id) /\ p.hosts # {}

\* A step of goroutine g, after which the resources that were there still are,
\* keeps the type invariant if what g itself rests on is there.
LEMMA StepType ==
    ASSUME TypeOK, NEW g \in Goroutines, AroundOK', Settles \/ UNCHANGED settled,
           \A i \in CertificateIds : Exists(work, i) => Exists(work', i),
           NEW s, NEW c, NEW p, NEW e \in Errors, After(g, s, c, p, e),
           RestsAt(work', s, c, p)
    PROVE  TypeOK'
<1>1. SettledOK'
  BY SettledType
<1>2. GoroutinesOK
  BY TypeParts
<1>3. GoroutinesOK'
  BY <1>2 DEF GoroutinesOK, After, RestsAt
<1>4. ASSUME NEW h \in Goroutines
      PROVE  Rests(h)'
  <2>1. CASE h = g
    <3>1. pc'[h] = s /\ call'[h] = c /\ plan'[h] = p
      BY <1>2, <2>1 DEF GoroutinesOK, After
    <3> QED
      BY <3>1 DEF Rests, RestsAt
  <2>2. CASE h # g
    <3>1. pc'[h] = pc[h] /\ call'[h] = call[h] /\ plan'[h] = plan[h]
      BY <1>2, <2>2 DEF GoroutinesOK, After
    <3>2. Rests(h)
      BY TypeParts
    <3>3. \A i : Exists(work, i) => Exists(work', i)
      BY DEF Exists
    <3> QED
      BY <3>1, <3>2, <3>3 DEF Rests
  <2> QED
    BY <2>1, <2>2
<1> QED
  BY <1>1, <1>3, <1>4, TypeParts DEF TypeOK, AroundOK, SettledOK, GoroutinesOK

\* What a goroutine has, typed; and it stays what it is if nothing assigns it.
LEMMA GoroutineTypes ==
    ASSUME TypeOK, NEW g \in Goroutines
    PROVE  /\ pc[g] \in Steps /\ plan[g] \in PlanOrNone /\ err[g] \in Errors
           /\ pc[g] # "idle" => call[g] \in Calls
           /\ pc[g] \in RequestSteps => ~Invalid(call[g])
           /\ call = [call EXCEPT ![g] = call[g]]
           /\ plan = [plan EXCEPT ![g] = plan[g]]
           /\ err = [err EXCEPT ![g] = err[g]]
  BY DEF TypeOK, Rests

\* A step that neither writes to the working copy nor leads to a write.
LEMMA MoveType ==
    ASSUME TypeOK, NEW g \in Goroutines, AroundOK', Settles \/ UNCHANGED settled,
           UNCHANGED work, pc[g] # "idle", UNCHANGED <<call, plan>>,
           NEW s \in Steps, s \notin {"write", "bind"}, pc' = [pc EXCEPT ![g] = s],
           s \in RequestSteps => ~Invalid(call[g]),
           NEW e \in Errors, err' = [err EXCEPT ![g] = e]
    PROVE  TypeOK'
<1>1. After(g, s, call[g], plan[g], e)
  BY GoroutineTypes DEF After
<1>2. RestsAt(work', s, call[g], plan[g])
  BY GoroutineTypes DEF RestsAt
<1> QED
  BY <1>1, <1>2, StepType

LEMMA CallType ==
    ASSUME TypeOK, NEW g \in Goroutines, Call(g)
    PROVE  TypeOK'
<1>1. PICK c \in CallsOf[g] : call' = [call EXCEPT ![g] = c]
  BY DEF Call
<1>2. c \in Calls
  BY SharedAssumption
<1>3. AroundOK'
  BY DEF Call, AroundOK, TypeOK, Fresh, Exists
<1>4. pc' = [pc EXCEPT ![g] = "lock"] /\ "lock" \in Steps /\ "lock" \notin RequestSteps
  BY DEF Call, Goto, Steps, RequestSteps
<1>5. UNCHANGED <<plan, err, work, settled>>
  BY DEF Call
<1>6. After(g, "lock", c, plan[g], err[g])
  BY <1>1, <1>4, <1>5, GoroutineTypes DEF After
<1>7. RestsAt(work', "lock", c, plan[g])
  BY <1>2, <1>4, GoroutineTypes DEF RestsAt
<1> QED
  BY <1>3, <1>5, <1>6, <1>7, GoroutineTypes, StepType

LEMMA EnterType ==
    ASSUME TypeOK, NEW g \in Goroutines, Enter(g)
    PROVE  TypeOK'
<1> DEFINE c == call[g]
<1>1. pc[g] = "lock" /\ c \in Calls
  BY GoroutineTypes DEF Enter
<1>2. AroundOK'
  BY DEF Enter, AroundOK, TypeOK, Fresh, Exists, Returns, Unlocks
<1>3. Settles /\ UNCHANGED <<call, work>>
  BY DEF Enter
<1>4. ASSUME NEW e \in Errors, Returns(g, e), UNCHANGED plan
      PROVE  TypeOK'
  BY <1>1, <1>2, <1>3, <1>4, MoveType DEF Returns, Goto, Steps, RequestSteps
<1>5. ASSUME ~Invalid(c), Goto(g, FirstStep(c)), UNCHANGED err,
             plan' = IF c.operation = "create"
                     THEN [plan EXCEPT ![g] = Creation(c.bundle)] ELSE plan
      PROVE  TypeOK'
  <2>1. CASE c.operation = "create"
    <3>1. c.bundle \in Bundles /\ ValidBundle(c.bundle)
      BY <1>1, <1>5, <2>1 DEF Calls, Invalid, ValidArguments, StageOperations
    <3>2. /\ Creation(c.bundle) \in PlanRecords /\ Creation(c.bundle).bundle = c.bundle
          /\ Creation(c.bundle).id = NoCertificate
      BY <3>1 DEF Creation, PlanRecords
    <3>3. pc' = [pc EXCEPT ![g] = "write"]
      BY <1>5, <2>1 DEF FirstStep, Goto
    <3> HIDE DEF c
    <3>4. /\ plan' = [plan EXCEPT ![g] = Creation(c.bundle)]
          /\ ValidBundle(Creation(c.bundle).bundle)
      BY <1>5, <2>1, <3>1, <3>2
    <3>5. Creation(c.bundle) \in PlanOrNone /\ "write" \in Steps
      BY <3>2 DEF PlanOrNone, Steps
    <3>6. call' = [call EXCEPT ![g] = c] /\ err' = [err EXCEPT ![g] = err[g]] /\ err[g] \in Errors
      BY <1>3, <1>5, GoroutineTypes DEF c
    <3>7. After(g, "write", c, Creation(c.bundle), err[g])
      BY <3>3, <3>4, <3>6 DEF After
    <3>8. RestsAt(work', "write", c, Creation(c.bundle))
      BY <1>1, <1>5, <3>2, <3>4, <3>5 DEF RestsAt
    <3> QED
      BY <1>2, <1>3, <3>6, <3>7, <3>8, StepType
  <2>2. CASE c.operation # "create"
    <3>1. FirstStep(c) \in Steps \ {"write", "bind"}
      BY <2>2, TypeOK DEF FirstStep, Steps
    <3> QED
      BY <1>1, <1>2, <1>3, <1>5, <2>2, <3>1, MoveType, GoroutineTypes DEF Goto
  <2> QED
    BY <2>1, <2>2
<1> QED
  BY <1>4, <1>5 DEF Enter, Errors

LEMMA ResolveType ==
    ASSUME TypeOK, NEW g \in Goroutines, Resolve(g)
    PROVE  TypeOK'
<1> DEFINE c == call[g]
<1>1. pc[g] = "resolve" /\ c \in Calls
  BY GoroutineTypes DEF Resolve
<1>2. AroundOK'
  BY SharedAssumption DEF Resolve, AroundOK, TypeOK, Fresh, Exists, Returns, Unlocks, Continues,
     RequestFails, Answered, Fault
<1>3. Settles /\ UNCHANGED <<call, work>>
  BY DEF Resolve
<1>4. ASSUME NEW e \in Errors, Returns(g, e), UNCHANGED plan
      PROVE  TypeOK'
  BY <1>1, <1>2, <1>3, <1>4, MoveType DEF Returns, Goto, Steps, RequestSteps
<1>5. ASSUME NEW p \in Plans(work, c), plan' = [plan EXCEPT ![g] = p], Continues(g, "write")
      PROVE  TypeOK'
  <2>1. c.bundle \in Bundles /\ c.target \in Targets /\ c.passphrase \in Passphrases \cup {Empty}
    BY <1>1 DEF Calls
  <2>2. work \in Configurations
    BY DEF TypeOK
  <2>3. p \in PlanRecords /\ (p.id = NoCertificate \/ Exists(work, p.id))
    BY <2>1, <2>2, PlansType
  <2>4. ~Invalid(c)
    BY <1>1, GoroutineTypes DEF RequestSteps
  <2>5. ValidBundle(p.bundle)
    BY <2>4, PlansValid DEF Invalid, ValidArguments, StageOperations
  <2>6. pc' = [pc EXCEPT ![g] = "write"] /\ "write" \in Steps /\ UNCHANGED err
    BY <1>5 DEF Continues, Goto, Steps
  <2>7. p \in PlanOrNone
    BY <2>3 DEF PlanOrNone
  <2>8. call' = [call EXCEPT ![g] = c] /\ err' = [err EXCEPT ![g] = err[g]] /\ err[g] \in Errors
    BY <1>3, <2>6, GoroutineTypes
  <2> HIDE DEF c
  <2>9. After(g, "write", c, p, err[g])
    BY <1>5, <2>6, <2>8 DEF After
  <2>10. RestsAt(work', "write", c, p)
    BY <1>1, <1>3, <2>3, <2>4, <2>5, <2>6, <2>7 DEF RestsAt
  <2> QED
    BY <1>2, <1>3, <2>8, <2>9, <2>10, StepType
<1>6. "none" \in Errors /\ "stage" \in Errors
  BY DEF Errors
<1> QED
  BY <1>4, <1>5, <1>6 DEF Resolve

\* A POST or PATCH that takes effect keeps the working copy and the IDs in order.
LEMMA WrittenType ==
    ASSUME TypeOK, NEW g \in Goroutines, pc[g] = "write", NEW id \in CertificateIds,
           id = WrittenId(g), id > 0, Written(g, id)
    PROVE  /\ work' \in Configurations
           /\ nextId' \in Nat \ {0}
           /\ Fresh'
           /\ \A i \in CertificateIds : Exists(work, i) => Exists(work', i)
           /\ Exists(work', id)
           /\ plan' = [plan EXCEPT ![g] = [plan[g] EXCEPT !.id = id]]
           /\ [plan[g] EXCEPT !.id = id] \in PlanRecords
<1>1. plan[g] \in PlanRecords /\ (plan[g].id = NoCertificate \/ Exists(work, plan[g].id))
  BY DEF TypeOK, Rests
<1>2. work \in Configurations /\ nextId \in Nat \ {0}
  BY DEF TypeOK
<1>3. plan[g].id # NoCertificate => id = plan[g].id /\ Exists(work, id)
  BY <1>1 DEF WrittenId
<1>4. work' = WriteIn(work, plan[g], id)
  BY DEF Written
<1>5. /\ work' \in Configurations
      /\ \A i \in CertificateIds : Exists(work', i) <=> Exists(work, i) \/ i = id
  BY <1>1, <1>2, <1>3, <1>4, WriteInType
<1>6. \A i \in CertificateIds : i \in Int
  BY ConfigurationAssumption
<1>7. \A i \in CertificateIds : i >= nextId => ~Exists(work, i)
  BY DEF TypeOK, Fresh
<1>8. nextId' \in Nat \ {0} /\ Fresh'
  <2>1. CASE plan[g].id = NoCertificate
    <3>1. nextId' = nextId + 1 /\ id = nextId
      BY <2>1 DEF Written, WrittenId
    <3> QED
      BY <1>2, <1>5, <1>6, <1>7, <3>1 DEF Fresh
  <2>2. CASE plan[g].id # NoCertificate
    <3>1. nextId' = nextId /\ Exists(work, id)
      BY <1>3, <2>2 DEF Written
    <3> QED
      BY <1>2, <1>5, <1>7, <3>1 DEF Fresh
  <2> QED
    BY <2>1, <2>2
<1>9. plan' = [plan EXCEPT ![g] = [plan[g] EXCEPT !.id = id]]
  BY DEF Written, TypeOK
<1>10. [plan[g] EXCEPT !.id = id] \in PlanRecords
  BY <1>1 DEF PlanRecords
<1> QED
  BY <1>5, <1>8, <1>9, <1>10

\* An updated plan record writes what it wrote, to the given ID.
LEMMA PlanUpdate ==
    ASSUME NEW p \in PlanRecords, NEW id
    PROVE  LET q == [p EXCEPT !.id = id]
           IN  q.id = id /\ q.hosts = p.hosts /\ q.bundle = p.bundle
  BY DEF PlanRecords

\* The bound on faults is kept by a request that fails and by one that does not.
LEMMA FaultType ==
    ASSUME TypeOK, UNCHANGED faults \/ Fault
    PROVE  faults' \in 0 .. MaxFaults
<1>1. faults \in 0 .. MaxFaults /\ MaxFaults \in Nat
  BY SharedAssumption DEF TypeOK
<1>2. CASE UNCHANGED faults
  BY <1>1, <1>2
<1>3. CASE Fault
  BY <1>1, <1>3 DEF Fault
<1> QED
  BY <1>2, <1>3

\* A flag that is set or left alone stays a Boolean.
LEMMA FlagType ==
    ASSUME TypeOK
    PROVE  /\ UNCHANGED changed \/ changed' = TRUE => changed' \in BOOLEAN
           /\ UNCHANGED closed \/ closed' = TRUE => closed' \in BOOLEAN
           /\ UNCHANGED cancelled \/ cancelled' = TRUE => cancelled' \in BOOLEAN
  BY Zenon DEF TypeOK

LEMMA WriteType ==
    ASSUME TypeOK, NEW g \in Goroutines, Write(g)
    PROVE  TypeOK'
<1> DEFINE id == WrittenId(g)
           q == [plan[g] EXCEPT !.id = id]
<1>1. /\ pc[g] = "write" /\ Settles /\ id \in CertificateIds
      /\ UNCHANGED <<call, closed, active, cancelled>>
  BY DEF Write
<1>2. /\ plan[g] \in PlanRecords /\ ValidBundle(plan[g].bundle) /\ call[g] \in Calls
      /\ ~Invalid(call[g])
  BY <1>1 DEF TypeOK, Rests, RequestSteps
<1>3. mu' \in Goroutines \cup {None} /\ changed' \in BOOLEAN /\ faults' \in 0 .. MaxFaults
  <2>1. UNCHANGED changed \/ changed' = TRUE
    BY Zenon DEF Write, Changed
  <2>2. UNCHANGED faults \/ Fault
    BY Zenon DEF Write, Answered, AnswerLost, RequestFails
  <2>3. UNCHANGED mu \/ mu' = None
    BY Zenon DEF Write, Returns, Unlocks, Continues
  <2> QED
    BY <2>1, <2>2, <2>3, FaultType, FlagType DEF TypeOK
<1>4. closed' \in BOOLEAN /\ active' \in Configurations /\ cancelled' \in BOOLEAN
  BY <1>1 DEF TypeOK
<1>5. {"none", "stage", "default-entity"} \subseteq Errors /\ {"done", "bind"} \subseteq Steps
  BY DEF Errors, Steps
<1>6. ASSUME NEW e \in Errors, Returns(g, e), UNCHANGED <<work, nextId, plan>>
      PROVE  TypeOK'
  <2>1. AroundOK'
    BY <1>3, <1>4, <1>6 DEF AroundOK, TypeOK, Fresh, Exists
  <2>2. pc' = [pc EXCEPT ![g] = "done"] /\ err' = [err EXCEPT ![g] = e] /\ "done" \notin RequestSteps
    BY <1>6 DEF Returns, Goto, RequestSteps
  <2> QED
    BY <1>1, <1>5, <1>6, <2>1, <2>2, MoveType
<1>7. ASSUME id > 0, Written(g, id), NEW s \in {"done", "bind"}, NEW e \in Errors,
             s = "bind" => plan[g].hosts # {},
             pc' = [pc EXCEPT ![g] = s], err' = [err EXCEPT ![g] = e]
      PROVE  TypeOK'
  <2>1. /\ work' \in Configurations /\ nextId' \in Nat \ {0} /\ Fresh'
        /\ \A i \in CertificateIds : Exists(work, i) => Exists(work', i)
        /\ Exists(work', id) /\ plan' = [plan EXCEPT ![g] = q] /\ q \in PlanRecords
    BY <1>1, <1>7, WrittenType
  <2>2. AroundOK'
    BY <1>3, <1>4, <2>1 DEF AroundOK
  <2>3. q.id = id /\ q.hosts = plan[g].hosts /\ q.bundle = plan[g].bundle
    BY <1>2, PlanUpdate
  <2> HIDE DEF q, id
  <2>4. call' = [call EXCEPT ![g] = call[g]]
    BY <1>1, GoroutineTypes
  <2>5. After(g, s, call[g], q, e)
    BY <1>7, <2>1, <2>4 DEF After
  <2>6. q \in PlanOrNone
    BY <2>1 DEF PlanOrNone
  <2>7. RestsAt(work', s, call[g], q)
    BY <1>2, <1>5, <1>7, <2>1, <2>3, <2>6 DEF RestsAt
  <2> QED
    BY <1>1, <1>7, <2>1, <2>2, <2>5, <2>7, StepType
<1>8. CASE Answered /\ id > 0 /\ Written(g, id) /\ plan[g].hosts # {} /\ Continues(g, "bind")
  BY <1>7, <1>8, GoroutineTypes DEF Continues, Goto
<1>9. CASE id > 0 /\ Written(g, id) /\ \E e \in {"none", "stage"} : Returns(g, e)
  BY <1>5, <1>7, <1>9 DEF Returns, Goto
<1>10. CASE UNCHANGED <<work, nextId, plan>> /\ \E e \in {"default-entity", "stage"} : Returns(g, e)
  BY <1>5, <1>6, <1>10
<1> QED
  BY <1>8, <1>9, <1>10 DEF Write

LEMMA BindType ==
    ASSUME TypeOK, NEW g \in Goroutines, Bind(g)
    PROVE  TypeOK'
<1>1. /\ pc[g] = "bind" /\ Settles /\ UNCHANGED <<call, plan, nextId, closed, active, cancelled>>
  BY DEF Bind
<1>2. plan[g] \in PlanRecords /\ Exists(work, plan[g].id) /\ call[g] \in Calls
  BY <1>1 DEF TypeOK, Rests
<1>3. plan[g].id \in CertificateIds /\ plan[g].hosts \subseteq VirtualHosts
  BY <1>2 DEF Exists, PlanRecords
<1>4. /\ work' \in Configurations
      /\ \A i \in CertificateIds : Exists(work', i) <=> Exists(work, i)
  BY <1>3, ConnectKeeps DEF Bind, TypeOK
<1>5. PICK e \in {"none", "stage"} : Returns(g, e)
  BY DEF Bind
<1>6. changed' \in BOOLEAN /\ faults' \in 0 .. MaxFaults
  <2>1. UNCHANGED changed \/ changed' = TRUE
    BY Zenon DEF Bind, Changed
  <2>2. UNCHANGED faults \/ Fault
    BY Zenon DEF Bind, Answered, AnswerLost, RequestFails
  <2> QED
    BY <2>1, <2>2, FaultType, FlagType
<1>7. AroundOK'
  BY <1>1, <1>4, <1>5, <1>6 DEF AroundOK, TypeOK, Fresh, Returns, Unlocks
<1>8. e \in Errors /\ "done" \in Steps /\ "done" \notin RequestSteps
  BY DEF Errors, Steps, RequestSteps
<1>9. After(g, "done", call[g], plan[g], e)
  BY <1>1, <1>5, GoroutineTypes DEF After, Returns, Goto
<1>10. RestsAt(work', "done", call[g], plan[g])
  BY <1>2, <1>8, GoroutineTypes DEF RestsAt
<1> QED
  BY <1>1, <1>4, <1>7, <1>8, <1>9, <1>10, StepType

LEMMA ValidateType ==
    ASSUME TypeOK, NEW g \in Goroutines, ValidateConfiguration(g)
    PROVE  TypeOK'
<1>1. /\ pc[g] = "validate" /\ Settles
      /\ UNCHANGED <<call, plan, work, nextId, changed, closed, active, cancelled>>
  BY DEF ValidateConfiguration
<1>2. faults' \in 0 .. MaxFaults /\ UNCHANGED mu
  BY SharedAssumption DEF ValidateConfiguration, TypeOK, Answered, RequestFails, Fault, Continues, Finishing
<1>3. AroundOK'
  BY <1>1, <1>2 DEF AroundOK, TypeOK, Fresh, Exists
<1>4. ~Invalid(call[g])
  BY <1>1, GoroutineTypes DEF RequestSteps
<1>5. PICK s \in {"activate", "terminate"}, e \in Errors :
            pc' = [pc EXCEPT ![g] = s] /\ err' = [err EXCEPT ![g] = e]
  BY GoroutineTypes DEF ValidateConfiguration, Continues, Finishing, Goto, Errors
<1> QED
  BY <1>1, <1>3, <1>4, <1>5, MoveType DEF Steps

LEMMA ActivateType ==
    ASSUME TypeOK, NEW g \in Goroutines, Activate(g)
    PROVE  TypeOK'
<1>1. /\ pc[g] = "activate" /\ Settles
      /\ UNCHANGED <<call, plan, work, nextId, changed, closed, cancelled>>
  BY DEF Activate
<1>2. faults' \in 0 .. MaxFaults /\ UNCHANGED mu
  BY SharedAssumption DEF Activate, TypeOK, Answered, RequestFails, AnswerLost, Fault, Finishing
<1>3. active' \in Configurations
  BY DEF Activate, TypeOK
<1>4. AroundOK'
  BY <1>1, <1>2, <1>3 DEF AroundOK, TypeOK, Fresh, Exists
<1>5. ~Invalid(call[g])
  BY <1>1, GoroutineTypes DEF RequestSteps
<1>6. PICK e \in Errors : pc' = [pc EXCEPT ![g] = "terminate"] /\ err' = [err EXCEPT ![g] = e]
  BY DEF Activate, Finishing, Goto, Errors
<1> QED
  BY <1>1, <1>4, <1>5, <1>6, MoveType DEF Steps

LEMMA FinishType ==
    ASSUME TypeOK, NEW g \in Goroutines, Finish(g)
    PROVE  TypeOK'
<1>1. /\ pc[g] = "terminate" /\ Settles
      /\ UNCHANGED <<call, plan, work, nextId, changed, active, cancelled>>
  BY DEF Finish
<1>2. PICK e \in Errors : Returns(g, e)
  BY GoroutineTypes DEF Finish, Errors
<1>3. faults' \in 0 .. MaxFaults /\ closed' \in BOOLEAN
  <2>1. closed' = TRUE
    BY Zenon DEF Finish, Closes
  <2>2. UNCHANGED faults \/ Fault
    BY Zenon DEF Finish
  <2> QED
    BY <2>1, <2>2, FaultType
<1>4. AroundOK'
  BY <1>1, <1>2, <1>3 DEF AroundOK, TypeOK, Fresh, Exists, Returns, Unlocks
<1> QED
  BY <1>1, <1>2, <1>4, MoveType DEF Returns, Goto, Steps, RequestSteps

LEMMA InitType == Init => TypeOK
<1> SUFFICES ASSUME Init
             PROVE  TypeOK
  OBVIOUS
<1>1. Snapshot \in [work : Configurations, changed : BOOLEAN, closed : BOOLEAN,
                    active : Configurations]
  BY SharedAssumption DEF Init, Snapshot
<1>2. \A g \in Goroutines : Rests(g)
  BY DEF Init, Rests, RequestSteps
<1>3. Fresh
  BY SharedAssumption DEF Init, Fresh
<1>4. /\ mu \in Goroutines \cup {None} /\ nextId \in Nat \ {0} /\ faults \in 0 .. MaxFaults
      /\ work \in Configurations /\ active \in Configurations
  BY SharedAssumption DEF Init
<1>5. changed \in BOOLEAN /\ closed \in BOOLEAN /\ cancelled \in BOOLEAN
  BY DEF Init
<1>6. GoroutinesOK
  BY DEF Init, GoroutinesOK, Steps, Errors, PlanOrNone
<1>7. SettledOK
  BY <1>1 DEF Init, SettledOK
<1> QED
  BY <1>2, <1>3, <1>4, <1>5, <1>6, <1>7, TypeParts DEF AroundOK

\* Every step keeps the type invariant.
LEMMA NextType == TypeOK /\ [Next]_vars => TypeOK'
<1> SUFFICES ASSUME TypeOK, [Next]_vars
             PROVE  TypeOK'
  OBVIOUS
<1>1. CASE UNCHANGED vars
  BY <1>1, TypeParts DEF vars, TypeOK, Rests, Fresh, Exists
<1>2. CASE Cancel
  <2>1. AroundOK'
    BY <1>2, SharedAssumption DEF Cancel, Fault, AroundOK, TypeOK, Fresh, Exists
  <2>2. SettledOK' /\ GoroutinesOK' /\ \A g \in Goroutines : Rests(g)'
    BY <1>2, TypeParts DEF Cancel, SettledOK, GoroutinesOK, Rests, Exists
  <2> QED
    BY <2>1, <2>2, TypeParts DEF TypeOK, AroundOK, SettledOK, GoroutinesOK
<1>3. ASSUME NEW g \in Goroutines, Call(g) \/ Enter(g) \/ Step(g)
      PROVE  TypeOK'
  BY <1>3, CallType, EnterType, ResolveType, WriteType, BindType, ValidateType, ActivateType,
     FinishType DEF Step
<1> QED
  BY <1>1, <1>2, <1>3 DEF Next, Terminating

\* For every instance, what each call of a shared transaction rests on is there
\* when its request is made, whoever else uses the transaction.
THEOREM SharedTypeCorrect == Spec => []TypeOK
  BY InitType, NextType, PTL DEF Spec

(***************************************************************************)
(* Mutual exclusion, and what the goroutine with t.mu has done so far to   *)
(* what was settled when it locked t.mu.                                   *)
(***************************************************************************)
Exclusion ==
    /\ \A g \in Goroutines : pc[g] \in RequestSteps <=> mu = g
    /\ mu # None => ~closed

StagePart(g) ==
    /\ call[g].operation \in StageOperations
    /\ changed = settled.changed
    /\ active = settled.active

WritePart(g) == plan[g] \in Sequential!Writes(settled.work, call[g])

BindPart(g) ==
    \E p \in Sequential!Writes(settled.work, call[g]) :
        /\ plan[g].id \in Sequential!WritableIds(settled.work, p)
        /\ plan[g].hosts = p.hosts
        /\ work = WriteIn(settled.work, p, plan[g].id)

CommitPart(g) == call[g].operation = "commit" /\ changed /\ active = settled.active

FinishPart(g) ==
    /\ call[g].operation \in {"commit", "abort"}
    /\ changed = settled.changed
    /\ active \in {settled.active} \cup {w \in {work} : changed}
    /\ (call[g].operation = "commit" /\ err[g] = "none") =>
          active = IF changed THEN work ELSE settled.active
    /\ call[g].operation = "abort" => active = settled.active

Holds(g) ==
    /\ pc[g] \in {"resolve", "write", "bind"} => StagePart(g)
    /\ pc[g] # "bind" => work = settled.work
    /\ pc[g] = "write" => WritePart(g)
    /\ pc[g] = "bind" => BindPart(g)
    /\ pc[g] \in {"validate", "activate"} => CommitPart(g) /\ changed = settled.changed
    /\ pc[g] = "terminate" => FinishPart(g)
    /\ pc[g] # "terminate" => err[g] = "none"

Settled ==
    /\ mu = None => settled = Snapshot
    /\ mu # None => ~settled.closed
    /\ \A g \in Goroutines : pc[g] \in RequestSteps => Holds(g)
    /\ \A g \in Goroutines : pc[g] \in {"idle", "lock"} => err[g] = "none"

Inv == TypeOK /\ Exclusion /\ Settled

Outcomes == [g \in Goroutines |-> Outcome(g)]

\* Goroutines have the mutex or nobody has.
LEMMA Owner ==
    ASSUME TypeOK, NEW g \in Goroutines
    PROVE  g # None
  BY SharedAssumption

\* A goroutine that returns settles what it leaves, and its caller knows how.
LEMMA ReturnStep ==
    ASSUME Inv, NEW g \in Goroutines, mu \in {g, None}, pc[g] \in Steps \ {"idle", "done"},
           NEW e, Returns(g, e), Settles, UNCHANGED call
    PROVE  /\ Exclusion' /\ Settled' /\ settled' = Snapshot'
           /\ Outcomes' = [Outcomes EXCEPT ![g] = IF e = "none" THEN "ok" ELSE "error"]
           /\ Outcomes[g] = "pending"
<1>1. pc \in [Goroutines -> Steps] /\ err \in [Goroutines -> Errors]
  BY DEF Inv, TypeOK
<1>2. pc' = [pc EXCEPT ![g] = "done"] /\ err' = [err EXCEPT ![g] = e] /\ mu' = None
  BY DEF Returns, Goto, Unlocks
<1>3. settled' = Snapshot'
  BY <1>2 DEF Settles
<1>4. \A h \in Goroutines : h # g => pc'[h] = pc[h] /\ err'[h] = err[h]
  BY <1>1, <1>2
<1>5. pc'[g] = "done" /\ err'[g] = e
  BY <1>1, <1>2
<1>6. \A h \in Goroutines : pc'[h] \notin RequestSteps
  BY <1>4, <1>5, Owner DEF Inv, Exclusion, RequestSteps
<1>7. Exclusion' /\ Settled'
  BY <1>2, <1>3, <1>4, <1>5, <1>6, Owner DEF Inv, Exclusion, Settled
<1>8. Outcomes' = [Outcomes EXCEPT ![g] = IF e = "none" THEN "ok" ELSE "error"]
  BY <1>4, <1>5 DEF Outcomes, Outcome
<1> QED
  BY <1>3, <1>7, <1>8 DEF Outcomes, Outcome

\* A request after which its goroutine goes on settles nothing yet.
LEMMA RequestStep ==
    ASSUME Inv, NEW g \in Goroutines, mu \in {g, None}, pc[g] \in Steps \ {"idle", "done"},
           NEW s \in RequestSteps, pc' = [pc EXCEPT ![g] = s], mu' = g, ~closed,
           UNCHANGED <<call, closed>>, Settles,
           NEW e, err' = [err EXCEPT ![g] = e],
           Holds(g)'
    PROVE  /\ Exclusion' /\ Settled' /\ UNCHANGED settled
           /\ Outcomes' = Outcomes
<1>1. pc \in [Goroutines -> Steps] /\ err \in [Goroutines -> Errors]
  BY DEF Inv, TypeOK
<1>2. UNCHANGED settled
  BY Owner DEF Inv, Settles
<1>3. \A h \in Goroutines : h # g => pc'[h] = pc[h] /\ err'[h] = err[h]
  BY <1>1
<1>4. pc'[g] = s
  BY <1>1
<1>5. \A h \in Goroutines : h # g => pc'[h] \notin RequestSteps
  BY <1>3, Owner DEF Inv, Exclusion
<1>6. Exclusion'
  BY <1>4, <1>5, Owner DEF Inv, Exclusion
<1>7. ~settled.closed
  BY Owner DEF Inv, Settled, Snapshot
<1>8. Settled'
  BY <1>2, <1>3, <1>4, <1>5, <1>7, Owner DEF Inv, Settled, RequestSteps
<1>9. Outcomes' = Outcomes
  BY <1>3, <1>4 DEF Outcomes, Outcome, RequestSteps, Steps
<1> QED
  BY <1>2, <1>6, <1>8, <1>9

(***************************************************************************)
(* The step of SequentialTransaction that each action is.                  *)
(***************************************************************************)
SequentialStep == Sequential!Next \/ UNCHANGED Sequential!vars

\* What each action has to be shown to do.
Simulates == Exclusion' /\ Settled' /\ SequentialStep

\* The stages of SequentialTransaction are those of this module.
LEMMA SameStages ==
    /\ \A cfg, j : Sequential!Plans(cfg, j) = Plans(cfg, j)
    /\ \A cfg, j : Sequential!Satisfied(cfg, j) <=> Satisfied(cfg, j)
    /\ \A cfg, p, i : Sequential!WriteIn(cfg, p, i) = WriteIn(cfg, p, i)
    /\ \A cfg, i, v : Sequential!ConnectIn(cfg, i, v) = ConnectIn(cfg, i, v)
    /\ \A cfg, i : Sequential!Exists(cfg, i) <=> Exists(cfg, i)
    /\ Sequential!NoCertificate = NoCertificate
    /\ Sequential!StageOperations = StageOperations
<1>1. \A t, c, k, h, r : Sequential!NewCertificateBundle(t, c, k, h, r) = NewCertificateBundle(t, c, k, h, r)
  BY DEF NewCertificateBundle, Sequential!NewCertificateBundle, CertificateTypes,
     Sequential!CertificateTypes, BundleChecksum, Sequential!BundleChecksum,
     TypeOrDefault, Sequential!TypeOrDefault,
     CertificateMatchesKey, Sequential!CertificateMatchesKey, ValidCertificateChain,
     Sequential!ValidCertificateChain, RootPart, Sequential!RootPart
<1>2. \A k, p : Sequential!ParseEncryptedKey(k, p) = ParseEncryptedKey(k, p)
  BY DEF ParseEncryptedKey, Sequential!ParseEncryptedKey
<1>3. \A a, p : Sequential!ManagedCertificateFromResource(a, p) = ManagedCertificateFromResource(a, p)
  BY <1>1, <1>2 DEF ManagedCertificateFromResource,
     Sequential!ManagedCertificateFromResource
<1>4. /\ \A cfg, i : Sequential!Exists(cfg, i) <=> Exists(cfg, i)
      /\ \A a : Sequential!Redacted(a) = Redacted(a)
      /\ \A b : Sequential!AttributesFromBundle(b) = AttributesFromBundle(b)
      /\ \A a, b : Sequential!Patched(a, b) = Patched(a, b)
      /\ \A k : Sequential!EncryptedPrivateKeyPEM(k) <=> EncryptedPrivateKeyPEM(k)
      /\ Sequential!NoCertificate = NoCertificate
      /\ Sequential!StageOperations = StageOperations
  BY DEF Exists, Sequential!Exists, Redacted, Sequential!Redacted, AttributesFromBundle,
     Sequential!AttributesFromBundle, Patched, Sequential!Patched,
     EncryptedPrivateKeyPEM, Sequential!EncryptedPrivateKeyPEM, NoCertificate,
     Sequential!NoCertificate, StageOperations, Sequential!StageOperations
<1>5. /\ \A cfg, p, i : Sequential!WriteIn(cfg, p, i) = WriteIn(cfg, p, i)
      /\ \A cfg, i, v : Sequential!ConnectIn(cfg, i, v) = ConnectIn(cfg, i, v)
  BY <1>4 DEF WriteIn, Sequential!WriteIn, CreateIn, Sequential!CreateIn, PatchIn,
     Sequential!PatchIn, ConnectIn, Sequential!ConnectIn
<1>6. /\ \A t : Sequential!VirtualHostsOf(t) = VirtualHostsOf(t)
      /\ \A cfg, t : Sequential!SelectedIds(cfg, t) = SelectedIds(cfg, t)
      /\ \A cfg, t : Sequential!Resolvable(cfg, t) <=> Resolvable(cfg, t)
  <2>1. \A t : Sequential!VirtualHostsOf(t) = VirtualHostsOf(t)
    BY DEF VirtualHostsOf, Sequential!VirtualHostsOf
  <2>2. \A cfg, t : Sequential!SelectedIds(cfg, t) = SelectedIds(cfg, t)
    BY <2>1 DEF SelectedIds, Sequential!SelectedIds
  <2>3. \A S : Sequential!Cardinality(S) = Cardinality(S)
    BY DEF Cardinality, Sequential!Cardinality
  <2>4. \A cfg, t : Sequential!Resolvable(cfg, t) <=> Resolvable(cfg, t)
    BY <1>4, <2>1, <2>2, <2>3 DEF Resolvable, Sequential!Resolvable
  <2> QED
    BY <2>1, <2>2, <2>4
<1>7. \A cfg, i, p : Sequential!ReadCertificate(cfg, i, p) = ReadCertificate(cfg, i, p)
  BY <1>3, <1>4 DEF ReadCertificate, Sequential!ReadCertificate
<1>8. \A c, k, m : Sequential!Completed(c, k, m) = Completed(c, k, m)
  BY <1>1 DEF Completed, Sequential!Completed
<1>9. \A cfg, j : Sequential!DesiredBundles(cfg, j) = DesiredBundles(cfg, j)
  BY <1>6, <1>7, <1>8 DEF DesiredBundles, Sequential!DesiredBundles
<1>10. /\ \A cfg, i, b : Sequential!UpToDate(cfg, i, b) <=> UpToDate(cfg, i, b)
       /\ \A cfg, i, b : Sequential!Replaceable(cfg, i, b) <=> Replaceable(cfg, i, b)
       /\ \A cfg, j : Sequential!Readable(cfg, j) <=> Readable(cfg, j)
  BY <1>4, <1>6, <1>7 DEF UpToDate, Sequential!UpToDate, Replaceable,
     Sequential!Replaceable, Readable, Sequential!Readable
<1>11. /\ \A cfg, j, i, b : Sequential!Plan(cfg, j, i, b) = Plan(cfg, j, i, b)
       /\ \A b : Sequential!Creation(b) = Creation(b)
  <2>1. \A cfg, i, b : (~Sequential!UpToDate(cfg, i, b)) = (~UpToDate(cfg, i, b))
    BY <1>10
  <2>2. \A j, i : Sequential!NeedsNewCertificate(j, i) <=> NeedsNewCertificate(j, i)
    BY <1>4 DEF NeedsNewCertificate, Sequential!NeedsNewCertificate
  <2>3. \A cfg, j, i, b : Sequential!Plan(cfg, j, i, b) = Plan(cfg, j, i, b)
    BY <1>4, <1>6, <2>1, <2>2, Zenon DEF Plan, Sequential!Plan
  <2>4. \A b : Sequential!Creation(b) = Creation(b)
    BY <1>4 DEF Creation, Sequential!Creation
  <2> QED
    BY <2>3, <2>4
<1>12. \A cfg, j : Sequential!Plans(cfg, j) = Plans(cfg, j)
  <2>1. SUFFICES ASSUME NEW cfg, NEW j
                 PROVE  Sequential!Plans(cfg, j) = Plans(cfg, j)
    OBVIOUS
  <2> DEFINE P(i) == {Plan(cfg, j, i, b) : b \in {d \in DesiredBundles(cfg, j) : Replaceable(cfg, i, d)}}
             Q(i) == {Sequential!Plan(cfg, j, i, b) :
                        b \in {d \in Sequential!DesiredBundles(cfg, j) :
                                 Sequential!Replaceable(cfg, i, d)}}
  <2>2. ASSUME NEW i
        PROVE  P(i) = Q(i)
    BY <1>9, <1>10, <1>11
  <2>3. UNION {P(i) : i \in SelectedIds(cfg, j.target)}
          = UNION {Q(i) : i \in Sequential!SelectedIds(cfg, j.target)}
    <3> HIDE DEF P, Q
    <3> QED
      BY <1>6, <2>2
  <2> QED
    BY <1>6, <1>11, <2>3 DEF Plans, Sequential!Plans
<1>13. \A cfg, j : Sequential!Satisfied(cfg, j) <=> Satisfied(cfg, j)
  BY <1>10, <1>12 DEF Satisfied, Sequential!Satisfied
<1> QED
  BY <1>4, <1>5, <1>12, <1>13

LEMMA Stutter ==
    ASSUME UNCHANGED settled, UNCHANGED call, Outcomes' = Outcomes
    PROVE  SequentialStep
  BY DEF SequentialStep, Sequential!vars, Outcomes

\* What is settled changes as these say when a goroutine has returned.
LEMMA SettledFields ==
    ASSUME Inv, settled' = Snapshot'
    PROVE  /\ settled'.work = work' /\ settled'.changed = changed'
           /\ settled'.closed = closed' /\ settled'.active = active'
  BY DEF Snapshot

\* What a goroutine that has, or can get, t.mu finds settled.
LEMMA HolderFacts ==
    ASSUME Inv, NEW g \in Goroutines, mu \in {g, None}
    PROVE  /\ pc[g] \in RequestSteps => /\ mu = g /\ ~closed /\ ~settled.closed
                                        /\ Holds(g) /\ call[g] \in Calls
           /\ mu = None => settled = Snapshot
  BY Owner DEF Inv, Exclusion, Settled, TypeOK, Rests, RequestSteps

\* A goroutine that returns does so in SequentialTransaction.
LEMMA Calling ==
    ASSUME NEW g \in Goroutines, NEW o, Outcomes[g] = "pending",
           Outcomes' = [Outcomes EXCEPT ![g] = o], UNCHANGED call,
           NEW operations, call[g].operation \in operations
    PROVE  Sequential!Calling(g, operations) /\ Sequential!Returns(g, o)
  BY DEF Outcomes, Sequential!Calling, Sequential!Returns

LEMMA CallSimulates ==
    ASSUME Inv, NEW g \in Goroutines, Call(g)
    PROVE  Simulates
<1>1. PICK c \in CallsOf[g] : call' = [call EXCEPT ![g] = c]
  BY DEF Call
<1>2. pc \in [Goroutines -> Steps] /\ pc[g] = "idle" /\ pc' = [pc EXCEPT ![g] = "lock"]
  BY DEF Inv, TypeOK, Call, Goto
<1>3. /\ UNCHANGED <<mu, plan, err, work, changed, closed, active, settled>>
      /\ \A h \in Goroutines : h # g => pc'[h] = pc[h]
      /\ pc'[g] = "lock"
  BY <1>2 DEF Call
<1>4. \A h \in Goroutines : h # g => call'[h] = call[h]
  BY <1>1 DEF Inv, TypeOK
<1>5. Exclusion'
  BY <1>2, <1>3 DEF Inv, Exclusion, RequestSteps
<1>6. \A h \in Goroutines : pc'[h] \in RequestSteps => Holds(h)'
  <2>1. SUFFICES ASSUME NEW h \in Goroutines, pc'[h] \in RequestSteps
                 PROVE  Holds(h)'
    OBVIOUS
  <2>2. h # g /\ pc[h] \in RequestSteps
    BY <1>3, <2>1 DEF RequestSteps
  <2>3. Holds(h)
    BY <2>2 DEF Inv, Settled
  <2> QED
    BY <1>3, <1>4, <2>2, <2>3 DEF Holds, StagePart, WritePart, BindPart, CommitPart, FinishPart
<1>7. Settled'
  BY <1>2, <1>3, <1>6 DEF Inv, Settled, Snapshot
<1>8. Outcomes[g] = "idle" /\ Outcomes' = [Outcomes EXCEPT ![g] = "pending"]
  BY <1>2, <1>3 DEF Outcomes, Outcome
<1>9. Sequential!Call(g)
  BY <1>1, <1>3, <1>8 DEF Sequential!Call, Outcomes
<1> QED
  BY <1>5, <1>7, <1>9 DEF Simulates, SequentialStep, Sequential!Next

LEMMA EnterSimulates ==
    ASSUME Inv, NEW g \in Goroutines, Enter(g)
    PROVE  Simulates
<1> DEFINE c == call[g]
<1>1. /\ pc[g] = "lock" /\ mu = None /\ Settles /\ c \in Calls
      /\ UNCHANGED <<call, work, changed, closed, active>>
  BY GoroutineTypes DEF Enter, MutexIsFree, Inv
<1>2. settled = Snapshot /\ err[g] = "none"
  BY <1>1 DEF Inv, Settled
<1>3. /\ settled.work = work /\ settled.changed = changed
      /\ settled.closed = closed /\ settled.active = active
  BY <1>2 DEF Snapshot
<1>4. pc[g] \in Steps \ {"idle", "done"}
  BY <1>1 DEF Steps
<1>5. ASSUME NEW e, Returns(g, e)
      PROVE  /\ Exclusion' /\ Settled' /\ UNCHANGED settled
             /\ Outcomes' = [Outcomes EXCEPT ![g] = IF e = "none" THEN "ok" ELSE "error"]
             /\ Outcomes[g] = "pending"
  <2>1. Snapshot' = Snapshot
    BY <1>1 DEF Snapshot
  <2> QED
    BY <1>1, <1>2, <1>4, <1>5, <2>1, ReturnStep
<1>6. CASE closed /\ Returns(g, IF c.operation = "abort" THEN "none" ELSE "closed")
  <2>1. Sequential!AfterClose(g)
    <3>1. CASE c.operation = "abort"
      <4>1. Returns(g, "none") /\ call[g].operation \in {"abort"}
        BY <1>6, <3>1
      <4>2. Outcomes[g] = "pending" /\ Outcomes' = [Outcomes EXCEPT ![g] = "ok"]
        BY <1>5, <4>1
      <4>3. Sequential!Calling(g, {"abort"}) /\ Sequential!Returns(g, "ok")
        BY <1>1, <4>1, <4>2, Calling
      <4> QED
        BY <1>3, <1>5, <1>6, <4>1, <4>3 DEF Sequential!AfterClose
    <3>2. CASE c.operation # "abort"
      <4>1. Returns(g, "closed") /\ call[g].operation \in Sequential!StageOperations \cup {"commit"}
        BY <1>1, <1>6, <3>2 DEF Calls, StageOperations, Sequential!StageOperations
      <4>2. Outcomes[g] = "pending" /\ Outcomes' = [Outcomes EXCEPT ![g] = "error"]
        BY <1>5, <4>1
      <4>3. /\ Sequential!Calling(g, Sequential!StageOperations \cup {"commit"})
            /\ Sequential!Returns(g, "error")
        BY <1>1, <4>1, <4>2, Calling
      <4> QED
        BY <1>3, <1>5, <1>6, <4>1, <4>3 DEF Sequential!AfterClose
    <3> QED
      BY <3>1, <3>2
  <2> QED
    BY <1>5, <1>6, <2>1 DEF Simulates, SequentialStep, Sequential!Next
<1>7. CASE ~closed /\ Invalid(c) /\ Returns(g, "arguments")
  <2>1. Sequential!Stage(g)
    BY <1>1, <1>3, <1>5, <1>7
       DEF Sequential!Stage, Sequential!Calling, Sequential!Returns, Outcomes, Invalid,
           StageOperations, Sequential!StageOperations
  <2> QED
    BY <1>5, <1>7, <2>1 DEF Simulates, SequentialStep, Sequential!Next
<1>8. CASE /\ ~closed /\ mu' = g /\ Goto(g, FirstStep(c)) /\ UNCHANGED err
           /\ plan' = IF c.operation = "create"
                      THEN [plan EXCEPT ![g] = Creation(c.bundle)] ELSE plan
  <2>1. FirstStep(c) \in RequestSteps
    BY <1>1 DEF FirstStep, RequestSteps, Calls, StageOperations
  <2>2. pc' = [pc EXCEPT ![g] = FirstStep(c)] /\ pc'[g] = FirstStep(c)
    BY <1>8 DEF Goto, Inv, TypeOK
  <2>3. err' = [err EXCEPT ![g] = "none"] /\ err'[g] = "none"
    BY <1>2, <1>8 DEF Inv, TypeOK
  <2>4. UNCHANGED settled
    BY <1>1, <1>8, Owner DEF Settles, Inv
  <2>5. FirstStep(c) = "write" => WritePart(g)'
    <3>1. SUFFICES ASSUME c.operation = "create"
                   PROVE  WritePart(g)'
      BY <1>1 DEF FirstStep
    <3>2. plan'[g] = Creation(c.bundle)
      BY <1>8, <3>1 DEF Inv, TypeOK
    <3> QED
      BY <1>1, <2>4, <3>1, <3>2, SameStages DEF WritePart, Sequential!Writes, Plans,
         Creation
  <2>6. Holds(g)'
    BY <1>1, <1>3, <2>2, <2>3, <2>4, <2>5
       DEF Holds, FirstStep, StagePart, CommitPart, FinishPart, Calls, StageOperations
  <2>7. Exclusion' /\ Settled' /\ UNCHANGED settled /\ Outcomes' = Outcomes
    BY <1>1, <1>4, <1>8, <2>1, <2>2, <2>3, <2>6, RequestStep
  <2> QED
    BY <1>1, <2>7, Stutter DEF Simulates
<1> QED
  BY <1>6, <1>7, <1>8 DEF Enter, Open

\* What a stage may have done by the time it returns e.
StageOutcome(g, e) ==
    \/ /\ e = "none"
       /\ Satisfied(settled.work, call[g])
       /\ work' = settled.work /\ changed' = settled.changed
    \/ /\ e = "none"
       /\ \E p \in Sequential!Writes(settled.work, call[g]) :
             work' \in Sequential!Whole(settled.work, p)
       /\ changed' = TRUE
    \/ e # "none" /\ work' = settled.work /\ changed' = settled.changed
    \/ /\ e # "none"
       /\ \E p \in Sequential!Writes(settled.work, call[g]) :
             work' \in Sequential!Remains(settled.work, p)
       /\ changed' = settled.changed

\* What the goroutine with t.mu has found and done, in a stage.
LEMMA StageFacts ==
    ASSUME Inv, NEW g \in Goroutines, pc[g] \in {"resolve", "write", "bind"}
    PROVE  /\ mu = g /\ ~closed /\ ~settled.closed
           /\ call[g] \in Calls /\ call[g].operation \in StageOperations
           /\ changed = settled.changed /\ active = settled.active
           /\ pc[g] # "bind" => work = settled.work
           /\ pc[g] = "write" => WritePart(g)
           /\ pc[g] = "bind" => BindPart(g)
           /\ err[g] = "none"
<1>1. pc[g] \in RequestSteps
  BY DEF RequestSteps
<1>2. mu = g
  BY <1>1 DEF Inv, Exclusion
<1> QED
  BY <1>1, <1>2, HolderFacts DEF Holds, StagePart

LEMMA StageReturns ==
    ASSUME Inv, NEW g \in Goroutines, pc[g] \in {"resolve", "write", "bind"},
           NEW e, Returns(g, e), Settles, UNCHANGED <<call, closed, active>>,
           StageOutcome(g, e)
    PROVE  Simulates
<1>1. pc[g] \in Steps \ {"idle", "done"}
  BY DEF Steps
<1>2. /\ mu = g /\ ~settled.closed /\ closed = settled.closed /\ active = settled.active
      /\ call[g].operation \in Sequential!StageOperations
  <2>1. closed \in BOOLEAN /\ settled.closed \in BOOLEAN
    BY Zenon DEF Inv, TypeOK
  <2> QED
    BY <2>1, StageFacts, SameStages
<1>3. /\ Exclusion' /\ Settled' /\ settled' = Snapshot'
      /\ Outcomes' = [Outcomes EXCEPT ![g] = IF e = "none" THEN "ok" ELSE "error"]
      /\ Outcomes[g] = "pending"
  BY <1>1, <1>2, ReturnStep
<1>4. /\ settled'.work = work' /\ settled'.changed = changed'
      /\ settled'.closed = settled.closed /\ settled'.active = settled.active
  BY <1>2, <1>3, SettledFields
<1>5. /\ Sequential!Calling(g, Sequential!StageOperations)
      /\ Sequential!Returns(g, IF e = "none" THEN "ok" ELSE "error")
  BY <1>2, <1>3, Calling
<1>6. Sequential!Stage(g)
  <2>1. CASE /\ e = "none" /\ Satisfied(settled.work, call[g])
             /\ work' = settled.work /\ changed' = settled.changed
    BY <1>2, <1>4, <1>5, <2>1, SameStages DEF Sequential!Stage
  <2>2. CASE /\ e = "none"
             /\ \E p \in Sequential!Writes(settled.work, call[g]) :
                   work' \in Sequential!Whole(settled.work, p)
             /\ changed' = TRUE
    BY <1>2, <1>4, <1>5, <2>2 DEF Sequential!Stage
  <2>3. CASE e # "none" /\ work' = settled.work /\ changed' = settled.changed
    BY <1>2, <1>4, <1>5, <2>3 DEF Sequential!Stage
  <2>4. CASE /\ e # "none"
             /\ \E p \in Sequential!Writes(settled.work, call[g]) :
                   work' \in Sequential!Remains(settled.work, p)
             /\ changed' = settled.changed
    BY <1>2, <1>4, <1>5, <2>4 DEF Sequential!Stage
  <2> QED
    BY <2>1, <2>2, <2>3, <2>4 DEF StageOutcome
<1> QED
  BY <1>3, <1>6 DEF Simulates, SequentialStep, Sequential!Next

LEMMA ResolveSimulates ==
    ASSUME Inv, NEW g \in Goroutines, Resolve(g)
    PROVE  Simulates
<1>1. pc[g] = "resolve" /\ Settles /\ UNCHANGED <<call, work, changed, closed, active>>
  BY DEF Resolve
<1>2. /\ mu = g /\ ~closed /\ work = settled.work /\ changed = settled.changed
      /\ active = settled.active /\ call[g].operation \in StageOperations
  BY <1>1, StageFacts
<1>3. ASSUME NEW e, Returns(g, e), e = "none" => Satisfied(work, call[g])
      PROVE  Simulates
  <2>1. StageOutcome(g, e)
    BY <1>1, <1>2, <1>3 DEF StageOutcome
  <2> QED
    BY <1>1, <1>3, <2>1, StageReturns
<1>4. ASSUME NEW p \in Plans(work, call[g]), p.write, plan' = [plan EXCEPT ![g] = p],
             Continues(g, "write")
      PROVE  Simulates
  <2>1. pc' = [pc EXCEPT ![g] = "write"] /\ pc'[g] = "write" /\ mu' = g /\ UNCHANGED err
    BY <1>2, <1>4 DEF Continues, Goto, Inv, TypeOK
  <2>2. plan'[g] = p
    BY <1>4 DEF Inv, TypeOK
  <2>3. UNCHANGED settled
    BY <1>1, <2>1, Owner DEF Settles, Inv
  <2>4. err' = [err EXCEPT ![g] = "none"] /\ err'[g] = "none"
    BY <1>1, <2>1, StageFacts DEF Inv, TypeOK
  <2>5. WritePart(g)'
    BY <1>1, <1>2, <1>4, <2>2, <2>3, SameStages DEF WritePart, Sequential!Writes
  <2>6. Holds(g)'
    BY <1>1, <1>2, <2>1, <2>3, <2>4, <2>5 DEF Holds, StagePart
  <2>7. Exclusion' /\ Settled' /\ UNCHANGED settled /\ Outcomes' = Outcomes
    BY <1>1, <1>2, <2>1, <2>4, <2>6, RequestStep DEF RequestSteps, Steps
  <2> QED
    BY <1>1, <2>7, Stutter DEF Simulates
<1> QED
  BY <1>3, <1>4, Zenon DEF Resolve

\* A plan is written under an ID that SequentialTransaction allows.
LEMMA WriteIdAllowed ==
    ASSUME Inv, NEW g \in Goroutines, pc[g] = "write",
           WrittenId(g) \in CertificateIds, WrittenId(g) > 0
    PROVE  WrittenId(g) \in Sequential!WritableIds(settled.work, plan[g])
<1>1. work = settled.work
  BY StageFacts
<1>2. \A i \in CertificateIds : i >= nextId => ~Exists(work, i)
  BY DEF Inv, TypeOK, Fresh
<1>3. plan[g].id = NoCertificate => ~Exists(settled.work, WrittenId(g))
  BY <1>1, <1>2 DEF WrittenId, Inv, TypeOK
<1> QED
  BY <1>3, SameStages DEF WrittenId, Sequential!WritableIds

LEMMA WriteSimulates ==
    ASSUME Inv, NEW g \in Goroutines, Write(g)
    PROVE  Simulates
<1> DEFINE id == WrittenId(g)
<1>1. pc[g] = "write" /\ id \in CertificateIds /\ Settles /\ UNCHANGED <<call, closed, active>>
  BY DEF Write
<1>2. /\ mu = g /\ ~closed /\ work = settled.work /\ changed = settled.changed
      /\ active = settled.active /\ plan[g] \in Sequential!Writes(settled.work, call[g])
      /\ err[g] = "none" /\ call[g].operation \in StageOperations
  BY <1>1, StageFacts DEF WritePart
<1>3. ASSUME NEW e, Returns(g, e), e # "none", UNCHANGED <<work, changed>>
      PROVE  Simulates
  BY <1>1, <1>2, <1>3, StageReturns DEF StageOutcome
<1>4. ASSUME id > 0, Written(g, id)
      PROVE  /\ id \in Sequential!WritableIds(settled.work, plan[g])
             /\ work' = WriteIn(settled.work, plan[g], id)
             /\ plan' = [plan EXCEPT ![g].id = id]
  BY <1>1, <1>2, <1>4, WriteIdAllowed DEF Written
<1>5. CASE id > 0 /\ Written(g, id) /\ plan[g].hosts = {} /\ Changed(g) /\ Returns(g, "none")
  <2>1. work' \in Sequential!Whole(settled.work, plan[g])
    BY <1>4, <1>5, SameStages DEF Sequential!Whole
  <2>2. StageOutcome(g, "none")
    BY <1>2, <1>5, <2>1 DEF StageOutcome, Changed
  <2> QED
    BY <1>1, <1>5, <2>2, StageReturns
<1>6. CASE id > 0 /\ Written(g, id) /\ UNCHANGED changed /\ Returns(g, "stage")
  <2>1. work' \in Sequential!Remains(settled.work, plan[g])
    BY <1>4, <1>6, SameStages DEF Sequential!Remains
  <2>2. StageOutcome(g, "stage")
    BY <1>2, <1>6, <2>1 DEF StageOutcome
  <2> QED
    BY <1>1, <1>6, <2>2, StageReturns
<1>7. CASE id > 0 /\ Written(g, id) /\ plan[g].hosts # {} /\ Continues(g, "bind") /\ UNCHANGED changed
  <2>1. pc' = [pc EXCEPT ![g] = "bind"] /\ pc'[g] = "bind" /\ mu' = g /\ UNCHANGED err
    BY <1>2, <1>7 DEF Continues, Goto, Inv, TypeOK
  <2>2. UNCHANGED settled
    BY <1>1, <2>1, Owner DEF Settles, Inv
  <2>3. err' = [err EXCEPT ![g] = "none"] /\ err'[g] = "none"
    BY <1>2, <2>1 DEF Inv, TypeOK
  <2>4. plan'[g].id = id /\ plan'[g].hosts = plan[g].hosts
    <3>1. plan[g] \in PlanRecords
      BY <1>1 DEF Inv, TypeOK, Rests
    <3>2. plan'[g] = [plan[g] EXCEPT !.id = id]
      BY <1>4, <1>7 DEF Inv, TypeOK
    <3> QED
      BY <3>1, <3>2, PlanUpdate
  <2>5. BindPart(g)'
    BY <1>1, <1>2, <1>4, <1>7, <2>2, <2>4 DEF BindPart
  <2>6. Holds(g)'
    BY <1>1, <1>2, <1>7, <2>1, <2>2, <2>3, <2>5 DEF Holds, StagePart
  <2>7. Exclusion' /\ Settled' /\ UNCHANGED settled /\ Outcomes' = Outcomes
    BY <1>1, <1>2, <2>1, <2>3, <2>6, RequestStep DEF RequestSteps, Steps
  <2> QED
    BY <1>1, <2>7, Stutter DEF Simulates
<1> QED
  BY <1>3, <1>5, <1>6, <1>7 DEF Write

LEMMA BindSimulates ==
    ASSUME Inv, NEW g \in Goroutines, Bind(g)
    PROVE  Simulates
<1>1. pc[g] = "bind" /\ Settles /\ UNCHANGED <<call, plan, closed, active>>
  BY DEF Bind
<1>2. changed = settled.changed /\ BindPart(g)
  BY <1>1, StageFacts
<1>3. PICK p \in Sequential!Writes(settled.work, call[g]) :
            /\ plan[g].id \in Sequential!WritableIds(settled.work, p)
            /\ plan[g].hosts = p.hosts
            /\ work = WriteIn(settled.work, p, plan[g].id)
  BY <1>2 DEF BindPart
<1>4. ASSUME NEW v \in plan[g].hosts, work' = ConnectIn(work, plan[g].id, v)
      PROVE  work' \in Sequential!Whole(settled.work, p)
  BY <1>3, <1>4, SameStages DEF Sequential!Whole
<1>5. work \in Sequential!Remains(settled.work, p)
  BY <1>3, SameStages DEF Sequential!Remains
<1>6. CASE /\ \E v \in plan[g].hosts : work' = ConnectIn(work, plan[g].id, v)
           /\ Changed(g) /\ Returns(g, "none")
  <2>1. StageOutcome(g, "none")
    BY <1>4, <1>6 DEF StageOutcome, Changed
  <2> QED
    BY <1>1, <1>6, <2>1, StageReturns
<1>7. CASE /\ \E v \in plan[g].hosts : work' = ConnectIn(work, plan[g].id, v)
           /\ UNCHANGED changed /\ Returns(g, "stage")
  <2>1. StageOutcome(g, "stage")
    BY <1>2, <1>4, <1>7 DEF StageOutcome, Sequential!Remains
  <2> QED
    BY <1>1, <1>7, <2>1, StageReturns
<1>8. CASE UNCHANGED <<work, changed>> /\ Returns(g, "stage")
  <2>1. StageOutcome(g, "stage")
    BY <1>2, <1>5, <1>8 DEF StageOutcome
  <2> QED
    BY <1>1, <1>8, <2>1, StageReturns
<1> QED
  BY <1>6, <1>7, <1>8 DEF Bind

\* A commit that makes its next request.
LEMMA CommitGoesOn ==
    ASSUME Inv, NEW g \in Goroutines, pc[g] \in {"validate", "activate"}, UNCHANGED mu,
           NEW s \in {"activate", "terminate"}, pc' = [pc EXCEPT ![g] = s],
           NEW e, err' = [err EXCEPT ![g] = e], s = "activate" => e = "none",
           Settles, UNCHANGED <<call, work, changed, closed>>,
           \/ e = "none" /\ s = "terminate" /\ active' = work
           \/ (s = "activate" \/ e # "none") /\ active' \in {active, work},
           s = "activate" => UNCHANGED active
    PROVE  Simulates
<1>1. pc[g] \in RequestSteps /\ pc[g] \in Steps \ {"idle", "done"} /\ s \in RequestSteps
  BY DEF RequestSteps, Steps
<1>2. mu = g /\ ~closed /\ Holds(g)
  BY <1>1, Owner DEF Inv, Exclusion, Settled
<1>3. /\ call[g].operation = "commit" /\ changed /\ active = settled.active
      /\ work = settled.work /\ changed = settled.changed
  BY <1>2 DEF Holds, CommitPart
<1>4. UNCHANGED settled
  BY <1>2, Owner DEF Settles, Inv
<1>5. pc'[g] = s /\ err'[g] = e
  BY DEF Inv, TypeOK
<1>6. Holds(g)'
  BY <1>3, <1>4, <1>5 DEF Holds, CommitPart, FinishPart
<1>7. Exclusion' /\ Settled' /\ UNCHANGED settled /\ Outcomes' = Outcomes
  BY <1>1, <1>2, <1>6, RequestStep
<1> QED
  BY <1>7, Stutter DEF Simulates

LEMMA ValidateSimulates ==
    ASSUME Inv, NEW g \in Goroutines, ValidateConfiguration(g)
    PROVE  Simulates
<1>1. /\ pc[g] = "validate" /\ Settles /\ UNCHANGED <<call, work, changed, closed, active, mu>>
  BY DEF ValidateConfiguration, Continues, Finishing
<1>2. err[g] = "none" /\ err = [err EXCEPT ![g] = "none"]
  <2>1. Holds(g)
    BY <1>1 DEF Inv, Settled, RequestSteps
  <2> QED
    BY <1>1, <2>1 DEF Holds, Inv, TypeOK
<1>3. CASE Continues(g, "activate")
  BY <1>1, <1>2, <1>3, CommitGoesOn DEF Continues, Goto
<1>4. CASE \E e \in {"messages", "validate"} : Finishing(g, e)
  BY <1>1, <1>4, CommitGoesOn DEF Finishing, Goto
<1> QED
  BY <1>3, <1>4 DEF ValidateConfiguration

LEMMA ActivateSimulates ==
    ASSUME Inv, NEW g \in Goroutines, Activate(g)
    PROVE  Simulates
<1>1. /\ pc[g] = "activate" /\ Settles /\ UNCHANGED <<call, work, changed, closed, mu>>
  BY DEF Activate, Finishing
<1>2. CASE active' = work /\ Finishing(g, "none")
  BY <1>1, <1>2, CommitGoesOn DEF Finishing, Goto
<1>3. CASE active' \in {active, work} /\ Finishing(g, "activate")
  BY <1>1, <1>3, CommitGoesOn DEF Finishing, Goto
<1> QED
  BY <1>2, <1>3 DEF Activate

LEMMA FinishSimulates ==
    ASSUME Inv, NEW g \in Goroutines, Finish(g)
    PROVE  Simulates
<1>1. pc[g] = "terminate" /\ Settles /\ UNCHANGED <<call, work, changed, active>> /\ closed' = TRUE
  BY DEF Finish, Closes
<1>2. pc[g] \in RequestSteps /\ pc[g] \in Steps \ {"idle", "done"}
  BY <1>1 DEF RequestSteps, Steps
<1>3. mu = g /\ ~settled.closed /\ Holds(g)
  BY <1>2, Owner DEF Inv, Exclusion, Settled
<1>4. FinishPart(g) /\ work = settled.work
  BY <1>1, <1>3 DEF Holds
<1>5. PICK e : Returns(g, e) /\ (e = "none" => err[g] = "none")
  BY DEF Finish
<1>6. /\ Exclusion' /\ Settled' /\ settled' = Snapshot'
      /\ Outcomes' = [Outcomes EXCEPT ![g] = IF e = "none" THEN "ok" ELSE "error"]
      /\ Outcomes[g] = "pending"
  BY <1>1, <1>2, <1>3, <1>5, ReturnStep
<1>7. /\ settled'.work = settled.work /\ settled'.changed = settled.changed
      /\ settled'.closed = TRUE /\ settled'.active = active
  BY <1>1, <1>4, <1>6, SettledFields DEF FinishPart
<1>8. CASE call[g].operation = "commit"
  <2>1. /\ Sequential!Calling(g, {"commit"})
        /\ Sequential!Returns(g, IF e = "none" THEN "ok" ELSE "error")
    BY <1>1, <1>6, <1>8, Calling
  <2>2. e = "none" => active = IF settled.changed THEN settled.work ELSE settled.active
    BY <1>4, <1>5, <1>8 DEF FinishPart
  <2>3. active \in {settled.active} \cup {w \in {settled.work} : settled.changed}
    BY <1>4 DEF FinishPart
  <2>4. Sequential!Commit(g)
    BY <1>3, <1>7, <2>1, <2>2, <2>3 DEF Sequential!Commit
  <2> QED
    BY <1>6, <2>4 DEF Simulates, SequentialStep, Sequential!Next
<1>9. CASE call[g].operation = "abort"
  <2>1. /\ Sequential!Calling(g, {"abort"})
        /\ Sequential!Returns(g, IF e = "none" THEN "ok" ELSE "error")
    BY <1>1, <1>6, <1>9, Calling
  <2>2. Sequential!Abort(g)
    BY <1>3, <1>4, <1>7, <1>9, <2>1 DEF Sequential!Abort, FinishPart
  <2> QED
    BY <1>6, <2>2 DEF Simulates, SequentialStep, Sequential!Next
<1> QED
  BY <1>4, <1>8, <1>9 DEF FinishPart

(***************************************************************************)
(* The invariant, and the theorems.                                        *)
(***************************************************************************)
LEMMA InitInv == Init => Inv /\ Sequential!Init
<1> SUFFICES ASSUME Init
             PROVE  Inv /\ Sequential!Init
  OBVIOUS
<1>1. TypeOK
  BY InitType
<1>2. Exclusion /\ Settled
  BY Owner, <1>1 DEF Init, Exclusion, Settled, RequestSteps
<1>3. /\ settled.work = work /\ settled.changed = FALSE
      /\ settled.closed = FALSE /\ settled.active = work
  BY DEF Init, Snapshot
<1>4. Outcomes = [g \in Goroutines |-> "idle"]
  BY DEF Init, Outcomes, Outcome
<1>5. Sequential!Init
  BY <1>3, <1>4 DEF Init, Sequential!Init, Outcomes
<1> QED
  BY <1>1, <1>2, <1>5 DEF Inv

LEMMA NextInv == Inv /\ [Next]_vars => Inv' /\ SequentialStep
<1> SUFFICES ASSUME Inv, [Next]_vars
             PROVE  Inv' /\ SequentialStep
  OBVIOUS
<1>1. TypeOK'
  BY NextType DEF Inv
<1>2. ASSUME UNCHANGED <<mu, pc, call, plan, err, work, changed, closed, active, settled>>
      PROVE  Simulates
  <2>1. Exclusion'
    BY <1>2 DEF Inv, Exclusion
  <2>2. \A g \in Goroutines : Holds(g) => Holds(g)'
    BY <1>2 DEF Holds, StagePart, WritePart, BindPart, CommitPart, FinishPart
  <2>3. Settled'
    BY <1>2, <2>2 DEF Inv, Settled, Snapshot
  <2>4. Outcomes' = Outcomes
    BY <1>2 DEF Outcomes, Outcome
  <2> QED
    BY <1>2, <2>1, <2>3, <2>4, Stutter DEF Simulates
<1>3. ASSUME NEW g \in Goroutines, Call(g) \/ Enter(g) \/ Step(g)
      PROVE  Simulates
  BY <1>3, CallSimulates, EnterSimulates, ResolveSimulates, WriteSimulates, BindSimulates,
     ValidateSimulates, ActivateSimulates, FinishSimulates DEF Step
<1>4. Simulates
  BY <1>2, <1>3, Zenon DEF Next, Cancel, Terminating, vars
<1> QED
  BY <1>1, <1>4 DEF Simulates, Inv

LEMMA Invariance == Spec => []Inv
  BY InitInv, NextInv, PTL DEF Spec

\* t.mu, for every instance: one goroutine at a time makes requests, and none
\* once the transaction is closed.
THEOREM SharedExclusion == Spec => []OneAtATime
<1>1. Inv => OneAtATime
  BY Owner DEF Inv, Exclusion, OneAtATime
<1> QED
  BY <1>1, Invariance, PTL

\* For every instance, the calls that goroutines make at the same time have the
\* effects and the results they would have one after the other.
THEOREM SharedImplementsSequential == Spec => CallsAreSequential
<1>1. Init => Sequential!Init
  BY InitInv
<1>2. Inv /\ [Next]_vars => [Sequential!Next]_(Sequential!vars)
  BY NextInv DEF SequentialStep
<1> QED
  BY <1>1, <1>2, Invariance, PTL DEF Spec, CallsAreSequential, Sequential!Spec
(***************************************************************************)
(* What the goroutines have staged, and what a commit makes of it.         *)
(***************************************************************************)
\* The bundle of a plan, or that of another call's later plan for the same
\* resource, is the one written to it.
Held(cfg, p) ==
    /\ Exists(cfg, p.id)
    /\ \E h \in Goroutines :
          /\ plan[h] # None
          /\ plan[h].id = p.id
          /\ cfg.certificates[p.id].certificate = plan[h].bundle.certificate

Installed(cfg, p) ==
    /\ p.id > 0
    /\ Held(cfg, p)
    /\ \A v \in p.hosts : cfg.bound[v] = p.id

\* A call has a plan from its first write on. It binds one virtual host at most,
\* which has no certificate of its own until then.
Planned(g) ==
    /\ pc[g] \notin {"write", "bind", "done"} => plan[g] = None
    /\ plan[g] # None => \A v, w \in plan[g].hosts : v = w
    /\ pc[g] \in {"write", "bind"} => \A v \in plan[g].hosts : work.bound[v] <= 0
    /\ (pc[g] = "write" /\ plan[g].hosts # {}) => plan[g].id = NoCertificate
    /\ pc[g] = "bind" => plan[g].id > 0 /\ Held(work, plan[g])

Staged(g) == Wrote(g) => changed /\ Installed(work, plan[g])

Committed(g) ==
    (Succeeded(g) /\ call[g].operation = "commit") =>
        closed /\ (changed => active = work)

StageInv == \A g \in Goroutines : Planned(g) /\ Staged(g) /\ Committed(g)

\* The virtual hosts of a plan.
LEMMA PlanHosts ==
    ASSUME NEW cfg \in Configurations, NEW c \in Calls, NEW p \in Plans(cfg, c)
    PROVE  /\ \A v, w \in p.hosts : v = w
           /\ \A v \in p.hosts : cfg.bound[v] <= 0 \/ c.operation = "create"
           /\ p.hosts # {} => p.id = NoCertificate
<1>1. CASE c.operation = "create"
  BY <1>1 DEF Plans, Creation
<1>2. CASE c.operation # "create"
  <2>1. PICK id, b : /\ Resolvable(cfg, c.target) /\ id \in SelectedIds(cfg, c.target)
                     /\ p = Plan(cfg, c, id, b)
    BY <1>2 DEF Plans
  <2>2. SUFFICES ASSUME NeedsNewCertificate(c, id)
                 PROVE  /\ \A v, w \in VirtualHostsOf(c.target) : v = w
                        /\ \A v \in VirtualHostsOf(c.target) : cfg.bound[v] <= 0
    BY <2>1 DEF Plan
  <2>3. c.target \in Targets /\ c.target.kind = "virtualHost" /\ id <= 0
    BY <2>2 DEF Calls, NeedsNewCertificate, NoCertificate
  <2>4. PICK v \in VirtualHosts :
           VirtualHostsOf(c.target) = {v} /\ SelectedIds(cfg, c.target) = {cfg.bound[v]}
    BY <2>1, <2>3, OneSelected
  <2> QED
    BY <2>1, <2>3, <2>4
<1> QED
  BY <1>1, <1>2

\* As long as no plan is given up, what is in the working copy is still some
\* call's.
LEMMA HeldKept ==
    ASSUME UNCHANGED work, \A h \in Goroutines : plan[h] # None => plan'[h] = plan[h]
    PROVE  \A p : Held(work, p) => Held(work, p)'
  BY DEF Held, Exists

\* A POST or PATCH puts the bundle of its plan in the place of another, if any.
LEMMA HeldWritten ==
    ASSUME TypeOK, NEW g \in Goroutines, pc[g] = "write", NEW id \in CertificateIds,
           id = WrittenId(g), id > 0, Written(g, id)
    PROVE  /\ \A p : (p.id > 0 /\ Held(work, p)) => Held(work, p)'
           /\ Held(work, plan[g])'
           /\ plan'[g].id = id /\ plan'[g].hosts = plan[g].hosts /\ plan'[g] # None
           /\ \A v \in VirtualHosts : work'.bound[v] = work.bound[v]
           /\ \A h \in Goroutines : h # g => plan'[h] = plan[h]
<1> DEFINE b == plan[g].bundle
<1>1. plan[g] \in PlanRecords /\ (plan[g].id = NoCertificate \/ Exists(work, plan[g].id))
  BY DEF TypeOK, Rests
<1>2. /\ work' \in Configurations /\ Exists(work', id)
      /\ \A i \in CertificateIds : Exists(work, i) => Exists(work', i)
      /\ plan' = [plan EXCEPT ![g] = [plan[g] EXCEPT !.id = id]]
      /\ [plan[g] EXCEPT !.id = id] \in PlanRecords
  BY WrittenType
<1>3. /\ plan'[g] = [plan[g] EXCEPT !.id = id]
      /\ \A h \in Goroutines : h # g => plan'[h] = plan[h]
  BY <1>2 DEF TypeOK
<1>4. plan'[g].id = id /\ plan'[g].hosts = plan[g].hosts /\ plan'[g].bundle = b
  BY <1>1, <1>3, PlanUpdate
<1>5. plan'[g] # None
  BY <1>2, <1>3, SharedAssumption
<1>6. /\ work'.certificates[id].certificate = b.certificate
      /\ \A i \in CertificateIds : i # id => work'.certificates[i] = work.certificates[i]
      /\ \A v \in VirtualHosts : work'.bound[v] = work.bound[v]
  <2>1. /\ work \in Configurations /\ work' = WriteIn(work, plan[g], id)
        /\ AttributesFromBundle(b).certificate = b.certificate
    BY DEF TypeOK, Written, AttributesFromBundle
  <2>2. PICK a : /\ a.certificate = b.certificate
                 /\ work' = [work EXCEPT !.certificates[id] = a]
    <3>1. CASE plan[g].id = NoCertificate
      BY <2>1, <3>1 DEF WriteIn, CreateIn
    <3>2. CASE plan[g].id # NoCertificate
      <4>1. work' = [work EXCEPT !.certificates[id] = Patched(@, AttributesFromBundle(b))]
        BY <2>1, <3>2 DEF WriteIn, PatchIn
      <4>2. Patched(work.certificates[id], AttributesFromBundle(b)).certificate = b.certificate
        BY DEF Patched, AttributesFromBundle
      <4> QED
        BY <2>1, <4>1, <4>2 DEF Configurations
    <3> QED
      BY <3>1, <3>2
  <2> QED
    BY <2>1, <2>2 DEF Configurations
<1>7. Held(work, plan[g])'
  BY <1>2, <1>4, <1>5, <1>6 DEF Held
<1>8. ASSUME NEW p, p.id > 0, Held(work, p)
      PROVE  Held(work, p)'
  <2>1. CASE p.id = id
    BY <1>2, <1>4, <1>5, <1>6, <2>1 DEF Held
  <2>2. CASE p.id # id
    <3>1. PICK h \in Goroutines : /\ plan[h] # None /\ plan[h].id = p.id
                                  /\ work.certificates[p.id].certificate = plan[h].bundle.certificate
      BY <1>8 DEF Held
    <3>2. h # g
      BY <1>8, <2>2, <3>1 DEF WrittenId, NoCertificate
    <3>3. plan'[h] = plan[h]
      BY <1>3, <3>2
    <3>4. Exists(work', p.id) /\ work'.certificates[p.id] = work.certificates[p.id]
      BY <1>2, <1>6, <1>8, <2>2 DEF Held, Exists
    <3> QED
      BY <3>1, <3>3, <3>4 DEF Held
  <2> QED
    BY <2>1, <2>2
<1> QED
  BY <1>3, <1>4, <1>5, <1>6, <1>7, <1>8

\* A step of goroutine g keeps StageInv if it keeps what g has done, takes
\* nothing from what the others have staged, and does nothing once the
\* transaction is closed.
LEMMA StageStep ==
    ASSUME Inv, StageInv, NEW g \in Goroutines,
           \A h \in Goroutines : h # g => /\ pc'[h] = pc[h] /\ call'[h] = call[h]
                                          /\ plan'[h] = plan[h] /\ err'[h] = err[h],
           mu = g \/ UNCHANGED work,
           changed => changed',
           closed => closed' /\ UNCHANGED <<changed, active, work>>,
           \A p : (p.id > 0 /\ Held(work, p)) => Held(work, p)',
           \A v \in VirtualHosts : work.bound[v] > 0 => work'.bound[v] = work.bound[v],
           Planned(g)', Staged(g)', Committed(g)'
    PROVE  StageInv'
<1> SUFFICES ASSUME NEW h \in Goroutines, h # g
             PROVE  Planned(h)' /\ Staged(h)' /\ Committed(h)'
  BY DEF StageInv
<1>1. pc'[h] = pc[h] /\ call'[h] = call[h] /\ plan'[h] = plan[h] /\ err'[h] = err[h]
  OBVIOUS
<1>2. Planned(h) /\ Staged(h) /\ Committed(h)
  BY DEF StageInv
<1>3. Planned(h)'
  <2>1. pc[h] \in {"write", "bind"} => UNCHANGED work
    BY DEF Inv, Exclusion, RequestSteps
  <2>2. ASSUME pc[h] = "bind"
        PROVE  plan'[h].id > 0 /\ Held(work, plan[h])'
    <3>1. plan[h].id > 0 /\ Held(work, plan[h])
      BY <1>2, <2>2 DEF Planned
    <3> QED
      BY <1>1, <3>1 DEF Held
  <2> QED
    BY <1>1, <1>2, <2>1, <2>2 DEF Planned
<1>4. Staged(h)'
  <2>1. SUFFICES ASSUME Wrote(h)
                 PROVE  changed' /\ Installed(work, plan[h])'
    BY <1>1 DEF Staged, Wrote, Succeeded, Installed, Held
  <2>2. /\ changed /\ plan[h].id > 0 /\ Held(work, plan[h])
        /\ \A v \in plan[h].hosts : work.bound[v] = plan[h].id
    BY <1>2, <2>1 DEF Staged, Installed
  <2>3. plan[h].hosts \subseteq VirtualHosts
    BY <2>1 DEF Inv, TypeOK, PlanOrNone, PlanRecords, Wrote
  <2> QED
    BY <1>1, <2>2, <2>3 DEF Installed, Held
<1>5. Committed(h)'
  BY <1>1, <1>2 DEF Committed, Succeeded
<1> QED
  BY <1>3, <1>4, <1>5

\* What assigns no goroutine but g, in the terms of StageStep.
LEMMA GoroutineRows ==
    ASSUME TypeOK, NEW g \in Goroutines, NEW s, NEW e, pc' = [pc EXCEPT ![g] = s],
           err' = [err EXCEPT ![g] = e]
    PROVE  /\ pc'[g] = s /\ err'[g] = e
           /\ \A h \in Goroutines : h # g => pc'[h] = pc[h] /\ err'[h] = err[h]
  BY DEF TypeOK

\* A goroutine that has no plan yet and gets none, in a step that neither edits
\* the working copy nor activates it.
LEMMA PlanlessStep ==
    ASSUME Inv, StageInv, NEW g \in Goroutines, plan[g] = None,
           NEW s \in Steps \ {"write", "bind"}, pc' = [pc EXCEPT ![g] = s],
           NEW e, err' = [err EXCEPT ![g] = e],
           UNCHANGED <<call, plan, work, changed>>,
           closed => closed' /\ UNCHANGED active,
           Committed(g)'
    PROVE  StageInv'
<1>1. /\ pc'[g] = s /\ plan'[g] = None
      /\ \A h \in Goroutines : h # g => pc'[h] = pc[h] /\ err'[h] = err[h]
  BY GoroutineRows DEF Inv
<1>2. \A p : Held(work, p) => Held(work, p)'
  BY HeldKept
<1>3. Planned(g)' /\ Staged(g)'
  BY <1>1 DEF Planned, Staged, Wrote
<1> QED
  BY <1>1, <1>2, <1>3, StageStep

LEMMA CallStage ==
    ASSUME Inv, StageInv, NEW g \in Goroutines, Call(g)
    PROVE  StageInv'
<1>1. /\ pc[g] = "idle" /\ pc' = [pc EXCEPT ![g] = "lock"] /\ "lock" \in Steps
      /\ UNCHANGED <<plan, err, work, changed, closed, active>>
  BY DEF Call, Goto, Steps
<1>2. plan[g] = None
  BY <1>1 DEF StageInv, Planned
<1>3. /\ pc'[g] = "lock"
      /\ \A h \in Goroutines : h # g => pc'[h] = pc[h] /\ call'[h] = call[h]
  BY <1>1 DEF Call, Inv, TypeOK
<1>4. Planned(g)' /\ Staged(g)' /\ Committed(g)'
  BY <1>1, <1>2, <1>3 DEF Planned, Staged, Wrote, Committed, Succeeded
<1>5. \A p : Held(work, p) => Held(work, p)'
  BY <1>1, HeldKept
<1> QED
  BY <1>1, <1>3, <1>4, <1>5, StageStep

LEMMA EnterStage ==
    ASSUME Inv, StageInv, NEW g \in Goroutines, Enter(g)
    PROVE  StageInv'
<1> DEFINE c == call[g]
<1>1. pc[g] = "lock" /\ UNCHANGED <<call, work, changed, closed, active>>
  BY DEF Enter
<1>2. plan[g] = None
  BY <1>1 DEF StageInv, Planned
<1>3. ASSUME NEW e, Returns(g, e), UNCHANGED plan, e = "none" => c.operation = "abort"
      PROVE  StageInv'
  <2>1. pc' = [pc EXCEPT ![g] = "done"] /\ err' = [err EXCEPT ![g] = e] /\ "done" \in Steps
    BY <1>3 DEF Returns, Goto, Steps
  <2>2. err'[g] = e /\ call'[g] = c
    BY <1>1, <2>1, GoroutineRows DEF Inv
  <2>3. Committed(g)'
    BY <1>3, <2>2 DEF Committed, Succeeded
  <2> QED
    BY <1>1, <1>2, <1>3, <2>1, <2>3, PlanlessStep
<1>4. CASE closed /\ Returns(g, IF c.operation = "abort" THEN "none" ELSE "closed") /\ UNCHANGED plan
  BY <1>3, <1>4
<1>5. CASE ~closed /\ Invalid(c) /\ Returns(g, "arguments") /\ UNCHANGED plan
  BY <1>3, <1>5
<1>6. CASE /\ ~closed /\ Goto(g, FirstStep(c)) /\ UNCHANGED err
           /\ plan' = IF c.operation = "create"
                      THEN [plan EXCEPT ![g] = Creation(c.bundle)] ELSE plan
  <2>1. pc' = [pc EXCEPT ![g] = FirstStep(c)] /\ err' = [err EXCEPT ![g] = err[g]]
    BY <1>6 DEF Goto, Inv, TypeOK
  <2>2. CASE c.operation = "create"
    <3>1. /\ pc'[g] = "write"
          /\ \A h \in Goroutines : h # g => pc'[h] = pc[h] /\ err'[h] = err[h]
      BY <2>1, <2>2, GoroutineRows DEF FirstStep, Inv
    <3>2. /\ plan'[g].hosts = {}
          /\ \A h \in Goroutines : h # g => plan'[h] = plan[h]
      BY <1>6, <2>2 DEF Creation, Inv, TypeOK
    <3>3. Planned(g)' /\ Staged(g)' /\ Committed(g)'
      BY <3>1, <3>2 DEF Planned, Staged, Wrote, Committed, Succeeded
    <3>4. \A p : Held(work, p) => Held(work, p)'
      BY <1>1, <1>2, <3>2, HeldKept
    <3> QED
      BY <1>1, <3>1, <3>2, <3>3, <3>4, StageStep
  <2>3. CASE c.operation # "create"
    <3>1. FirstStep(c) \in Steps \ {"write", "bind"} /\ FirstStep(c) # "done"
      BY <2>3 DEF FirstStep, Steps
    <3>2. Committed(g)'
      BY <2>1, <3>1, GoroutineRows DEF Committed, Succeeded, Inv
    <3> QED
      BY <1>1, <1>2, <1>6, <2>1, <2>3, <3>1, <3>2, PlanlessStep
  <2> QED
    BY <2>2, <2>3
<1> QED
  BY <1>4, <1>5, <1>6 DEF Enter, Open

LEMMA ResolveStage ==
    ASSUME Inv, StageInv, NEW g \in Goroutines, Resolve(g)
    PROVE  StageInv'
<1>1. pc[g] = "resolve" /\ UNCHANGED <<call, work, changed, closed, active>>
  BY DEF Resolve
<1>2. plan[g] = None /\ mu = g /\ call[g] \in Calls /\ call[g].operation \in StageOperations
  BY <1>1, StageFacts DEF StageInv, Planned
<1>3. ASSUME NEW e, Returns(g, e), UNCHANGED plan
      PROVE  StageInv'
  <2>1. pc' = [pc EXCEPT ![g] = "done"] /\ err' = [err EXCEPT ![g] = e] /\ "done" \in Steps
    BY <1>3 DEF Returns, Goto, Steps
  <2>2. Committed(g)'
    BY <1>1, <1>2 DEF Committed, StageOperations
  <2> QED
    BY <1>1, <1>2, <1>3, <2>1, <2>2, PlanlessStep
<1>4. ASSUME NEW p \in Plans(work, call[g]), plan' = [plan EXCEPT ![g] = p], Continues(g, "write")
      PROVE  StageInv'
  <2>1. pc' = [pc EXCEPT ![g] = "write"] /\ err' = [err EXCEPT ![g] = err[g]]
    BY <1>4 DEF Continues, Goto, Inv, TypeOK
  <2>2. /\ pc'[g] = "write"
        /\ \A h \in Goroutines : h # g => pc'[h] = pc[h] /\ err'[h] = err[h]
    BY <2>1, GoroutineRows DEF Inv
  <2>3. plan'[g] = p /\ \A h \in Goroutines : h # g => plan'[h] = plan[h]
    BY <1>4 DEF Inv, TypeOK
  <2>4. /\ \A v, w \in p.hosts : v = w
        /\ \A v \in p.hosts : work.bound[v] <= 0
        /\ p.hosts # {} => p.id = NoCertificate
    <3>1. call[g].operation = "create" => p.hosts = {}
      BY DEF Plans, Creation
    <3> QED
      BY <1>2, <3>1, PlanHosts DEF Inv, TypeOK
  <2>5. Planned(g)' /\ Staged(g)' /\ Committed(g)'
    BY <1>1, <2>2, <2>3, <2>4 DEF Planned, Staged, Wrote, Committed, Succeeded
  <2>6. \A p1 : Held(work, p1) => Held(work, p1)'
    BY <1>1, <1>2, <2>3, HeldKept
  <2> QED
    BY <1>1, <2>2, <2>3, <2>5, <2>6, StageStep
<1> QED
  BY <1>3, <1>4, Zenon DEF Resolve

LEMMA WriteStage ==
    ASSUME Inv, StageInv, NEW g \in Goroutines, Write(g)
    PROVE  StageInv'
<1> DEFINE id == WrittenId(g)
<1>1. pc[g] = "write" /\ id \in CertificateIds /\ UNCHANGED <<call, closed, active>>
  BY DEF Write
<1>2. /\ mu = g /\ ~closed /\ call[g].operation \in StageOperations
      /\ plan \in [Goroutines -> PlanOrNone] /\ work \in Configurations
  BY <1>1, StageFacts DEF Inv, TypeOK
<1>3. Committed(g)'
  BY <1>1, <1>2 DEF Committed, StageOperations
<1>4. /\ \A v, w \in plan[g].hosts : v = w
      /\ \A v \in plan[g].hosts : work.bound[v] <= 0
      /\ plan[g].hosts \subseteq VirtualHosts
  <2>1. plan[g] \in PlanRecords /\ plan[g] # None
    BY <1>1, SharedAssumption DEF Inv, TypeOK, Rests
  <2> QED
    BY <1>1, <2>1 DEF StageInv, Planned, PlanRecords
<1>5. ASSUME NEW e, e # "none", Returns(g, e), UNCHANGED <<work, plan, changed>>
      PROVE  StageInv'
  <2>1. /\ pc'[g] = "done" /\ err'[g] = e
        /\ \A h \in Goroutines : h # g => pc'[h] = pc[h] /\ err'[h] = err[h]
    BY <1>5, GoroutineRows DEF Returns, Goto, Inv
  <2>2. Planned(g)' /\ Staged(g)'
    BY <1>4, <1>5, <2>1 DEF Planned, Staged, Wrote, Succeeded
  <2>3. \A p : Held(work, p) => Held(work, p)'
    BY <1>5, HeldKept
  <2> QED
    BY <1>1, <1>2, <1>3, <1>5, <2>1, <2>2, <2>3, StageStep
<1>6. ASSUME id > 0, Written(g, id), changed => changed',
             NEW s \in {"bind", "done"}, NEW e, pc' = [pc EXCEPT ![g] = s],
             err' = [err EXCEPT ![g] = e],
             (s = "done" /\ e = "none") => plan[g].hosts = {} /\ changed'
      PROVE  StageInv'
  <2>1. /\ \A p : (p.id > 0 /\ Held(work, p)) => Held(work, p)'
        /\ Held(work, plan[g])'
        /\ plan'[g].id = id /\ plan'[g].hosts = plan[g].hosts /\ plan'[g] # None
        /\ \A v \in VirtualHosts : work'.bound[v] = work.bound[v]
        /\ \A h \in Goroutines : h # g => plan'[h] = plan[h]
    BY <1>1, <1>6, HeldWritten DEF Inv
  <2>2. /\ pc'[g] = s /\ err'[g] = e
        /\ \A h \in Goroutines : h # g => pc'[h] = pc[h] /\ err'[h] = err[h]
    BY <1>6, GoroutineRows DEF Inv
  <2>3. Planned(g)'
    BY <1>4, <1>6, <2>1, <2>2 DEF Planned
  <2>4. Staged(g)'
    BY <1>6, <2>1, <2>2 DEF Staged, Wrote, Succeeded, Installed
  <2> HIDE DEF id
  <2> QED
    BY <1>1, <1>2, <1>3, <1>6, <2>1, <2>2, <2>3, <2>4, StageStep
<1>7. CASE /\ id > 0 /\ Written(g, id)
           /\ \/ Continues(g, "bind") /\ UNCHANGED changed
              \/ plan[g].hosts = {} /\ Changed(g) /\ Returns(g, "none")
              \/ Returns(g, "stage") /\ UNCHANGED changed
  <2>1. err = [err EXCEPT ![g] = err[g]]
    BY DEF Inv, TypeOK
  <2> QED
    BY <1>6, <1>7, <2>1 DEF Continues, Changed, Returns, Goto
<1>8. CASE \E e \in {"default-entity", "stage"} : Returns(g, e) /\ UNCHANGED <<work, plan, changed>>
  BY <1>5, <1>8
<1> QED
  BY <1>7, <1>8 DEF Write

LEMMA BindStage ==
    ASSUME Inv, StageInv, NEW g \in Goroutines, Bind(g)
    PROVE  StageInv'
<1>1. pc[g] = "bind" /\ UNCHANGED <<call, plan, closed, active>>
  BY DEF Bind
<1>2. /\ mu = g /\ ~closed /\ call[g].operation \in StageOperations /\ work \in Configurations
  BY <1>1, StageFacts DEF Inv, TypeOK
<1>3. Committed(g)'
  BY <1>1, <1>2 DEF Committed, StageOperations
<1>4. plan[g] # None /\ plan[g].hosts \subseteq VirtualHosts
  BY <1>1, SharedAssumption DEF Inv, TypeOK, Rests, PlanRecords
<1>5. /\ \A v, w \in plan[g].hosts : v = w
      /\ \A v \in plan[g].hosts : work.bound[v] <= 0
      /\ plan[g].id > 0 /\ Held(work, plan[g])
  BY <1>1, <1>4 DEF StageInv, Planned
<1>6. ASSUME NEW e, Returns(g, e), changed => changed',
             \A i \in CertificateIds : work'.certificates[i] = work.certificates[i],
             \A v \in VirtualHosts : work.bound[v] > 0 => work'.bound[v] = work.bound[v],
             e = "none" => changed' /\ \A v \in plan[g].hosts : work'.bound[v] = plan[g].id
      PROVE  StageInv'
  <2>1. /\ pc'[g] = "done" /\ err'[g] = e
        /\ \A h \in Goroutines : h # g => pc'[h] = pc[h] /\ err'[h] = err[h]
    BY <1>6, GoroutineRows DEF Returns, Goto, Inv
  <2>2. \A p : Held(work, p) => Held(work, p)'
    BY <1>1, <1>6 DEF Held, Exists
  <2>3. Held(work, plan[g])'
    BY <1>1, <1>5, <1>6 DEF Held, Exists
  <2>4. Planned(g)'
    BY <1>1, <1>5, <2>1 DEF Planned
  <2>5. Staged(g)'
    BY <1>1, <1>5, <1>6, <2>1, <2>3 DEF Staged, Wrote, Succeeded, Installed
  <2> QED
    BY <1>1, <1>2, <1>3, <1>6, <2>1, <2>2, <2>4, <2>5, StageStep
<1>7. ASSUME NEW v \in plan[g].hosts, work' = ConnectIn(work, plan[g].id, v)
      PROVE  /\ \A i \in CertificateIds : work'.certificates[i] = work.certificates[i]
             /\ \A w \in VirtualHosts : work.bound[w] > 0 => work'.bound[w] = work.bound[w]
             /\ \A w \in plan[g].hosts : work'.bound[w] = plan[g].id
  <2>1. /\ work'.certificates = work.certificates
        /\ work'.bound = [work.bound EXCEPT ![v] = plan[g].id]
        /\ work.bound \in [VirtualHosts -> CertificateIds \cup {NoCertificate}]
    BY <1>2, <1>7 DEF ConnectIn, Configurations
  <2>2. \A i \in CertificateIds \cup {NoCertificate} : i \in Int
    BY ConfigurationAssumption DEF NoCertificate
  <2>3. work.bound[v] \in Int /\ work.bound[v] <= 0
    BY <1>4, <1>5, <2>1, <2>2
  <2> QED
    BY <1>4, <1>5, <2>1, <2>3
<1>8. CASE /\ \E v \in plan[g].hosts : work' = ConnectIn(work, plan[g].id, v)
           /\ \/ Changed(g) /\ Returns(g, "none")
              \/ UNCHANGED changed /\ Returns(g, "stage")
  BY <1>6, <1>7, <1>8 DEF Changed
<1>9. CASE Returns(g, "stage") /\ UNCHANGED <<work, changed>>
  BY <1>6, <1>9
<1> QED
  BY <1>8, <1>9 DEF Bind

LEMMA CommitStage ==
    ASSUME Inv, StageInv, NEW g \in Goroutines, ValidateConfiguration(g) \/ Activate(g)
    PROVE  StageInv'
<1>1. pc[g] \in {"validate", "activate"} /\ UNCHANGED <<call, plan, work, changed, closed>>
  BY DEF ValidateConfiguration, Activate
<1>2. plan[g] = None
  BY <1>1 DEF StageInv, Planned
<1>3. ~closed
  BY <1>1, HolderFacts DEF Inv, Exclusion, RequestSteps
<1>4. PICK s \in {"activate", "terminate"}, e \in Errors :
         pc' = [pc EXCEPT ![g] = s] /\ err' = [err EXCEPT ![g] = e]
  BY GoroutineTypes DEF ValidateConfiguration, Activate, Continues, Finishing, Goto, Inv, Errors
<1>5. Committed(g)'
  BY <1>4, GoroutineRows DEF Committed, Succeeded, Inv
<1> QED
  BY <1>1, <1>2, <1>3, <1>4, <1>5, PlanlessStep DEF Steps

LEMMA FinishStage ==
    ASSUME Inv, StageInv, NEW g \in Goroutines, Finish(g)
    PROVE  StageInv'
<1>1. /\ pc[g] = "terminate" /\ closed' = TRUE
      /\ UNCHANGED <<call, plan, work, changed, active>>
  BY DEF Finish, Closes
<1>2. plan[g] = None
  BY <1>1 DEF StageInv, Planned
<1>3. PICK e : Returns(g, e) /\ (e = "none" => err[g] = "none")
  BY DEF Finish
<1>4. pc' = [pc EXCEPT ![g] = "done"] /\ err' = [err EXCEPT ![g] = e] /\ "done" \in Steps
  BY <1>3 DEF Returns, Goto, Steps
<1>5. Committed(g)'
  <2>1. FinishPart(g)
    BY <1>1 DEF Inv, Settled, Holds, RequestSteps
  <2>2. err'[g] = e
    BY <1>4, GoroutineRows DEF Inv
  <2> QED
    BY <1>1, <1>3, <2>1, <2>2 DEF Committed, Succeeded, FinishPart
<1> QED
  BY <1>1, <1>2, <1>4, <1>5, PlanlessStep

LEMMA InitStage == Init => StageInv
  BY DEF Init, StageInv, Planned, Staged, Committed, Wrote, Succeeded

LEMMA NextStage == Inv /\ StageInv /\ [Next]_vars => StageInv'
<1> SUFFICES ASSUME Inv, StageInv, [Next]_vars
             PROVE  StageInv'
  OBVIOUS
<1>1. CASE UNCHANGED <<pc, call, plan, err, work, changed, closed, active>>
  BY <1>1 DEF StageInv, Planned, Staged, Committed, Wrote, Succeeded, Installed, Held, Exists
<1>2. ASSUME NEW g \in Goroutines, Call(g) \/ Enter(g) \/ Step(g)
      PROVE  StageInv'
  BY <1>2, CallStage, EnterStage, ResolveStage, WriteStage, BindStage, CommitStage, FinishStage
     DEF Step
<1> QED
  BY <1>1, <1>2, Zenon DEF Next, Cancel, Terminating, vars

LEMMA StageInvariance == Spec => [](Inv /\ StageInv)
<1>1. Init => Inv /\ StageInv
  BY InitInv, InitStage
<1>2. Inv /\ StageInv /\ [Next]_vars => (Inv /\ StageInv)'
  BY NextInv, NextStage
<1> QED
  BY <1>1, <1>2, PTL DEF Spec

\* A goroutine that has just bound a virtual host found it without a certificate
\* of its own.
LEMMA BindsFirst ==
    ASSUME Inv, StageInv, NEW g \in Goroutines, Call(g) \/ Enter(g) \/ Step(g), Wrote(g)'
    PROVE  \A v \in plan'[g].hosts : work.bound[v] <= 0
<1>1. pc'[g] = "done" /\ plan'[g] # None
  BY DEF Wrote, Succeeded
<1>2. pc \in [Goroutines -> Steps] /\ err \in [Goroutines -> Errors] /\ plan \in [Goroutines -> PlanOrNone]
  BY DEF Inv, TypeOK
<1>3. CASE Bind(g)
  <2>1. plan'[g] = plan[g] /\ pc[g] = "bind"
    BY <1>3 DEF Bind
  <2> QED
    BY <2>1 DEF StageInv, Planned
<1>4. CASE Write(g)
  <2>1. err'[g] = "none"
    BY DEF Wrote, Succeeded
  <2>2. ASSUME NEW e, e # "none", Returns(g, e)
        PROVE  FALSE
    BY <1>2, <2>1, <2>2 DEF Returns
  <2>3. ~Continues(g, "bind")
    BY <1>1, <1>2 DEF Continues, Goto
  <2>4. /\ plan[g].hosts = {} /\ Written(g, WrittenId(g)) /\ pc[g] = "write"
        /\ WrittenId(g) \in CertificateIds /\ WrittenId(g) > 0
    BY <1>4, <2>2, <2>3 DEF Write
  <2>5. plan'[g].hosts = {}
    BY <2>4, HeldWritten DEF Inv
  <2> QED
    BY <2>5
<1>5. CASE Resolve(g)
  <2>1. plan[g] = None
    BY <1>5 DEF Resolve, StageInv, Planned
  <2>2. ~Continues(g, "write")
    BY <1>1, <1>2 DEF Continues, Goto
  <2> QED
    BY <1>1, <1>5, <2>1, <2>2 DEF Resolve
<1>6. CASE Enter(g)
  <2>1. plan[g] = None
    BY <1>6 DEF Enter, StageInv, Planned
  <2>2. ~Goto(g, FirstStep(call[g]))
    BY <1>1, <1>2 DEF FirstStep, Goto
  <2> QED
    BY <1>1, <1>6, <2>1, <2>2 DEF Enter
<1>7. CASE Call(g)
  BY <1>1, <1>2, <1>7 DEF Call, Goto
<1>8. CASE ValidateConfiguration(g) \/ Activate(g) \/ Finish(g)
  <2>1. plan[g] = None /\ UNCHANGED plan
    BY <1>8 DEF ValidateConfiguration, Activate, Finish, StageInv, Planned
  <2> QED
    BY <1>1, <2>1
<1> QED
  BY <1>3, <1>4, <1>5, <1>6, <1>7, <1>8 DEF Step

\* A step of one goroutine is no step of another.
LEMMA OthersWait ==
    ASSUME Inv, NEW g \in Goroutines, Call(g) \/ Enter(g) \/ Step(g),
           NEW h \in Goroutines, h # g, Wrote(h)'
    PROVE  Wrote(h) /\ plan'[h] = plan[h]
<1>1. /\ pc \in [Goroutines -> Steps] /\ err \in [Goroutines -> Errors]
      /\ plan \in [Goroutines -> PlanOrNone]
  BY DEF Inv, TypeOK
<1>2. pc'[h] = pc[h]
  BY <1>1 DEF Call, Enter, Step, Resolve, Write, Bind, ValidateConfiguration, Activate, Finish,
     Returns, Continues, Finishing, Goto
<1>3. err'[h] = err[h]
  BY <1>1 DEF Call, Enter, Step, Resolve, Write, Bind, ValidateConfiguration, Activate, Finish,
     Returns, Continues, Finishing
<1>4. plan'[h] = plan[h]
  BY <1>1 DEF Call, Enter, Step, Resolve, Write, Bind, ValidateConfiguration, Activate, Finish,
     Written
<1> QED
  BY <1>2, <1>3, <1>4 DEF Wrote, Succeeded

LEMMA NextBound == Inv /\ StageInv /\ BoundOnce /\ [Next]_vars => BoundOnce'
<1> SUFFICES ASSUME Inv, StageInv, BoundOnce, [Next]_vars
             PROVE  BoundOnce'
  OBVIOUS
<1>1. CASE UNCHANGED <<pc, err, plan>>
  BY <1>1 DEF BoundOnce, Wrote, Succeeded
<1>2. ASSUME NEW g \in Goroutines, Call(g) \/ Enter(g) \/ Step(g)
      PROVE  BoundOnce'
  <2>1. ASSUME NEW h \in Goroutines, h # g, Wrote(g)', Wrote(h)'
        PROVE  plan'[g].hosts \cap plan'[h].hosts = {}
    <3>1. Wrote(h) /\ plan'[h] = plan[h]
      BY <1>2, <2>1, OthersWait
    <3>2. /\ plan[h].id > 0 /\ plan[h].id \in CertificateIds
          /\ \A v \in plan[h].hosts : work.bound[v] = plan[h].id
      BY <3>1 DEF StageInv, Staged, Installed, Held, Exists
    <3>3. \A v \in plan'[g].hosts : work.bound[v] <= 0
      BY <1>2, <2>1, BindsFirst
    <3>4. plan[h].id \in Int
      BY <3>2, ConfigurationAssumption
    <3> QED
      BY <3>1, <3>2, <3>3, <3>4
  <2>2. ASSUME NEW h \in Goroutines, NEW k \in Goroutines, h # k, h # g, k # g, Wrote(h)', Wrote(k)'
        PROVE  plan'[h].hosts \cap plan'[k].hosts = {}
    <3>1. Wrote(h) /\ plan'[h] = plan[h] /\ Wrote(k) /\ plan'[k] = plan[k]
      BY <1>2, <2>2, OthersWait
    <3> QED
      BY <2>2, <3>1 DEF BoundOnce
  <2> QED
    BY <2>1, <2>2 DEF BoundOnce
<1> QED
  BY <1>1, <1>2, Zenon DEF Next, Cancel, Terminating, vars

\* t.mu, for every instance: of several goroutines that synchronize one virtual
\* host, one creates and binds a certificate; the others see that it has.
THEOREM SharedBoundOnce == Spec => []BoundOnce
<1>1. Init => BoundOnce
  BY DEF Init, BoundOnce, Wrote, Succeeded
<1> QED
  BY <1>1, NextBound, StageInvariance, PTL DEF Spec

\* For every instance: once a commit has succeeded, what the stages that had
\* succeeded said to have staged is active, whichever goroutines they were of.
THEOREM SharedStagedIsActive == Spec => []StagedIsActive
<1>1. Inv /\ StageInv => StagedIsActive
  <2> SUFFICES ASSUME Inv, StageInv, NEW g \in Goroutines, NEW c \in Goroutines,
                      Wrote(g), Succeeded(c), call[c].operation = "commit"
               PROVE  /\ Exists(active, plan[g].id)
                      /\ \E h \in Goroutines :
                            /\ plan[h] # None
                            /\ plan[h].id = plan[g].id
                            /\ active.certificates[plan[g].id].certificate
                                  = plan[h].bundle.certificate
                      /\ \A v \in plan[g].hosts : active.bound[v] = plan[g].id
    BY DEF StagedIsActive
  <2>1. changed /\ Installed(work, plan[g])
    BY DEF StageInv, Staged
  <2>2. active = work
    BY <2>1 DEF StageInv, Committed
  <2> QED
    BY <2>1, <2>2 DEF Installed, Held
<1> QED
  BY <1>1, StageInvariance, PTL

=============================================================================
