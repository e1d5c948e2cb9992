------------------------ MODULE ManagedRotationProofs ------------------------
(***************************************************************************)
(* What a managed call does to the configuration as a whole.               *)
(*                                                                         *)
(* The whole change: what a call activates is its whole change, and its    *)
(* success is true. The invariant says how far each working copy is from   *)
(* the revision it was loaded from (Staged), that the target selects what  *)
(* it selected then unless somebody has bound it anew (Stays), what the    *)
(* activations of the call have installed (Installs), what its outcome     *)
(* will report (Reports), and that no resource has an ID that is still to  *)
(* be given out (Fresh), without which a create could write over a         *)
(* resource.                                                               *)
(*                                                                         *)
(* One step: the calls implement AtomicRotation. For this the invariant    *)
(* has to say which plan was carried out on the working copy and not only  *)
(* what it left, and that a success without a change has seen a            *)
(* configuration in which there was nothing to do (Rotated). A load is     *)
(* then the look of the abstract call, the activation, which may come      *)
(* after the call has returned an error, its one step, and everything else *)
(* a return or nothing.                                                    *)
(*                                                                         *)
(* The others: what a call changes for other virtual hosts. The invariant  *)
(* says that the IDs still to be given out are free everywhere, also as    *)
(* what a virtual host is bound to (AllUnused), and that a call edits what *)
(* its target selects or what it has created, which is nobody else's until *)
(* it is activated (EditsOwn).                                             *)
(***************************************************************************)
EXTENDS ManagedCallsProofs, SequenceTheorems

(***************************************************************************)
(* The whole change: what a call stages.                                   *)
(***************************************************************************)
LEMMA HoldsMeans ==
    ASSUME NEW cfg, NEW id, NEW base, NEW job
    PROVE  Holds(cfg, id, base, job) <=>
              Exists(cfg, id) /\ Wanted(cfg.certificates[id], Selected(base, job), job)
  BY DEF Holds, Wanted, Selected

\* A configuration has what the job asks for.
InstalledAs(cfg, base, job) ==
    \E id \in IF job.operation = "create" THEN CertificateIds
              ELSE SelectedIds(cfg, job.target) : Holds(cfg, id, base, job)

\* A plan is the creation, or one for the resource its target selects.
LEMMA PlanMeans ==
    ASSUME NEW cfg \in Configurations, NEW job \in ValidJobs, NEW p \in Plans(cfg, job)
    PROVE  /\ p.bundle \in DesiredBundles(cfg, job)
           /\ p.bundle \in Bundles /\ ValidBundle(p.bundle)
           /\ job.operation = "create" => p = Creation(job.bundle)
           /\ job.operation # "create" =>
                 /\ Resolvable(cfg, job.target)
                 /\ \E id : /\ SelectedIds(cfg, job.target) = {id}
                            /\ p = Plan(cfg, job, id, p.bundle)
<1>1. job \in Jobs /\ ValidArguments(job)
  BY DEF ValidJobs
<1>2. /\ job.bundle \in Bundles /\ job.target \in Targets
      /\ job.passphrase \in Passphrases \cup {Empty}
  BY <1>1, JobType
<1>3. ValidBundle(p.bundle)
  BY <1>1, PlansValid DEF ValidArguments
<1>4. p.bundle \in Bundles
  BY <1>2, PlansType DEF PlanRecords
<1>5. CASE job.operation = "create"
  BY <1>3, <1>4, <1>5 DEF Plans, Creation, DesiredBundles
<1>6. CASE job.operation # "create"
  <2>1. Resolvable(cfg, job.target)
    BY <1>6 DEF Plans
  <2>2. PICK id \in SelectedIds(cfg, job.target) :
            \E b \in DesiredBundles(cfg, job) : p = Plan(cfg, job, id, b)
    BY <1>6, <2>1 DEF Plans
  <2>3. PICK b \in DesiredBundles(cfg, job) : p = Plan(cfg, job, id, b)
    BY <2>2
  <2>4. p.bundle = b
    BY <2>3 DEF Plan
  <2>5. SelectedIds(cfg, job.target) = {id}
    BY <1>2, <2>1, <2>2, OneSelected
  <2> QED
    BY <1>3, <1>4, <1>6, <2>1, <2>3, <2>4, <2>5
<1> QED
  BY <1>5, <1>6

\* The bundle a call synchronizes, written, is what the call is for.
LEMMA PlanWanted ==
    ASSUME NEW base \in Configurations, NEW job \in ValidJobs, NEW p \in Plans(base, job),
           NEW new, Carries(new, p.bundle), new.privateKey = p.bundle.key.pem
    PROVE  Wanted(new, Selected(base, job), job)
<1>1. job.passphrase \in Passphrases \cup {Empty}
  BY JobType DEF ValidJobs
<1>2. PICK id : job.operation # "create" => SelectedIds(base, job.target) = {id}
  BY PlanMeans, Zenon
<1> QED
  BY <1>1, <1>2, PlanMeans, DesiredWanted

\* The resource of a plan is written, or created under an ID nobody has.
LEMMA WritePrepares ==
    ASSUME NEW base \in Configurations, NEW job \in ValidJobs,
           NEW p \in Plans(base, job), p.write, NEW id \in CertificateIds,
           IF p.id = NoCertificate THEN ~Exists(base, id) ELSE id = p.id
    PROVE  /\ Prepared(base, WriteIn(base, p, id), job, id)
           /\ WriteIn(base, p, id) \in Configurations
           /\ WriteIn(base, p, id).bound = base.bound
<1> DEFINE b == p.bundle
           a == AttributesFromBundle(b)
           old == base.certificates[id]
           work == WriteIn(base, p, id)
<1>1. b \in Bundles /\ ValidBundle(b) /\ a \in Attributes
  BY PlanMeans, AttributesType
<1>2. CASE p.id = NoCertificate
  <2>1. work = CreateIn(base, id, a)
    BY <1>2 DEF WriteIn
  <2>2. work \in Configurations
    BY <1>1, <2>1, CertificateEditType
  <2>3. work.certificates[id] = a /\ work.bound = base.bound
    BY <2>1 DEF CreateIn, Configurations
  <2>4. old = None /\ a # None
    BY <1>1, <1>2, ConfigurationAssumption DEF Exists
  <2>5. Carries(a, b) /\ a.privateKey = b.key.pem
    BY WriteCarries
  <2> HIDE DEF work, a
  <2>6. Wanted(a, Selected(base, job), job)
    BY <2>5, PlanWanted
  <2> QED
    BY <1>1, <2>2, <2>3, <2>4, <2>6 DEF Prepared, work
<1>3. CASE p.id # NoCertificate
  <2>1. work = PatchIn(base, id, a) /\ id = p.id
    BY <1>3 DEF WriteIn
  <2>2. Exists(base, id)
    <3>1. job.bundle \in Bundles /\ job.target \in Targets
          /\ job.passphrase \in Passphrases \cup {Empty}
      BY JobType DEF ValidJobs
    <3> QED
      BY <1>3, <2>1, <3>1, PlansType
  <2>3. work \in Configurations
    BY <1>1, <2>1, <2>2, CertificateEditType
  <2>4. old \in Attributes
    BY <2>2 DEF Exists, Configurations
  <2>5. work.certificates[id] = Patched(old, a) /\ work.bound = base.bound
    BY <2>1 DEF PatchIn, Configurations
  <2>6. Carries(Patched(old, a), b) /\ Patched(old, a).privateKey = b.key.pem
    BY WriteCarries
  <2>7. Patched(old, a) \in Attributes
    BY <1>1, <2>4, PatchedType
  <2>8. p = Plan(base, job, id, b)
    <3>1. job.operation # "create"
      BY <1>3, PlanMeans DEF Creation
    <3>2. PICK i : p = Plan(base, job, i, b)
      BY <3>1, PlanMeans, Zenon
    <3> QED
      BY <1>3, <2>1, <3>2 DEF Plan
  <2>9. ~UpToDate(base, id, b)
    <3>1. Plan(base, job, id, b).write = ~UpToDate(base, id, b)
      BY DEF Plan
    <3> QED
      BY <2>8, <3>1, Zenon
  <2>10. Patched(old, a) # old
    <3> SUFFICES ASSUME Patched(old, a) = old PROVE FALSE
      OBVIOUS
    <3>1. \E m \in ManagedCertificateFromResource(Redacted(Patched(old, a)),
                                                  b.key.passphrase) :
              m.checksum = b.checksum
      BY <1>1, <2>4, WrittenUpToDate
    <3> HIDE DEF a
    <3> QED
      BY <2>2, <2>9, <3>1 DEF UpToDate, ReadCertificate
  <2> HIDE DEF work, a
  <2>11. Wanted(Patched(old, a), Selected(base, job), job)
    BY <2>6, PlanWanted
  <2> QED
    BY <2>3, <2>5, <2>7, <2>10, <2>11 DEF Prepared, work
<1> QED
  BY <1>2, <1>3

\* A plan that binds no virtual host writes what the target selects; any other
\* binds the one virtual host of the target.
LEMMA PlanBinds ==
    ASSUME NEW base \in Configurations, NEW job \in ValidJobs, NEW p \in Plans(base, job)
    PROVE  IF p.hosts = {}
           THEN job.operation = "create"
                  \/ (p.id # NoCertificate /\ SelectedIds(base, job.target) = {p.id})
           ELSE /\ job.operation # "create" /\ job.target.kind = "virtualHost"
                /\ \E v \in VirtualHosts :
                      p.hosts = {v} /\ VirtualHostsOf(job.target) = {v}
<1>1. CASE job.operation = "create"
  BY <1>1, PlanMeans DEF Creation
<1>2. CASE job.operation # "create"
  <2>1. Resolvable(base, job.target) /\ job.target \in Targets
    BY <1>2, PlanMeans, JobType DEF ValidJobs
  <2>2. PICK id : SelectedIds(base, job.target) = {id} /\ p = Plan(base, job, id, p.bundle)
    BY <1>2, PlanMeans
  <2>3. id \in CertificateIds \cup {NoCertificate}
    BY <2>1, <2>2, OneSelected
  <2>4. CASE NeedsNewCertificate(job, id)
    <3>1. job.target.kind = "virtualHost" /\ p.hosts = VirtualHostsOf(job.target)
      BY <2>2, <2>4 DEF Plan, NeedsNewCertificate
    <3> QED
      BY <1>2, <2>1, <3>1, OneSelected
  <2>5. CASE ~NeedsNewCertificate(job, id)
    <3>1. p.hosts = {} /\ p.id = id
      BY <2>2, <2>5 DEF Plan
    <3>2. id # NoCertificate
      <4>1. CASE job.target.kind = "id"
        BY <2>1, <2>2, <4>1, OneSelected, ConfigurationAssumption DEF NoCertificate
      <4>2. CASE job.target.kind = "virtualHost"
        BY <2>5, <4>2 DEF NeedsNewCertificate, NoCertificate
      <4> QED
        BY <2>1, <4>1, <4>2, OneSelected
    <3> QED
      BY <2>2, <3>1, <3>2
  <2> QED
    BY <2>4, <2>5
<1> QED
  BY <1>1, <1>2

\* What is complete is installed when it is activated as it is.
LEMMA CompleteInstalled ==
    ASSUME NEW base, NEW work, NEW job, Complete(base, work, job)
    PROVE  InstalledAs(work, base, job)
<1>1. PICK id \in CertificateIds : Prepared(base, work, job, id) /\ Selects(work, job, id)
  BY DEF Complete
<1>2. Exists(work, id)
  BY <1>1, ConfigurationAssumption DEF Prepared, Exists
<1>3. Holds(work, id, base, job)
  BY <1>1, <1>2, HoldsMeans DEF Prepared
<1> QED
  BY <1>1, <1>3 DEF InstalledAs, Selects

\* It is installed by a merge too, unless the target was bound anew meanwhile.
LEMMA MergeInstalls ==
    ASSUME NEW base \in Configurations, NEW work \in Configurations,
           NEW active \in Configurations, NEW job, Complete(base, work, job),
           SelectedIds(active, job.target) = SelectedIds(base, job.target)
    PROVE  InstalledAs(Merged(base, work, active), base, job)
<1> DEFINE new == Merged(base, work, active)
<1>1. PICK id \in CertificateIds : Prepared(base, work, job, id) /\ Selects(work, job, id)
  BY DEF Complete
<1>2. new.certificates[id] = work.certificates[id]
  BY <1>1 DEF Prepared, Merged
<1>3. \A v \in VirtualHosts : new.bound[v] = IF work.bound[v] = base.bound[v]
                                             THEN active.bound[v] ELSE work.bound[v]
  BY DEF Merged
<1> HIDE DEF new
<1>4. Exists(new, id)
  BY <1>1, <1>2, ConfigurationAssumption DEF Prepared, Exists
<1>5. Holds(new, id, base, job)
  BY <1>1, <1>2, <1>4, HoldsMeans DEF Prepared
<1>6. job.operation # "create" => id \in SelectedIds(new, job.target)
  <2> SUFFICES ASSUME job.operation # "create", job.target.kind # "id"
               PROVE  id \in {new.bound[v] : v \in VirtualHostsOf(job.target)}
    BY <1>1 DEF Selects, SelectedIds
  <2> DEFINE hosts == VirtualHostsOf(job.target)
  <2>1. hosts \subseteq VirtualHosts
    BY DEF VirtualHostsOf
  <2>2. {work.bound[v] : v \in hosts} = {id}
    BY <1>1 DEF Selects, SelectedIds
  <2>3. {active.bound[v] : v \in hosts} = {base.bound[v] : v \in hosts}
    BY DEF SelectedIds
  <2> HIDE DEF hosts
  <2>4. CASE \E v \in hosts : work.bound[v] # base.bound[v]
    <3>1. PICK v \in hosts : work.bound[v] # base.bound[v]
      BY <2>4
    <3>2. new.bound[v] = work.bound[v] /\ work.bound[v] = id
      BY <1>3, <2>1, <2>2, <3>1
    <3> QED
      BY <3>2 DEF hosts
  <2>5. CASE \A v \in hosts : work.bound[v] = base.bound[v]
    <3>1. \A v \in hosts : new.bound[v] = active.bound[v]
      BY <1>3, <2>1, <2>5
    <3>2. {base.bound[v] : v \in hosts} = {id}
      BY <2>2, <2>5
    <3>3. \E v \in hosts : active.bound[v] = id
      BY <2>3, <3>2
    <3> QED
      BY <3>1, <3>3 DEF hosts
  <2> QED
    BY <2>4, <2>5 DEF hosts
<1> QED
  BY <1>5, <1>6 DEF InstalledAs, new

\* A call that has nothing to write finds what it is for.
LEMMA NothingToWrite ==
    ASSUME NEW base \in Configurations, NEW job \in ValidJobs,
           NEW p \in Plans(base, job), ~p.write
    PROVE  InstalledAs(base, base, job)
<1> DEFINE b == p.bundle
<1>1. job.operation # "create"
  BY PlanMeans DEF Creation
<1>2. PICK id : SelectedIds(base, job.target) = {id} /\ p = Plan(base, job, id, b)
  BY <1>1, PlanMeans
<1>3. b \in Bundles /\ ValidBundle(b) /\ b \in DesiredBundles(base, job)
  BY PlanMeans
<1> HIDE DEF b
<1>4. UpToDate(base, id, b)
  <2>1. Plan(base, job, id, b).write = ~UpToDate(base, id, b)
    BY DEF Plan
  <2> QED
    BY <1>2, <2>1, Zenon
<1>5. b.key.passphrase \in Passphrases \cup {Empty}
  BY <1>3 DEF Bundles, Keys
<1>6. PICK m \in ReadCertificate(base, id, b.key.passphrase) : m.checksum = b.checksum
  BY <1>4 DEF UpToDate
<1> DEFINE a == base.certificates[id]
<1>7. /\ Exists(base, id)
      /\ m.type = a.certType /\ m.certificate = a.certificate
      /\ m.key.pem = a.privateKey /\ m.chain = a.certificateChain
      /\ m.rootCA = a.rootCaCertificate
      /\ m.checksum = BundleChecksum(m.type, m.certificate, m.key, m.chain, m.rootCA)
  BY <1>5, ReadMeans
<1>8. m \in Bundles
  BY <1>5, ReadType
<1>9. b.checksum = BundleChecksum(b.type, b.certificate, b.key, b.chain, b.rootCA)
  BY <1>3 DEF ValidBundle, NewCertificateBundle
<1>10. m.chain \in Seq(Certificates) /\ b.chain \in Seq(Certificates)
  BY <1>3, <1>8 DEF Bundles
<1>11. /\ m.type = b.type /\ m.certificate = b.certificate /\ m.key.pem.key = b.key.pem.key
       /\ m.chain = b.chain /\ m.rootCA = b.rootCA
  <2>1. BundleChecksum(m.type, m.certificate, m.key, m.chain, m.rootCA)
          = BundleChecksum(b.type, b.certificate, b.key, b.chain, b.rootCA)
    BY <1>6, <1>7, <1>9
  <2> QED
    BY <1>10, <2>1, ChecksumInjective
<1>12. Carries(a, b)
  BY <1>7, <1>11 DEF Carries
<1>13. job.passphrase \in Passphrases \cup {Empty}
  BY JobType DEF ValidJobs
<1>14. Wanted(a, Selected(base, job), job)
  BY <1>2, <1>3, <1>12, <1>13, DesiredWanted
<1>15. Holds(base, id, base, job)
  BY <1>7, <1>14, HoldsMeans
<1> QED
  BY <1>1, <1>2, <1>15 DEF InstalledAs

(***************************************************************************)
(* The whole change: the invariant.                                        *)
(***************************************************************************)
\* What the working copy was loaded from.
Loaded(s) == log[session[s].base].configuration

\* How far the working copy is.
Staged(s) ==
    LET base == Loaded(s)  work == session[s].work  job == call[s].job  plan == call[s].plan
    IN  /\ call[s].pc \in {"resolve", "write"} => work = base
        /\ call[s].pc = "write" => plan \in Plans(base, job) /\ plan.write
        /\ call[s].pc = "bind" =>
              /\ Prepared(base, work, job, plan.id) /\ job.target.kind = "virtualHost"
              /\ \E v \in VirtualHosts : plan.hosts = {v} /\ VirtualHostsOf(job.target) = {v}
        /\ call[s].pc \in {"decode", "validate", "activate"} \/ session[s].late =>
              Complete(base, work, job)

\* What the target selects is what was loaded, or somebody else has bound it anew.
Stays(s) ==
    (session[s].base > 0 /\ ActivatedBy(s) = {}) =>
        \/ SelectedIds(Active, call[s].job.target) = SelectedIds(Loaded(s), call[s].job.target)
        \/ Rebound(s, Len(log))

\* What was activated is the whole change.
Installs(s) == \A k \in ActivatedBy(s) : k > session[s].base /\ InstalledIn(s, k)

\* A success reports a change exactly if it has activated one, and otherwise has
\* found what it is for.
Reports(s) ==
    /\ call[s].pc = "abandon" => call[s].err # "none"
    /\ call[s].pc \in {"validate", "activate"} => call[s].changed
    /\ call[s].changed => call[s].pc \in {"validate", "activate", "finish", "done"}
    /\ (/\ call[s].pc \in {"finish", "done"} /\ call[s].err = "none"
        /\ call[s].job.operation # "get") =>
          /\ session[s].base > 0
          /\ call[s].changed <=> ActivatedBy(s) # {}
          /\ ~call[s].changed => InstalledAs(Loaded(s), Loaded(s), call[s].job)

\* The IDs that are still to be given out are nobody's.
FreshIn(cfg, n) == \A i \in CertificateIds : i >= n => ~Exists(cfg, i)

Fresh ==
    /\ \A s \in Transactions : FreshIn(session[s].work, nextId)
    /\ \A k \in 1 .. Len(log) : FreshIn(log[k].configuration, nextId)

InstallInv ==
    /\ \A s \in Managed : Staged(s) /\ Stays(s) /\ Installs(s) /\ Reports(s)
    /\ Fresh

(***************************************************************************)
(* The whole change: the revisions a step adds.                            *)
(***************************************************************************)
\* The step adds one revision, cfg by `by'.
Adds(cfg, by) ==
    /\ Len(log') = Len(log) + 1
    /\ log'[Len(log) + 1].configuration = cfg /\ log'[Len(log) + 1].by = by
    /\ \A k \in 1 .. Len(log) : log'[k] = log[k]

\* An activation adds the working copy, or merges it.
LEMMA ActivationRevision ==
    ASSUME TypeOK, NEW s \in Transactions, session[s].base > 0, Activates(s)
    PROVE  \E cfg : /\ Adds(cfg, s)
                    /\ \/ /\ cfg = session[s].work
                          /\ call[s].policy \in {"", "reject"} => session[s].base = Len(log)
                       \/ /\ call[s].policy = "merge"
                          /\ cfg = Merged(Loaded(s), session[s].work, Active)
<1> DEFINE base == Loaded(s)
           mine == session[s].work
<1>1. PICK cfg \in Activatable(s) :
          log' = Append(log, Revision(s, cfg, call[s].policy,
                                      session[s].validated /\ cfg = mine))
  BY Zenon DEF Activates
<1>2. \/ /\ cfg = mine
         /\ call[s].policy \in {"", "reject"} => session[s].base = Len(log)
      \/ call[s].policy = "merge" /\ cfg = Merged(base, mine, Active)
  <2>1. PICK o \in RequestOptions(call[s].policy) :
           cfg \in Activated(o, session[s].base # Len(log), base, mine, Active)
    BY Zenon DEF Activatable, Loaded
  <2>2. /\ o.ignoreOutdatedConfiguration => call[s].policy = "overwrite"
        /\ o.autoMerge => call[s].policy = "merge"
    BY DEF RequestOptions
  <2>3. \/ /\ cfg = mine
           /\ session[s].base = Len(log) \/ o.ignoreOutdatedConfiguration
        \/ o.autoMerge /\ cfg = Merged(base, mine, Active)
    BY <2>1 DEF Activated
  <2> QED
    BY <2>2, <2>3
<1> DEFINE valid == session[s].validated /\ cfg = mine
           rev == Revision(s, cfg, call[s].policy, valid)
<1>3. rev.by = s /\ rev.configuration = cfg
  BY DEF Revision
<1>4. log' = Append(log, rev)
  BY <1>1
<1> HIDE DEF rev
<1>5. log \in Seq(Revisions) /\ Len(log) \in Nat
  BY DEF TypeOK
<1>6. Adds(cfg, s)
  BY <1>3, <1>4, <1>5 DEF Adds
<1> QED
  BY <1>2, <1>6

LEMMA AdministratorRevision ==
    ASSUME TypeOK, AdministratorActivates
    PROVE  \E cfg \in Edits(Active, AdminAttributes) : Adds(cfg, None)
<1>1. PICK cfg \in Edits(Active, AdminAttributes) :
          log' = Append(log, Revision(None, cfg, "", TRUE))
  BY Zenon DEF AdministratorActivates
<1> DEFINE rev == Revision(None, cfg, "", TRUE)
<1>2. rev.by = None /\ rev.configuration = cfg
  BY DEF Revision
<1>3. log' = Append(log, rev)
  BY <1>1
<1> HIDE DEF rev
<1>4. Adds(cfg, None)
  BY <1>2, <1>3 DEF Adds, TypeOK
<1> QED
  BY <1>4

\* Only a requested activation adds a revision.
LEMMA StepRevision ==
    ASSUME TypeOK, NEW s \in Transactions, Acts(s)
    PROVE  \/ UNCHANGED log
           \/ /\ call[s].pc = "activate" \/ session[s].late
              /\ session[s].base > 0 /\ Activates(s)
<1>1. \/ UNCHANGED log
      \/ Activates(s) /\ (call[s].pc = "activate" \/ session[s].late)
  BY Zenon DEF Acts, Step, Call, Start, Acquire, VerifyGatewayVersion, CreateSession,
       LoadActiveConfiguration, Abandon, Finish, Stage, CommitWithOptions, Abort, Cancel,
       Resolve, Write, Bind, Decode, ValidateConfiguration,
       ActivateConfigurationWithOptions, GatewayActivates
<1>2. call[s].pc = "activate" \/ session[s].late => session[s].base > 0
  BY RecordTypes DEF Consistent, LoadedSteps
<1> QED
  BY <1>1, <1>2

(***************************************************************************)
(* The whole change: fresh IDs.                                            *)
(***************************************************************************)
LEMMA EditFresh ==
    ASSUME NEW cfg \in Configurations, NEW n \in Nat, FreshIn(cfg, n),
           NEW id \in CertificateIds, NEW a
    PROVE  /\ FreshIn(CreateIn(cfg, id, a), n) \/ id >= n
           /\ id = n => FreshIn(CreateIn(cfg, id, a), n + 1)
           /\ Exists(cfg, id) => FreshIn(PatchIn(cfg, id, a), n)
<1>1. /\ \A i \in CertificateIds \ {id} :
             /\ CreateIn(cfg, id, a).certificates[i] = cfg.certificates[i]
             /\ PatchIn(cfg, id, a).certificates[i] = cfg.certificates[i]
  BY DEF CreateIn, PatchIn, Configurations
<1>2. CertificateIds \subseteq Int
  BY ConfigurationAssumption
<1> QED
  BY <1>1, <1>2 DEF FreshIn, Exists

LEMMA ConnectFresh ==
    ASSUME NEW cfg \in Configurations, NEW n, FreshIn(cfg, n), NEW id, NEW v
    PROVE  FreshIn(ConnectIn(cfg, id, v), n)
<1>1. ConnectIn(cfg, id, v).certificates = cfg.certificates
  BY DEF ConnectIn, Configurations
<1> HIDE DEF ConnectIn
<1> QED
  BY <1>1 DEF FreshIn, Exists

LEMMA MergeFresh ==
    ASSUME NEW base, NEW mine, NEW active, NEW n, FreshIn(mine, n), FreshIn(active, n)
    PROVE  FreshIn(Merged(base, mine, active), n)
<1>1. \A i \in CertificateIds :
          \/ Merged(base, mine, active).certificates[i] = mine.certificates[i]
          \/ Merged(base, mine, active).certificates[i] = active.certificates[i]
  BY DEF Merged
<1> HIDE DEF Merged
<1> QED
  BY <1>1 DEF FreshIn, Exists

LEMMA EditsFresh ==
    ASSUME NEW cfg \in Configurations, NEW n \in Nat, FreshIn(cfg, n), NEW attributes,
           NEW new \in Edits(cfg, attributes)
    PROVE  FreshIn(new, n)
  BY EditFresh, ConnectFresh DEF Edits, Exists

\* What a step makes of a working copy.
LEMMA StepWork ==
    ASSUME TypeOK, NEW s \in Transactions, Acts(s)
    PROVE  \/ session'[s].work \in {session[s].work, Active} /\ UNCHANGED nextId
           \/ call[s].pc = "write" /\ Written(s, WrittenId(s)) /\ WrittenId(s) \in CertificateIds
           \/ UNCHANGED nextId /\ call[s].pc = "bind" /\ \E v : Connected(s, v)
<1>1. CASE Write(s)
  <2>1. \/ Written(s, WrittenId(s)) \/ (UNCHANGED nextId /\ KeepsSession(s))
    BY <1>1, Zenon DEF Write, KeepsSession
  <2>2. call[s].pc = "write" /\ WrittenId(s) \in CertificateIds
    BY <1>1, Zenon DEF Write
  <2> QED
    BY <2>1, <2>2, QuietWork DEF QuietSession
<1>2. CASE Bind(s)
  <2>1. /\ UNCHANGED nextId /\ call[s].pc = "bind"
        /\ (\E v : Connected(s, v)) \/ KeepsSession(s)
    BY <1>2, Zenon DEF Bind, KeepsSession
  <2> QED
    BY <2>1, QuietWork DEF QuietSession
<1>3. CASE LoadActiveConfiguration(s)
  <2>1. UNCHANGED nextId
    BY <1>3 DEF LoadActiveConfiguration
  <2>2. LoadsSession(s, Len(log), Active) \/ KeepsSession(s)
    BY <1>3, Zenon DEF LoadActiveConfiguration, LoadsSession, KeepsSession
  <2>3. LoadsSession(s, Len(log), Active) => session'[s].work = Active
    BY DEF LoadsSession, TypeOK, SessionRecords
  <2> QED
    BY <2>1, <2>2, <2>3, QuietWork DEF QuietSession
<1>4. CASE ~(Write(s) \/ Bind(s) \/ LoadActiveConfiguration(s))
  <2>1. UNCHANGED nextId
    BY <1>4, Zenon DEF Acts, Step, Call, Start, Acquire, VerifyGatewayVersion, CreateSession,
       Abandon, Finish, Stage, CommitWithOptions, Abort, Cancel, Resolve, Decode,
       ValidateConfiguration, ActivateConfigurationWithOptions, GatewayActivates
  <2>2. QuietSession(s)
    BY <1>4, Zenon DEF Acts, Step, Call, Start, Acquire, VerifyGatewayVersion, CreateSession,
       Abandon, Finish, Stage, CommitWithOptions, Abort, Cancel, Resolve, Decode,
       ValidateConfiguration, ActivateConfigurationWithOptions, GatewayActivates,
       QuietSession, KeepsSession, OpensSession, ValidatesSession, LeavesLate
  <2> QED
    BY <2>1, <2>2, QuietWork
<1> QED
  BY <1>1, <1>2, <1>3, <1>4

\* The write and the binding in a working copy.
LEMMA WrittenCopy ==
    ASSUME TypeOK, NEW s \in Transactions, NEW id, Written(s, id)
    PROVE  /\ session'[s].work = WriteIn(session[s].work, call[s].plan, id)
           /\ session'[s].base = session[s].base /\ session'[s].late = session[s].late
           /\ nextId' = IF call[s].plan.id = NoCertificate THEN nextId + 1 ELSE nextId
<1> DEFINE work == WriteIn(session[s].work, call[s].plan, id)
<1>1. EditsSession(s, work)
  BY Zenon DEF Written, EditsSession, WriteIn
<1>2. nextId' = IF call[s].plan.id = NoCertificate THEN nextId + 1 ELSE nextId
  BY DEF Written
<1> HIDE DEF work
<1>3. /\ session'[s].work = work /\ session'[s].base = session[s].base
      /\ session'[s].late = session[s].late
  BY <1>1 DEF EditsSession, TypeOK, SessionRecords
<1> QED
  BY <1>2, <1>3 DEF work

LEMMA ConnectedCopy ==
    ASSUME TypeOK, NEW s \in Transactions, NEW v, Connected(s, v)
    PROVE  /\ session'[s].work = ConnectIn(session[s].work, call[s].plan.id, v)
           /\ session'[s].base = session[s].base /\ session'[s].late = session[s].late
<1> DEFINE work == ConnectIn(session[s].work, call[s].plan.id, v)
<1>1. EditsSession(s, work)
  BY Zenon DEF Connected, EditsSession
<1> HIDE DEF work
<1>2. /\ session'[s].work = work /\ session'[s].base = session[s].base
      /\ session'[s].late = session[s].late
  BY <1>1 DEF EditsSession, TypeOK, SessionRecords
<1> QED
  BY <1>2 DEF work

\* What was nobody's stays so while fewer IDs are left.
LEMMA FreshLater ==
    ASSUME NEW cfg, NEW n \in Nat, NEW m \in Nat, m >= n, FreshIn(cfg, n)
    PROVE  FreshIn(cfg, m)
  BY ConfigurationAssumption DEF FreshIn

\* The revisions a step adds have none of the IDs that are left.
LEMMA LogFresh ==
    ASSUME TypeOK, Fresh, nextId' \in Nat, nextId' >= nextId,
           \/ UNCHANGED log
           \/ \E cfg, by : Adds(cfg, by) /\ FreshIn(cfg, nextId)
    PROVE  \A k \in 1 .. Len(log') : FreshIn(log'[k].configuration, nextId')
<1>1. nextId \in Nat /\ Len(log) \in Nat
  BY DEF TypeOK
<1>2. \A k \in 1 .. Len(log) : FreshIn(log[k].configuration, nextId')
  BY <1>1, FreshLater DEF Fresh
<1>3. CASE UNCHANGED log
  BY <1>2, <1>3
<1>4. ASSUME NEW cfg, NEW by, Adds(cfg, by), FreshIn(cfg, nextId)
      PROVE  \A k \in 1 .. Len(log') : FreshIn(log'[k].configuration, nextId')
  <2>1. FreshIn(cfg, nextId')
    BY <1>1, <1>4, FreshLater
  <2> QED
    BY <1>1, <1>2, <1>4, <2>1 DEF Adds
<1> QED
  BY <1>3, <1>4

LEMMA StepFresh ==
    ASSUME TypeOK, Fresh, NEW s \in Transactions, Acts(s), Alone(s)
    PROVE  Fresh'
<1>1. /\ session[s].work \in Configurations /\ Active \in Configurations
      /\ FreshIn(session[s].work, nextId) /\ FreshIn(Active, nextId)
      /\ nextId \in Nat \ {0} /\ Len(log) \in 1 .. Len(log)
  BY RecordTypes, RevisionType DEF Fresh, Active, TypeOK
<1>2. nextId' \in Nat /\ nextId' >= nextId /\ FreshIn(session'[s].work, nextId')
  <2>1. CASE session'[s].work \in {session[s].work, Active} /\ UNCHANGED nextId
    BY <1>1, <2>1
  <2>2. CASE call[s].pc = "write" /\ Written(s, WrittenId(s)) /\ WrittenId(s) \in CertificateIds
    <3> DEFINE p == call[s].plan
               id == WrittenId(s)
               a == AttributesFromBundle(p.bundle)
    <3>1. /\ session'[s].work = WriteIn(session[s].work, p, id)
          /\ nextId' = IF p.id = NoCertificate THEN nextId + 1 ELSE nextId
      BY <2>2, WrittenCopy
    <3>2. p.id = NoCertificate \/ Exists(session[s].work, p.id)
      BY <2>2, RecordTypes DEF Consistent
    <3>3. id = IF p.id = NoCertificate THEN nextId ELSE p.id
      BY DEF WrittenId
    <3>4. id \in CertificateIds
      BY <2>2
    <3> HIDE DEF p, id, a
    <3>5. /\ id = nextId => FreshIn(CreateIn(session[s].work, id, a), nextId + 1)
          /\ Exists(session[s].work, id) => FreshIn(PatchIn(session[s].work, id, a), nextId)
      BY <1>1, <3>4, EditFresh
    <3>6. WriteIn(session[s].work, p, id) = IF p.id = NoCertificate
                                            THEN CreateIn(session[s].work, id, a)
                                            ELSE PatchIn(session[s].work, id, a)
      BY DEF WriteIn, a
    <3>7. FreshIn(session'[s].work, nextId')
      BY <3>1, <3>2, <3>3, <3>5, <3>6
    <3> QED
      BY <1>1, <3>1, <3>7
  <2>3. CASE UNCHANGED nextId /\ \E v : Connected(s, v)
    BY <1>1, <2>3, ConnectedCopy, ConnectFresh
  <2> QED
    BY <2>1, <2>2, <2>3, StepWork
<1>3. \A t \in Transactions : FreshIn(session'[t].work, nextId')
  <2>1. \A t \in Transactions \ {s} : FreshIn(session[t].work, nextId')
    BY <1>1, <1>2, FreshLater DEF Fresh
  <2> QED
    BY <1>2, <2>1 DEF Alone
<1>4. \/ UNCHANGED log
      \/ \E cfg, by : Adds(cfg, by) /\ FreshIn(cfg, nextId)
  <2>1. ASSUME session[s].base > 0, Activates(s)
        PROVE  \E cfg, by : Adds(cfg, by) /\ FreshIn(cfg, nextId)
    <3>1. PICK cfg : /\ Adds(cfg, s)
                     /\ \/ cfg = session[s].work
                        \/ cfg = Merged(Loaded(s), session[s].work, Active)
      BY <2>1, ActivationRevision
    <3>2. FreshIn(cfg, nextId)
      BY <1>1, <3>1, MergeFresh
    <3> QED
      BY <3>1, <3>2
  <2> QED
    BY <2>1, StepRevision
<1>5. \A k \in 1 .. Len(log') : FreshIn(log'[k].configuration, nextId')
  BY <1>2, <1>4, LogFresh
<1> QED
  BY <1>3, <1>5 DEF Fresh

LEMMA AdministratorFresh ==
    ASSUME TypeOK, Fresh, AdministratorActivates
    PROVE  Fresh'
<1>1. UNCHANGED <<nextId, session>> /\ nextId \in Nat
  BY DEF AdministratorActivates, TypeOK
<1>2. Active \in Configurations /\ FreshIn(Active, nextId)
  BY RecordTypes, RevisionType DEF Fresh, Active, TypeOK
<1>3. PICK cfg \in Edits(Active, AdminAttributes) : Adds(cfg, None)
  BY AdministratorRevision
<1>4. FreshIn(cfg, nextId)
  BY <1>1, <1>2, EditsFresh
<1>5. \A k \in 1 .. Len(log') : FreshIn(log'[k].configuration, nextId')
  BY <1>1, <1>3, <1>4, LogFresh
<1> QED
  BY <1>1, <1>5 DEF Fresh

(***************************************************************************)
(* The whole change: what has been activated.                              *)
(***************************************************************************)
\* The step adds at most one revision.
Grows == UNCHANGED log \/ \E cfg, by : Adds(cfg, by)

LEMMA StepGrows ==
    ASSUME TypeOK, [Next]_vars
    PROVE  Grows
<1>1. ASSUME NEW s \in Transactions, Acts(s) PROVE Grows
  BY <1>1, StepRevision, ActivationRevision DEF Grows
<1>2. CASE AdministratorActivates
  BY <1>2, AdministratorRevision DEF Grows
<1>3. CASE UNCHANGED vars
  BY <1>3 DEF vars, Grows
<1> QED
  BY <1>1, <1>2, <1>3, Zenon DEF Next, Acts, Terminating

LEMMA GrowsKeeps ==
    ASSUME TypeOK, Grows
    PROVE  /\ Len(log) \in Nat \ {0} /\ Len(log') \in {Len(log), Len(log) + 1}
           /\ \A k \in 1 .. Len(log) : log'[k] = log[k]
  BY DEF TypeOK, Grows, Adds

\* Who has been called for what.
SameCall(t) == call'[t].job = call[t].job /\ call'[t].policy = call[t].policy

LEMMA LoadedKept ==
    ASSUME TypeOK, Grows, NEW t \in Transactions, session'[t].base = session[t].base,
           session[t].base > 0
    PROVE  Loaded(t)' = Loaded(t) /\ session[t].base \in 1 .. Len(log)
  BY RecordTypes, GrowsKeeps DEF Loaded, Consistent

\* What is said of a revision stays true.
LEMMA InstalledKept ==
    ASSUME TypeOK, Grows, NEW t \in Managed, SameCall(t),
           session'[t].base = session[t].base, session[t].base > 0,
           NEW k \in 1 .. Len(log)
    PROVE  /\ InstalledIn(t, k) => InstalledIn(t, k)'
           /\ Rebound(t, k) => Rebound(t, k)'
<1>1. t \in Transactions
  BY DEF Managed
<1>2. /\ session[t].base \in 1 .. Len(log) /\ Len(log) \in Nat /\ log'[k] = log[k]
      /\ log'[session[t].base] = log[session[t].base]
  BY <1>1, LoadedKept, GrowsKeeps
<1>3. ASSUME Rebound(t, k) PROVE Rebound(t, k)'
  <2>1. PICK j \in session[t].base + 1 .. k :
            /\ log[j].by # t
            /\ SelectedIds(log[j].configuration, call[t].job.target)
                  # SelectedIds(log[j - 1].configuration, call[t].job.target)
    BY <1>3 DEF Rebound
  <2>2. j \in 1 .. Len(log) /\ j - 1 \in 1 .. Len(log)
    BY <1>2
  <2>3. log'[j] = log[j] /\ log'[j - 1] = log[j - 1]
    BY <2>2, GrowsKeeps
  <2> QED
    BY <2>1, <2>3 DEF Rebound, SameCall
<1>4. Installed(log[k].configuration, t) => Installed(log[k].configuration, t)'
  BY <1>2 DEF Installed, SameCall
<1> QED
  BY <1>2, <1>3, <1>4 DEF InstalledIn, SameCall

\* A step that activates nothing for t keeps what was said of its activations.
LEMMA HistoryKept ==
    ASSUME TypeOK, Grows, NEW t \in Managed, Orderly(t), Stays(t), Installs(t), SameCall(t),
           session'[t].base = session[t].base, ActivatedBy(t)' = ActivatedBy(t)
    PROVE  Stays(t)' /\ Installs(t)'
<1> DEFINE target == call[t].job.target
<1>1. t \in Transactions /\ session[t].base \in Nat /\ call'[t].job.target = target
  BY RecordTypes DEF Managed, SameCall
<1>2. Len(log) \in Nat \ {0} /\ Len(log') \in {Len(log), Len(log) + 1}
      /\ \A k \in 1 .. Len(log) : log'[k] = log[k]
  BY GrowsKeeps
<1>3. ASSUME NEW k \in ActivatedBy(t)'
      PROVE  k > session'[t].base /\ InstalledIn(t, k)'
  <2>1. k > session[t].base /\ InstalledIn(t, k) /\ k \in 1 .. Len(log)
    BY <1>3 DEF Installs, ActivatedBy
  <2>2. session[t].base > 0
    BY <1>3 DEF Orderly, Reads
  <2> QED
    BY <2>1, <2>2, InstalledKept
<1>4. ASSUME session[t].base > 0, ActivatedBy(t) = {}
      PROVE  \/ SelectedIds(Active', target) = SelectedIds(Loaded(t)', target)
             \/ Rebound(t, Len(log))'
  <2>1. Loaded(t)' = Loaded(t) /\ session[t].base \in 1 .. Len(log)
    BY <1>1, <1>4, LoadedKept
  <2>2. \/ SelectedIds(Active, target) = SelectedIds(Loaded(t), target)
        \/ Rebound(t, Len(log))
    BY <1>4 DEF Stays
  <2>3. CASE Len(log') = Len(log)
    <3>1. Active' = Active
      BY <1>2, <2>3 DEF Active
    <3>2. Rebound(t, Len(log)) => Rebound(t, Len(log))'
      <4>1. Rebound(t, Len(log)) => \E j \in session[t].base + 1 .. Len(log) :
                /\ log[j].by # t
                /\ SelectedIds(log[j].configuration, target)
                      # SelectedIds(log[j - 1].configuration, target)
        BY DEF Rebound
      <4>2. \A j \in session[t].base + 1 .. Len(log) :
                log'[j] = log[j] /\ log'[j - 1] = log[j - 1]
        BY <1>1, <1>2, <1>4
      <4> QED
        BY <1>1, <2>3, <4>1, <4>2 DEF Rebound
    <3> QED
      BY <2>1, <2>2, <3>1, <3>2
  <2>4. CASE Len(log') = Len(log) + 1
    <3>1. log'[Len(log')].by # t
      BY <1>2, <1>4, <2>4 DEF ActivatedBy
    <3>2. Rebound(t, Len(log)) => Rebound(t, Len(log))'
      <4>1. Rebound(t, Len(log)) => \E j \in session[t].base + 1 .. Len(log) :
                /\ log[j].by # t
                /\ SelectedIds(log[j].configuration, target)
                      # SelectedIds(log[j - 1].configuration, target)
        BY DEF Rebound
      <4>2. \A j \in session[t].base + 1 .. Len(log) :
                /\ log'[j] = log[j] /\ log'[j - 1] = log[j - 1]
                /\ j \in session'[t].base + 1 .. Len(log')
        BY <1>1, <1>2, <1>4, <2>4
      <4> QED
        BY <1>1, <4>1, <4>2 DEF Rebound
    <3>3. CASE SelectedIds(Active', target) = SelectedIds(Active, target)
      BY <2>1, <2>2, <3>2, <3>3
    <3>4. CASE SelectedIds(Active', target) # SelectedIds(Active, target)
      <4>1. /\ Len(log') \in session'[t].base + 1 .. Len(log')
            /\ log'[Len(log') - 1] = log[Len(log)]
        BY <1>1, <1>2, <2>1, <2>4
      <4>2. Rebound(t, Len(log))'
        BY <1>1, <3>1, <3>4, <4>1 DEF Rebound, Active
      <4> QED
        BY <4>2
    <3> QED
      BY <3>3, <3>4
  <2> QED
    BY <1>2, <2>3, <2>4
<1> QED
  BY <1>1, <1>3, <1>4 DEF Stays, Installs

\* An activation for s installs what it was called for.
LEMMA ActivationInstalls ==
    ASSUME TypeOK, NEW s \in Managed, Stays(s), ActivatedBy(s) = {}, SameCall(s),
           session[s].base > 0, session'[s].base = session[s].base, Activates(s),
           Complete(Loaded(s), session[s].work, call[s].job)
    PROVE  Stays(s)' /\ Installs(s)' /\ ActivatedBy(s)' # {}
<1> DEFINE target == call[s].job.target
           n == Len(log) + 1
<1>1. s \in Transactions
  BY DEF Managed
<1>2. PICK cfg : /\ Adds(cfg, s)
                 /\ \/ cfg = session[s].work
                    \/ /\ call[s].policy = "merge"
                       /\ cfg = Merged(Loaded(s), session[s].work, Active)
  BY <1>1, ActivationRevision
<1>3. Grows
  BY <1>2 DEF Grows
<1>4. /\ session[s].base \in 1 .. Len(log) /\ Len(log) \in Nat \ {0}
      /\ Loaded(s)' = Loaded(s)
  BY <1>1, <1>3, LoadedKept, GrowsKeeps
<1>5. /\ session[s].work \in Configurations /\ Loaded(s) \in Configurations
      /\ Active \in Configurations
  BY <1>1, <1>4, RecordTypes, RevisionType DEF Loaded
<1>6. ActivatedBy(s)' = {n} /\ n \in Nat
  BY <1>1, <1>4, ActivationAdds
<1>7. /\ Len(log') = n /\ log'[n].configuration = cfg /\ log'[n].by = s
      /\ \A k \in 1 .. Len(log) : log'[k] = log[k]
  BY <1>2 DEF Adds
<1>8. InstalledAs(cfg, Loaded(s), call[s].job)
        \/ (call[s].policy = "merge" /\ Rebound(s, Len(log)))
  <2>1. CASE cfg = session[s].work
    BY <2>1, CompleteInstalled
  <2>2. CASE call[s].policy = "merge" /\ cfg = Merged(Loaded(s), session[s].work, Active)
    <3>1. CASE SelectedIds(Active, target) = SelectedIds(Loaded(s), target)
      BY <1>5, <2>2, <3>1, MergeInstalls
    <3>2. CASE SelectedIds(Active, target) # SelectedIds(Loaded(s), target)
      BY <2>2, <3>2 DEF Stays
    <3> QED
      BY <3>1, <3>2
  <2> QED
    BY <1>2, <2>1, <2>2
<1>9. InstalledAs(cfg, Loaded(s), call[s].job) => Installed(log[Len(log)].configuration, s)'
  BY <1>4, <1>7 DEF InstalledAs, Installed, Loaded, SameCall
<1>10. Rebound(s, Len(log)) => Rebound(s, Len(log))'
  <2>1. Rebound(s, Len(log)) => \E j \in session[s].base + 1 .. Len(log) :
            /\ log[j].by # s
            /\ SelectedIds(log[j].configuration, target)
                  # SelectedIds(log[j - 1].configuration, target)
    BY DEF Rebound
  <2>2. \A j \in session[s].base + 1 .. Len(log) :
            /\ log'[j] = log[j] /\ log'[j - 1] = log[j - 1]
            /\ j \in session'[s].base + 1 .. n
    BY <1>4, <1>7
  <2> QED
    BY <1>4, <1>7, <2>1, <2>2 DEF Rebound, SameCall
<1>11. InstalledIn(s, Len(log))'
  BY <1>8, <1>9, <1>10 DEF InstalledIn, SameCall
<1>12. n > session'[s].base
  BY <1>4
<1> QED
  BY <1>6, <1>7, <1>11, <1>12 DEF Installs, Stays

(***************************************************************************)
(* The whole change: the steps of a managed call.                          *)
(***************************************************************************)
CallIs(s, pc, err, changed) ==
    /\ call'[s].pc = pc /\ call'[s].err = err /\ call'[s].changed = changed
    /\ call'[s].plan = call[s].plan /\ SameCall(s)

LEMMA ManagedRows ==
    ASSUME TypeOK, NEW s \in Managed, NEW pc, NEW err
    PROVE  LET c == call[s]
           IN  /\ Goto(s, pc) => CallIs(s, pc, c.err, c.changed)
               /\ Return(s, err) => CallIs(s, "done", err, c.changed)
               /\ Finishing(s, err) => CallIs(s, "finish", err, c.changed)
               /\ StageFails(s, err) => CallIs(s, "finish", err, c.changed)
               /\ Closes(s, err) => CallIs(s, "done", err, c.changed)
  BY DEF Managed, Goto, Return, Finishing, StageFails, Closes, TypeOK, CallRecords, CallIs,
         SameCall

LEMMA StagedRows ==
    ASSUME TypeOK, NEW s \in Managed, NEW changed \in BOOLEAN, StageSucceeds(s, changed)
    PROVE  /\ call'[s].err = call[s].err /\ SameCall(s)
           /\ call'[s].changed <=> (call[s].changed \/ changed)
           /\ call'[s].pc = IF call[s].changed \/ changed THEN "validate" ELSE "finish"
  BY DEF Managed, StageSucceeds, TypeOK, CallRecords, SameCall

\* A step that does not edit the working copy.
KeepsCopy(s) ==
    \/ KeepsSession(s) \/ OpensSession(s) \/ Terminated(s) \/ ValidatesSession(s)
    \/ LeavesLate(s, FALSE)

LEMMA KeptCopy ==
    ASSUME TypeOK, NEW s \in Transactions, KeepsCopy(s) \/ LeavesLate(s, TRUE)
    PROVE  /\ session'[s].work = session[s].work /\ session'[s].base = session[s].base
           /\ KeepsCopy(s) => (session'[s].late => session[s].late)
  BY DEF KeepsCopy, KeepsSession, OpensSession, Terminated, ValidatesSession, LeavesLate,
         TypeOK, SessionRecords

\* A call that is not over has activated nothing, and nothing of it is late.
LEMMA NotOver ==
    ASSUME NEW s \in Managed, Orderly(s), call[s].pc \notin {"finish", "done"}
    PROVE  /\ ~session[s].late /\ ActivatedBy(s) = {}
           /\ call[s].pc # "abandon" => call[s].err = "none"
  BY DEF Orderly, Once, Over, Ends, Honest

Installing(s) == Staged(s) /\ Stays(s) /\ Installs(s) /\ Reports(s)

\* A step that activates nothing.
LEMMA Unactivated ==
    ASSUME TypeOK, NEW s \in Managed, Orderly(s), Installing(s), UNCHANGED log, SameCall(s),
           session'[s].base = session[s].base
    PROVE  /\ Stays(s)' /\ Installs(s)' /\ ActivatedBy(s)' = ActivatedBy(s)
           /\ session[s].base > 0 => Loaded(s)' = Loaded(s)
<1>1. Grows /\ s \in Transactions
  BY DEF Grows, Managed
<1>2. ActivatedBy(s)' = ActivatedBy(s)
  BY DEF ActivatedBy
<1> QED
  BY <1>1, <1>2, HistoryKept, LoadedKept DEF Installing

LEMMA CallInstalls ==
    ASSUME TypeOK, NEW s \in Managed, Orderly(s), Installing(s), Call(s)
    PROVE  Installing(s)'
<1>1. /\ call[s].pc = "idle" /\ UNCHANGED <<log, session>>
      /\ call'[s].pc \in {"version", "lock", "done"} /\ call'[s].changed = call[s].changed
      /\ call'[s].pc = "done" => call'[s].err = "arguments"
  BY DEF Managed, Call, TypeOK, CallRecords
<1>2. ~session[s].late /\ ActivatedBy(s) = {} /\ session[s].base = 0 /\ ~call[s].changed
  BY <1>1, NotOver DEF Orderly, Reads, Installing, Reports
<1>3. ActivatedBy(s)' = {}
  BY <1>1, <1>2 DEF ActivatedBy
<1>4. Staged(s)'
  BY <1>1, <1>2 DEF Staged
<1>5. Stays(s)' /\ Installs(s)'
  BY <1>1, <1>2, <1>3 DEF Stays, Installs
<1>6. Reports(s)'
  BY <1>1, <1>2 DEF Reports
<1> QED
  BY <1>4, <1>5, <1>6 DEF Installing

\* Before the configuration is loaded there is no working copy.
LEMMA OpeningInstalls ==
    ASSUME TypeOK, NEW s \in Managed, Orderly(s), Installing(s),
           Acquire(s) \/ VerifyGatewayVersion(s) \/ CreateSession(s) \/ Abandon(s)
    PROVE  Installing(s)'
<1>1. s \in Transactions /\ call[s].pc \in {"lock", "version", "create", "abandon"}
  BY Zenon DEF Managed, Acquire, VerifyGatewayVersion, CreateSession, Abandon
<1>2. KeepsCopy(s) /\ UNCHANGED log
  BY Zenon DEF Acquire, VerifyGatewayVersion, CreateSession, Abandon, KeepsCopy,
       KeepsSession, OpensSession
<1>3. /\ SameCall(s) /\ call'[s].changed = call[s].changed
      /\ \/ call'[s].pc \in {"version", "create", "load"}
         \/ call'[s].pc = "done" /\ call'[s].err # "none"
  <2>1. \/ Goto(s, "version") \/ Goto(s, "create") \/ Goto(s, "load")
        \/ Return(s, "version") \/ Return(s, "create")
        \/ call[s].pc = "abandon" /\ Return(s, call[s].err)
    BY Zenon DEF Acquire, VerifyGatewayVersion, CreateSession, Abandon
  <2>2. call[s].pc = "abandon" => call[s].err # "none"
    BY DEF Installing, Reports
  <2> QED
    BY <2>1, <2>2, ManagedRows DEF CallIs
<1>4. /\ session'[s].base = session[s].base /\ ~session'[s].late /\ ~call[s].changed
  BY <1>1, <1>2, KeptCopy, NotOver DEF Installing, Reports
<1>5. Stays(s)' /\ Installs(s)'
  BY <1>2, <1>3, <1>4, Unactivated
<1>6. Staged(s)' /\ Reports(s)'
  BY <1>3, <1>4 DEF Staged, Reports
<1> QED
  BY <1>5, <1>6 DEF Installing

\* The working copy is loaded: it is what is active.
LEMMA LoadInstalls ==
    ASSUME TypeOK, NEW s \in Managed, Orderly(s), Installing(s), LoadActiveConfiguration(s)
    PROVE  Installing(s)'
<1>1. s \in Transactions /\ call[s].pc = "load" /\ UNCHANGED log
  BY Zenon DEF Managed, LoadActiveConfiguration
<1>2. ~session[s].late /\ ActivatedBy(s) = {} /\ ~call[s].changed
  BY <1>1, NotOver DEF Installing, Reports
<1>3. ActivatedBy(s)' = {}
  BY <1>1, <1>2 DEF ActivatedBy
<1>4. CASE Goto(s, "resolve") /\ LoadsSession(s, Len(log), Active)
  <2>1. CallIs(s, "resolve", call[s].err, call[s].changed)
    BY <1>4, ManagedRows
  <2>2. /\ session'[s].base = Len(log) /\ session'[s].work = Active
        /\ session'[s].late = session[s].late
    BY <1>1, <1>4 DEF LoadsSession, TypeOK, SessionRecords
  <2>3. Loaded(s)' = Active /\ Active' = Active
    BY <1>1, <2>2 DEF Loaded, Active
  <2>4. Staged(s)' /\ Reports(s)'
    BY <1>2, <2>1, <2>2, <2>3 DEF Staged, Reports, CallIs
  <2>5. Stays(s)' /\ Installs(s)'
    BY <1>3, <2>3 DEF Stays, Installs
  <2> QED
    BY <2>4, <2>5 DEF Installing
<1>5. CASE KeepsSession(s) /\ call' = [call EXCEPT ![s].pc = "abandon", ![s].err = "load"]
  <2>1. CallIs(s, "abandon", "load", call[s].changed)
    BY <1>1, <1>5 DEF TypeOK, CallRecords, CallIs, SameCall
  <2>2. session'[s].base = session[s].base /\ ~session'[s].late
    BY <1>2, <1>5 DEF KeepsSession
  <2>3. Staged(s)' /\ Reports(s)'
    BY <1>2, <2>1, <2>2 DEF Staged, Reports, CallIs
  <2>4. Stays(s)' /\ Installs(s)'
    BY <1>1, <2>1, <2>2, Unactivated DEF CallIs
  <2> QED
    BY <2>3, <2>4 DEF Installing
<1>6. \/ Goto(s, "resolve") /\ LoadsSession(s, Len(log), Active)
      \/ KeepsSession(s) /\ call' = [call EXCEPT ![s].pc = "abandon", ![s].err = "load"]
  <2>1. s \notin Owned
    BY DEF Managed
  <2> QED
    BY <2>1, Zenon DEF LoadActiveConfiguration, LoadsSession, KeepsSession
<1> QED
  BY <1>4, <1>5, <1>6

\* A step of a stage that fails, or otherwise ends without a change.
EndsWith(s, err) ==
    call'[s].pc = "finish" /\ call'[s].err = err /\ ~call'[s].changed /\ SameCall(s)

LEMMA EndsUnchanged ==
    ASSUME TypeOK, NEW s \in Managed, Orderly(s), Installing(s), UNCHANGED log,
           session'[s].base = session[s].base, ~session'[s].late, ActivatedBy(s) = {},
           session[s].base > 0, NEW err, EndsWith(s, err),
           \/ err # "none" \/ call[s].job.operation = "get"
           \/ InstalledAs(Loaded(s), Loaded(s), call[s].job)
    PROVE  Installing(s)'
<1>1. /\ Stays(s)' /\ Installs(s)' /\ ActivatedBy(s)' = {} /\ Loaded(s)' = Loaded(s)
      /\ call'[s].job = call[s].job
  BY Unactivated DEF EndsWith, SameCall
<1>2. Staged(s)' /\ Reports(s)'
  BY <1>1 DEF Staged, Reports, EndsWith
<1> QED
  BY <1>1, <1>2 DEF Installing

\* What a loaded call that is not over has.
LEMMA StagingHas ==
    ASSUME TypeOK, NEW s \in Managed, Orderly(s), Installing(s),
           call[s].pc \in LoadedSteps \ {"finish"}
    PROVE  /\ s \in Transactions /\ s \notin Owned
           /\ session[s].base > 0 /\ session[s].base \in 1 .. Len(log)
           /\ ~session[s].late /\ ActivatedBy(s) = {} /\ call[s].err = "none"
           /\ call[s].changed => call[s].pc \in {"validate", "activate"}
           /\ call[s].job \in ValidJobs
           /\ Loaded(s) \in Configurations /\ session[s].work \in Configurations
<1>1. s \in Transactions /\ s \notin Owned
  BY DEF Managed
<1>2. call[s].pc \notin {"finish", "done", "abandon", "idle"}
  BY DEF LoadedSteps, StageSteps
<1>3. /\ session[s].base > 0 /\ session[s].base \in 1 .. Len(log)
      /\ call[s].job \in ValidJobs
  BY <1>1, <1>2, RecordTypes DEF Consistent
<1>4. Loaded(s) \in Configurations /\ session[s].work \in Configurations
  BY <1>1, <1>3, RecordTypes, RevisionType DEF Loaded
<1> QED
  BY <1>1, <1>2, <1>3, <1>4, NotOver DEF Installing, Reports

LEMMA ResolveInstalls ==
    ASSUME TypeOK, NEW s \in Managed, Orderly(s), Installing(s), Resolve(s)
    PROVE  Installing(s)'
<1> DEFINE job == call[s].job
           work == session[s].work
<1>1. call[s].pc = "resolve" /\ UNCHANGED <<log, session>>
  BY DEF Resolve
<1>2. /\ s \in Transactions /\ s \notin Owned
      /\ session[s].base > 0 /\ ~session[s].late /\ ActivatedBy(s) = {}
      /\ call[s].err = "none" /\ ~call[s].changed /\ job \in ValidJobs
      /\ Loaded(s) \in Configurations
  BY <1>1, StagingHas DEF LoadedSteps, StageSteps
<1>3. work = Loaded(s)
  BY <1>1 DEF Installing, Staged
<1>4. \/ Goto(s, "finish") /\ job.operation = "get"
      \/ StageFails(s, "stage")
      \/ \E p \in Plans(work, job) : ~p.write /\ StageSucceeds(s, FALSE)
      \/ \E p \in Plans(work, job) :
            p.write /\ call' = [call EXCEPT ![s].plan = p, ![s].pc = "write"]
  BY <1>2, Zenon DEF Resolve
<1>5. ASSUME Goto(s, "finish"), job.operation = "get"
      PROVE  Installing(s)'
  <2>1. EndsWith(s, "none")
    BY <1>2, <1>5, ManagedRows DEF CallIs, EndsWith
  <2> QED
    BY <1>1, <1>2, <1>5, <2>1, EndsUnchanged
<1>6. CASE StageFails(s, "stage")
  <2>1. EndsWith(s, "stage")
    BY <1>2, <1>6, ManagedRows DEF CallIs, EndsWith
  <2> QED
    BY <1>1, <1>2, <2>1, EndsUnchanged
<1>7. ASSUME NEW p \in Plans(work, job), ~p.write, StageSucceeds(s, FALSE)
      PROVE  Installing(s)'
  <2>1. EndsWith(s, "none")
    BY <1>2, <1>7, StagedRows DEF EndsWith
  <2>2. InstalledAs(Loaded(s), Loaded(s), job)
    BY <1>2, <1>3, <1>7, NothingToWrite
  <2> QED
    BY <1>1, <1>2, <2>1, <2>2, EndsUnchanged
<1>8. ASSUME NEW p \in Plans(work, job), p.write,
             call' = [call EXCEPT ![s].plan = p, ![s].pc = "write"]
      PROVE  Installing(s)'
  <2>1. /\ call'[s].pc = "write" /\ call'[s].plan = p /\ call'[s].changed = call[s].changed
        /\ SameCall(s)
    BY <1>2, <1>8 DEF TypeOK, CallRecords, SameCall
  <2>2. Stays(s)' /\ Installs(s)' /\ Loaded(s)' = Loaded(s)
    BY <1>1, <1>2, <2>1, Unactivated
  <2>3. Staged(s)'
    BY <1>1, <1>2, <1>3, <1>8, <2>1, <2>2 DEF Staged, SameCall
  <2>4. Reports(s)'
    BY <1>2, <2>1 DEF Reports
  <2> QED
    BY <2>2, <2>3, <2>4 DEF Installing
<1> QED
  BY <1>4, <1>5, <1>6, <1>7, <1>8

\* The write makes the resource; the plan says whether it is to be bound.
LEMMA WriteInstalls ==
    ASSUME TypeOK, Fresh, NEW s \in Managed, Orderly(s), Installing(s), Write(s)
    PROVE  Installing(s)'
<1> DEFINE job == call[s].job
           plan == call[s].plan
           base == Loaded(s)
           id == WrittenId(s)
           work == WriteIn(base, plan, id)
<1>1. call[s].pc = "write" /\ UNCHANGED log /\ id \in CertificateIds
  BY DEF Write
<1>2. /\ s \in Transactions /\ s \notin Owned
      /\ session[s].base > 0 /\ ~session[s].late /\ ActivatedBy(s) = {}
      /\ call[s].err = "none" /\ ~call[s].changed /\ job \in ValidJobs
      /\ base \in Configurations
  BY <1>1, StagingHas DEF LoadedSteps, StageSteps
<1>3. session[s].work = base /\ plan \in Plans(base, job) /\ plan.write
  BY <1>1 DEF Installing, Staged
<1>4. ASSUME session'[s].base = session[s].base, ~session'[s].late,
             NEW err, err # "none", StageFails(s, err)
      PROVE  Installing(s)'
  <2>1. EndsWith(s, err)
    BY <1>2, <1>4, ManagedRows DEF CallIs, EndsWith
  <2> QED
    BY <1>1, <1>2, <1>4, <2>1, EndsUnchanged
<1>5. ASSUME Written(s, id)
      PROVE  session'[s].base = session[s].base /\ ~session'[s].late /\ session'[s].work = work
  BY <1>2, <1>3, <1>5, WrittenCopy
<1>6. ASSUME Written(s, id),
             call' = [call EXCEPT ![s].plan.id = id,
                                  ![s].pc = IF plan.hosts = {} THEN "decode" ELSE "bind"]
      PROVE  Installing(s)'
  <2>1. session'[s].base = session[s].base /\ ~session'[s].late /\ session'[s].work = work
    BY <1>5, <1>6
  <2>2. /\ call'[s].pc = IF plan.hosts = {} THEN "decode" ELSE "bind"
        /\ call'[s].plan = [plan EXCEPT !.id = id] /\ call'[s].changed = call[s].changed
        /\ SameCall(s)
    BY <1>2, <1>6 DEF TypeOK, CallRecords, SameCall
  <2>3. call'[s].plan.id = id /\ call'[s].plan.hosts = plan.hosts
    <3>1. plan \in PlanRecords
      BY <1>1, <1>2, RecordTypes DEF Consistent
    <3> QED
      BY <2>2, <3>1 DEF PlanRecords
  <2>4. Stays(s)' /\ Installs(s)' /\ Loaded(s)' = base
    BY <1>1, <1>2, <2>1, <2>2, Unactivated
  <2>5. IF plan.id = NoCertificate THEN ~Exists(base, id) ELSE id = plan.id
    <3>1. FreshIn(base, nextId) /\ nextId \in Nat
      BY <1>2, <1>3 DEF Fresh, TypeOK
    <3> QED
      BY <1>1, <3>1 DEF FreshIn, WrittenId
  <2>6. Prepared(base, work, job, id) /\ work.bound = base.bound
    BY <1>1, <1>2, <1>3, <2>5, WritePrepares
  <2>7. Reports(s)'
    BY <1>2, <2>2 DEF Reports
  <2>8. CASE plan.hosts = {}
    <3>1. job.operation = "create"
            \/ (plan.id # NoCertificate /\ SelectedIds(base, job.target) = {plan.id})
      BY <1>2, <1>3, <2>8, PlanBinds
    <3>2. Selects(work, job, id)
      BY <2>5, <2>6, <3>1, SameSelected DEF Selects
    <3>3. Complete(base, work, job)
      BY <1>1, <2>6, <3>2 DEF Complete
    <3> HIDE DEF work, base
    <3>4. Staged(s)'
      BY <2>1, <2>2, <2>4, <2>8, <3>3 DEF Staged, SameCall
    <3> QED
      BY <2>4, <2>7, <3>4 DEF Installing
  <2>9. CASE plan.hosts # {}
    <3>1. /\ job.target.kind = "virtualHost"
          /\ \E v \in VirtualHosts : plan.hosts = {v} /\ VirtualHostsOf(job.target) = {v}
      BY <1>2, <1>3, <2>9, PlanBinds
    <3> HIDE DEF work, base
    <3>2. Staged(s)'
      BY <2>1, <2>2, <2>3, <2>4, <2>6, <2>9, <3>1 DEF Staged, SameCall
    <3> QED
      BY <2>4, <2>7, <3>2 DEF Installing
  <2> QED
    BY <2>8, <2>9
<1>7. \/ /\ Written(s, id)
         /\ call' = [call EXCEPT ![s].plan.id = id,
                                 ![s].pc = IF plan.hosts = {} THEN "decode" ELSE "bind"]
      \/ StageFails(s, "default-entity") /\ UNCHANGED session
      \/ StageFails(s, "stage") /\ (UNCHANGED session \/ Written(s, id))
  BY Zenon DEF Write
<1> QED
  BY <1>2, <1>4, <1>5, <1>6, <1>7

\* The binding completes the working copy.
LEMMA BindInstalls ==
    ASSUME TypeOK, NEW s \in Managed, Orderly(s), Installing(s), Bind(s)
    PROVE  Installing(s)'
<1> DEFINE job == call[s].job
           base == Loaded(s)
           id == call[s].plan.id
<1>1. call[s].pc = "bind" /\ UNCHANGED log
  BY DEF Bind
<1>2. /\ s \in Transactions /\ s \notin Owned
      /\ session[s].base > 0 /\ ~session[s].late /\ ActivatedBy(s) = {}
      /\ call[s].err = "none" /\ ~call[s].changed /\ job \in ValidJobs
      /\ base \in Configurations /\ session[s].work \in Configurations
  BY <1>1, StagingHas DEF LoadedSteps, StageSteps
<1>3. /\ Prepared(base, session[s].work, job, id) /\ job.target.kind = "virtualHost"
      /\ \E v \in VirtualHosts : call[s].plan.hosts = {v} /\ VirtualHostsOf(job.target) = {v}
  BY <1>1 DEF Installing, Staged
<1>4. ASSUME session'[s].base = session[s].base, ~session'[s].late, StageFails(s, "stage")
      PROVE  Installing(s)'
  <2>1. EndsWith(s, "stage")
    BY <1>2, <1>4, ManagedRows DEF CallIs, EndsWith
  <2> QED
    BY <1>1, <1>2, <1>4, <2>1, EndsUnchanged
<1>5. ASSUME NEW v \in call[s].plan.hosts, Connected(s, v), Goto(s, "decode")
      PROVE  Installing(s)'
  <2>1. /\ session'[s].base = session[s].base /\ ~session'[s].late
        /\ session'[s].work = ConnectIn(session[s].work, id, v)
    BY <1>2, <1>5, ConnectedCopy
  <2>2. CallIs(s, "decode", call[s].err, call[s].changed)
    BY <1>2, <1>5, ManagedRows
  <2>3. Stays(s)' /\ Installs(s)' /\ Loaded(s)' = base
    BY <1>1, <1>2, <2>1, <2>2, Unactivated DEF CallIs
  <2>4. Complete(base, ConnectIn(session[s].work, id, v), job)
    <3>1. v \in VirtualHosts /\ VirtualHostsOf(job.target) = {v}
      BY <1>3, <1>5
    <3>2. id \in CertificateIds
      BY <1>3 DEF Prepared
    <3> QED
      BY <1>2, <1>3, <3>1, <3>2, BindCompletes
  <2> HIDE DEF base
  <2>5. Staged(s)'
    BY <2>1, <2>2, <2>3, <2>4 DEF Staged, CallIs, SameCall
  <2>6. Reports(s)'
    BY <1>2, <2>2 DEF Reports, CallIs
  <2> QED
    BY <2>3, <2>5, <2>6 DEF Installing
<1>6. \E v \in call[s].plan.hosts :
         \/ Connected(s, v) /\ Goto(s, "decode")
         \/ StageFails(s, "stage") /\ (UNCHANGED session \/ Connected(s, v))
  BY Zenon DEF Bind
<1> QED
  BY <1>2, <1>4, <1>5, <1>6, ConnectedCopy

\* A complete working copy stays as it is until it is activated.
LEMMA CommitInstalls ==
    ASSUME TypeOK, NEW s \in Managed, Orderly(s), Installing(s),
           Decode(s) \/ ValidateConfiguration(s)
    PROVE  Installing(s)'
<1>1. call[s].pc \in {"decode", "validate"} /\ UNCHANGED log
  BY DEF Decode, ValidateConfiguration
<1>2. /\ s \in Transactions /\ s \notin Owned
      /\ session[s].base > 0 /\ ~session[s].late /\ ActivatedBy(s) = {}
      /\ call[s].pc = "validate" => call[s].changed
  BY <1>1, StagingHas DEF LoadedSteps, StageSteps, Installing, Reports
<1>3. Complete(Loaded(s), session[s].work, call[s].job)
  BY <1>1 DEF Installing, Staged
<1>4. KeepsCopy(s)
  BY Zenon DEF Decode, ValidateConfiguration, KeepsCopy, KeepsSession, ValidatesSession
<1>5. /\ session'[s].base = session[s].base /\ session'[s].work = session[s].work
      /\ ~session'[s].late
  BY <1>2, <1>4, KeptCopy
<1>6. /\ SameCall(s)
      /\ \/ call'[s].pc \in {"validate", "activate"} /\ call'[s].changed
         \/ call'[s].pc = "finish" /\ call'[s].err # "none"
  <2>1. \/ StageSucceeds(s, TRUE) \/ StageFails(s, "stage")
        \/ call[s].pc = "validate" /\ Goto(s, "activate")
        \/ Finishing(s, "messages") \/ Finishing(s, "validate")
    BY Zenon DEF Decode, ValidateConfiguration, MessagesReported
  <2>2. StageSucceeds(s, TRUE) =>
           SameCall(s) /\ call'[s].pc = "validate" /\ call'[s].changed
    BY StagedRows
  <2>3. Goto(s, "activate") /\ call[s].changed =>
           SameCall(s) /\ call'[s].pc = "activate" /\ call'[s].changed
    BY ManagedRows DEF CallIs
  <2>4. ASSUME NEW err, err # "none", StageFails(s, err) \/ Finishing(s, err)
        PROVE  SameCall(s) /\ call'[s].pc = "finish" /\ call'[s].err # "none"
    BY <2>4, ManagedRows DEF CallIs
  <2> QED
    BY <1>2, <2>1, <2>2, <2>3, <2>4
<1>7. Stays(s)' /\ Installs(s)' /\ Loaded(s)' = Loaded(s)
  BY <1>1, <1>2, <1>5, <1>6, Unactivated
<1>8. Staged(s)' /\ Reports(s)'
  BY <1>3, <1>5, <1>6, <1>7 DEF Staged, Reports, SameCall
<1> QED
  BY <1>7, <1>8 DEF Installing

LEMMA ActivateInstalls ==
    ASSUME TypeOK, NEW s \in Managed, Orderly(s), Installing(s),
           ActivateConfigurationWithOptions(s)
    PROVE  Installing(s)'
<1>1. call[s].pc = "activate"
  BY DEF ActivateConfigurationWithOptions
<1>2. /\ s \in Transactions /\ session[s].base > 0 /\ ~session[s].late
      /\ ActivatedBy(s) = {} /\ call[s].err = "none"
  BY <1>1, StagingHas DEF LoadedSteps, StageSteps
<1>3. call[s].changed /\ Complete(Loaded(s), session[s].work, call[s].job)
  BY <1>1 DEF Installing, Staged, Reports
<1>4. CASE Activates(s) /\ Goto(s, "finish") /\ UNCHANGED session
  <2>1. /\ call'[s].pc = "finish" /\ call'[s].changed = call[s].changed /\ SameCall(s)
    BY <1>4, ManagedRows DEF CallIs
  <2>2. Stays(s)' /\ Installs(s)' /\ ActivatedBy(s)' # {}
    BY <1>2, <1>3, <1>4, <2>1, ActivationInstalls DEF Installing
  <2>3. Staged(s)'
    BY <1>2, <1>4, <2>1 DEF Staged
  <2>4. Reports(s)'
    BY <1>2, <1>3, <1>4, <2>1, <2>2 DEF Reports
  <2> QED
    BY <2>2, <2>3, <2>4 DEF Installing
<1>5. ASSUME NEW err, err # "none", Finishing(s, err), UNCHANGED log,
             LeavesLate(s, TRUE) \/ UNCHANGED session
      PROVE  Installing(s)'
  <2>1. /\ call'[s].pc = "finish" /\ call'[s].changed = call[s].changed
        /\ call'[s].err # "none" /\ SameCall(s)
    BY <1>5, ManagedRows DEF CallIs
  <2>2. session'[s].work = session[s].work /\ session'[s].base = session[s].base
    BY <1>2, <1>5, KeptCopy
  <2>3. Stays(s)' /\ Installs(s)' /\ Loaded(s)' = Loaded(s)
    BY <1>2, <1>5, <2>1, <2>2, Unactivated
  <2>4. Staged(s)'
    BY <1>3, <2>1, <2>2, <2>3 DEF Staged, SameCall
  <2>5. Reports(s)'
    BY <2>1 DEF Reports
  <2> QED
    BY <2>3, <2>4, <2>5 DEF Installing
<1>6. \/ Activates(s) /\ Goto(s, "finish") /\ UNCHANGED session
      \/ \E err \in {"policy", "conflict", "activate"} :
            /\ Finishing(s, err) /\ UNCHANGED log
            /\ LeavesLate(s, TRUE) \/ UNCHANGED session
  <2>1. \/ Activates(s) /\ Goto(s, "finish") /\ UNCHANGED session
        \/ Finishing(s, "policy") /\ UNCHANGED log /\ UNCHANGED session
        \/ Finishing(s, "conflict") /\ UNCHANGED log /\ UNCHANGED session
        \/ Finishing(s, "activate") /\ UNCHANGED log
             /\ (LeavesLate(s, TRUE) \/ UNCHANGED session)
    BY Zenon DEF ActivateConfigurationWithOptions, LeavesLate
  <2> QED
    BY <2>1
<1> QED
  BY <1>4, <1>5, <1>6

\* An activation the client has given up on installs the same.
LEMMA LateInstalls ==
    ASSUME TypeOK, NEW s \in Managed, Orderly(s), Installing(s), GatewayActivates(s)
    PROVE  Installing(s)'
<1>1. session[s].late /\ LeavesLate(s, FALSE) /\ UNCHANGED call /\ SameCall(s)
  BY DEF GatewayActivates, LeavesLate, SameCall
<1>2. s \in Transactions /\ session[s].base > 0
  BY <1>1, RecordTypes DEF Managed, Consistent
<1>3. /\ call[s].pc \in {"finish", "done"} /\ call[s].err = "activate"
      /\ ActivatedBy(s) = {}
  BY <1>1 DEF Orderly, Once, Over, Ends, Honest
<1>4. /\ session'[s].base = session[s].base /\ ~session'[s].late
  BY <1>1, <1>2 DEF LeavesLate, TypeOK, SessionRecords
<1>5. Complete(Loaded(s), session[s].work, call[s].job)
  BY <1>1 DEF Installing, Staged
<1>6. Stays(s)' /\ Installs(s)'
  <2>1. CASE Activates(s)
    BY <1>1, <1>2, <1>3, <1>4, <1>5, <2>1, ActivationInstalls DEF Installing
  <2>2. CASE UNCHANGED log
    BY <1>1, <1>4, <2>2, Unactivated
  <2> QED
    BY <2>1, <2>2 DEF GatewayActivates
<1>7. Staged(s)' /\ Reports(s)'
  BY <1>1, <1>3, <1>4 DEF Staged, Reports, Installing
<1> QED
  BY <1>6, <1>7 DEF Installing

LEMMA FinishLeads ==
    ASSUME TypeOK, NEW s \in Managed, Finish(s)
    PROVE  /\ SameCall(s) /\ call'[s].changed = call[s].changed /\ call'[s].plan = call[s].plan
           /\ call[s].pc = "finish" /\ call'[s].pc = "done"
           /\ call'[s].err \in {call[s].err, "terminate"}
<1>1. call[s].pc = "finish" /\ \E err \in {call[s].err, "terminate"} : Closes(s, err)
  <2>1. \/ Closes(s, call[s].err)
        \/ Closes(s, IF call[s].err = "none" THEN "terminate" ELSE call[s].err)
    BY Zenon DEF Finish
  <2> QED
    BY <2>1 DEF Finish
<1> QED
  BY <1>1, ManagedRows DEF CallIs

\* The end of the session and a cancellation change nothing of a call but its error.
LEMMA EndInstalls ==
    ASSUME TypeOK, NEW s \in Managed, Orderly(s), Installing(s), Finish(s) \/ Cancel(s)
    PROVE  Installing(s)'
<1>1. UNCHANGED log /\ KeepsCopy(s) /\ s \in Transactions
  BY Zenon DEF Finish, Cancel, KeepsCopy, KeepsSession, Managed
<1>2. /\ session'[s].base = session[s].base /\ session'[s].work = session[s].work
      /\ session'[s].late => session[s].late
  BY <1>1, KeptCopy
<1>3. /\ SameCall(s) /\ call'[s].changed = call[s].changed /\ call'[s].plan = call[s].plan
      /\ \/ call'[s].pc = call[s].pc
         \/ call[s].pc = "finish" /\ call'[s].pc = "done"
      /\ call'[s].err \in {call[s].err, "terminate"}
  <2>1. CASE Cancel(s)
    BY <1>1, <2>1 DEF Cancel, TypeOK, CallRecords, SameCall
  <2>2. CASE Finish(s)
    BY <2>2, FinishLeads
  <2> QED
    BY <2>1, <2>2
<1>4. Stays(s)' /\ Installs(s)' /\ ActivatedBy(s)' = ActivatedBy(s)
  BY <1>1, <1>2, <1>3, Unactivated
<1>5. session[s].base > 0 => Loaded(s)' = Loaded(s)
  BY <1>1, <1>2, <1>3, Unactivated
<1>6. call[s].pc \in LoadedSteps \/ session[s].late => session[s].base > 0
  BY <1>1, RecordTypes DEF Consistent
<1>7. Staged(s)'
  BY <1>2, <1>3, <1>5, <1>6 DEF Staged, SameCall, Installing, LoadedSteps, StageSteps
<1>8. Reports(s)'
  BY <1>2, <1>3, <1>4, <1>5 DEF Reports, SameCall, Installing
<1> QED
  BY <1>4, <1>7, <1>8 DEF Installing

\* A step of somebody else.
LEMMA OthersInstall ==
    ASSUME TypeOK, Grows, NEW t \in Managed, Orderly(t), Installing(t),
           call'[t] = call[t], session'[t] = session[t], ActivatedBy(t)' = ActivatedBy(t)
    PROVE  Installing(t)'
<1>1. t \in Transactions /\ SameCall(t)
  BY DEF Managed, SameCall
<1>2. Stays(t)' /\ Installs(t)'
  BY <1>1, HistoryKept DEF Installing
<1>3. session[t].base > 0 => Loaded(t)' = Loaded(t)
  BY <1>1, LoadedKept
<1>4. call[t].pc \in LoadedSteps \/ session[t].late => session[t].base > 0
  BY <1>1, RecordTypes DEF Consistent
<1>5. Staged(t)'
  BY <1>3, <1>4 DEF Staged, Installing, LoadedSteps, StageSteps
<1>6. Reports(t)'
  BY <1>3 DEF Reports, Installing
<1> QED
  BY <1>2, <1>5, <1>6 DEF Installing

LEMMA ActsInstalls ==
    ASSUME TypeOK, CallsInv, InstallInv, Grows, NEW s \in Transactions, Acts(s)
    PROVE  InstallInv'
<1>1. /\ \A t \in Transactions : Orderly(t)
      /\ \A t \in Managed : Installing(t)
      /\ Fresh /\ Alone(s)
  BY StepGoesOn DEF CallsInv, InstallInv, Installing, GoesOn
<1>2. Fresh'
  BY <1>1, StepFresh
<1>3. ASSUME NEW t \in Managed PROVE Installing(t)'
  <2>1. t \in Transactions /\ Orderly(t) /\ Installing(t)
    BY <1>1 DEF Managed
  <2>2. CASE t # s
    BY <1>1, <2>1, <2>2, OthersInstall DEF Alone
  <2>3. CASE t = s
    <3>1. s \in Managed /\ Orderly(s) /\ Installing(s)
      BY <2>1, <2>3
    <3>2. \/ Call(s) \/ Resolve(s) \/ Write(s) \/ Cancel(s) \/ GatewayActivates(s)
          \/ Acquire(s) \/ VerifyGatewayVersion(s) \/ CreateSession(s)
          \/ LoadActiveConfiguration(s) \/ Abandon(s) \/ Bind(s) \/ Decode(s)
          \/ ValidateConfiguration(s) \/ ActivateConfigurationWithOptions(s) \/ Finish(s)
      BY <3>1, ManagedSteps
    <3>3. Installing(s)'
      BY <1>1, <3>1, <3>2, CallInstalls, OpeningInstalls, LoadInstalls, ResolveInstalls,
         WriteInstalls, BindInstalls, CommitInstalls, ActivateInstalls, LateInstalls,
         EndInstalls
    <3> QED
      BY <2>3, <3>3
  <2> QED
    BY <2>2, <2>3
<1> QED
  BY <1>2, <1>3 DEF InstallInv, Installing

LEMMA NextInstalls == TypeOK /\ CallsInv /\ InstallInv /\ [Next]_vars => InstallInv'
<1> SUFFICES ASSUME TypeOK, CallsInv, InstallInv, [Next]_vars PROVE InstallInv'
  OBVIOUS
<1>1. Grows
  BY StepGrows
<1>2. CASE \E s \in Transactions : Acts(s)
  BY <1>1, <1>2, ActsInstalls
<1>3. ASSUME UNCHANGED <<call, session>>, \A t \in Transactions : ActivatedBy(t)' = ActivatedBy(t),
             Fresh'
      PROVE  InstallInv'
  <2>1. ASSUME NEW t \in Managed PROVE Installing(t)'
    <3>1. t \in Transactions /\ Orderly(t) /\ Installing(t)
      BY DEF Managed, CallsInv, InstallInv, Installing
    <3> QED
      BY <1>1, <1>3, <3>1, OthersInstall
  <2> QED
    BY <1>3, <2>1 DEF InstallInv, Installing
<1>4. CASE AdministratorActivates
  <2>1. Fresh' /\ \A t \in Transactions : ActivatedBy(t)' = ActivatedBy(t)
    BY <1>4, AdministratorFresh, AdministratorOrder DEF InstallInv
  <2> QED
    BY <1>3, <1>4, <2>1 DEF AdministratorActivates
<1>5. CASE UNCHANGED vars
  BY <1>3, <1>5 DEF vars, InstallInv, Fresh, ActivatedBy
<1> QED
  BY <1>2, <1>4, <1>5, Zenon DEF Next, Acts, Terminating

LEMMA InitInstalls == Init => InstallInv
<1> SUFFICES ASSUME Init PROVE InstallInv
  OBVIOUS
<1>1. PICK c \in InitialConfigurations :
         /\ log = <<Revision(None, c, "", TRUE)>>
         /\ session = [s \in Transactions |->
              [state |-> "none", base |-> 0, work |-> c, validated |-> FALSE, late |-> FALSE]]
  BY Zenon DEF Init
<1>2. FreshIn(c, nextId)
  BY FreshAssumption DEF Init, FreshIn
<1>3. Len(log) = 1 /\ log[1].configuration = c /\ log[1].by = None
  BY <1>1 DEF Revision
<1>4. Fresh
  <2>1. \A s \in Transactions : FreshIn(session[s].work, nextId)
    BY <1>1, <1>2
  <2>2. \A k \in 1 .. Len(log) : log[k].configuration = c
    BY <1>3
  <2>3. \A k \in 1 .. Len(log) : FreshIn(log[k].configuration, nextId)
    BY <1>2, <2>2
  <2> QED
    BY <2>1, <2>3 DEF Fresh
<1>5. ASSUME NEW s \in Managed
      PROVE  Staged(s) /\ Stays(s) /\ Installs(s) /\ Reports(s)
  <2>1. s \in Transactions /\ s # None
    BY LifecycleAssumption DEF Managed
  <2>2. call[s].pc = "idle" /\ call[s].changed = FALSE
    BY <2>1 DEF Init, NoCall
  <2>3. session[s].base = 0 /\ session[s].late = FALSE
    BY <1>1, <2>1
  <2>4. ActivatedBy(s) = {}
    BY <1>3, <2>1 DEF ActivatedBy
  <2>5. Staged(s) /\ Reports(s)
    BY <2>2, <2>3 DEF Staged, Reports
  <2> QED
    BY <2>3, <2>4, <2>5 DEF Stays, Installs
<1> QED
  BY <1>4, <1>5 DEF InstallInv

(***************************************************************************)
(* The whole change: the theorems.                                         *)
(***************************************************************************)
LEMMA InstallInvariant == Spec => []InstallInv
<1>1. [](TypeOK /\ CallsInv) /\ Init /\ [][Next]_vars => []InstallInv
  BY InitInstalls, NextInstalls, PTL
<1> QED
  BY <1>1, TypeCorrect, CallsInvariant, PTL DEF Spec

\* What a managed call activates is its whole change, the new certificate or
\* key with what it retains and the binding of its virtual host: never a part
\* of it, whatever requests fail and whoever activates in between.
THEOREM WholeChanges == Spec => []AllOrNothing
<1>1. InstallInv => AllOrNothing
  BY DEF InstallInv, Installs, AllOrNothing
<1> QED
  BY <1>1, InstallInvariant, PTL

\* A managed call that returns no error has its certificate in a configuration
\* that was active since it loaded its own, and reports a change exactly if it
\* activated one.
THEOREM SuccessInstalled == Spec => []SuccessIsInstalled
<1>1. TypeOK /\ CallsInv /\ InstallInv => SuccessIsInstalled
  <2> SUFFICES ASSUME TypeOK, CallsInv, InstallInv, NEW s \in Managed, Succeeded(s),
                      call[s].job.operation # "get"
               PROVE  /\ call[s].changed <=> ActivatedBy(s) # {}
                      /\ \E k \in session[s].base .. Len(log) : InstalledIn(s, k)
    BY DEF SuccessIsInstalled
  <2>1. /\ s \in Transactions /\ call[s].pc = "done" /\ call[s].err = "none"
        /\ Reports(s) /\ Installs(s)
    BY DEF Succeeded, Returned, InstallInv, Managed
  <2>2. /\ session[s].base > 0
        /\ call[s].changed <=> ActivatedBy(s) # {}
        /\ ~call[s].changed => InstalledAs(Loaded(s), Loaded(s), call[s].job)
    BY <2>1 DEF Reports
  <2>3. session[s].base \in 1 .. Len(log) /\ session[s].base \in Nat /\ Len(log) \in Nat
    BY <2>1, <2>2, RecordTypes DEF Consistent
  <2>4. CASE ActivatedBy(s) # {}
    <3>1. PICK k \in ActivatedBy(s) : TRUE
      BY <2>4
    <3>2. k > session[s].base /\ InstalledIn(s, k) /\ k \in 1 .. Len(log)
      BY <2>1, <3>1 DEF Installs, ActivatedBy
    <3> QED
      BY <2>2, <2>3, <3>2
  <2>5. CASE ActivatedBy(s) = {}
    <3>1. InstalledAs(Loaded(s), Loaded(s), call[s].job)
      BY <2>2, <2>5
    <3>2. InstalledIn(s, session[s].base)
      BY <3>1 DEF InstalledIn, Installed, InstalledAs, Loaded
    <3> QED
      BY <2>2, <2>3, <3>2
  <2> QED
    BY <2>4, <2>5
<1> QED
  BY <1>1, TypeCorrect, CallsInvariant, InstallInvariant, PTL

(***************************************************************************)
(* One step: the invariant.                                                *)
(***************************************************************************)
\* The IDs a plan for cfg can be written to.
WritableIds(cfg, p) ==
    IF p.id # NoCertificate THEN {p.id} ELSE {i \in CertificateIds : i > 0 /\ ~Exists(cfg, i)}

\* The configuration with a plan carried out, as AtomicRotation has it.
RotationOf(cfg, p, id) ==
    [WriteIn(cfg, p, id) EXCEPT
        !.bound = [v \in VirtualHosts |-> IF v \in p.hosts THEN id ELSE cfg.bound[v]]]

RotationsOf(cfg, j) ==
    UNION {{RotationOf(cfg, p, id) : id \in WritableIds(cfg, p)} :
            p \in {q \in Plans(cfg, j) : q.write}}

\* Which plan has been carried out on the working copy, and which success needs none.
Rotated(s) ==
    LET base == Loaded(s)  work == session[s].work  job == call[s].job  plan == call[s].plan
    IN  /\ call[s].pc # "idle" => call[s].policy = job.policy
        /\ call[s].pc \in {"version", "create", "load"} => session[s].base = 0
        /\ call[s].pc = "bind" =>
              \E p \in Plans(base, job) :
                  /\ p.write /\ plan.hosts = p.hosts
                  /\ plan.id \in WritableIds(base, p) /\ work = WriteIn(base, p, plan.id)
        /\ call[s].pc \in {"decode", "validate", "activate"} \/ session[s].late =>
              work \in RotationsOf(base, job)
        /\ (/\ call[s].pc \in {"finish", "done"} /\ call[s].err = "none"
            /\ ~call[s].changed \/ job.operation = "get") =>
              session[s].base > 0 /\ Satisfied(base, job)

\* A plan that binds nothing is carried out when its resource is written.
LEMMA WriteRotation ==
    ASSUME NEW base \in Configurations, NEW job \in ValidJobs, NEW p \in Plans(base, job),
           p.write, NEW id \in CertificateIds, id \in WritableIds(base, p)
    PROVE  /\ p.hosts = {} => WriteIn(base, p, id) \in RotationsOf(base, job)
           /\ \A v \in VirtualHosts :
                 p.hosts = {v} => ConnectIn(WriteIn(base, p, id), id, v) \in RotationsOf(base, job)
<1> DEFINE work == WriteIn(base, p, id)
<1>1. work \in Configurations /\ work.bound = base.bound
  <2>1. IF p.id = NoCertificate THEN ~Exists(base, id) ELSE id = p.id
    BY DEF WritableIds
  <2> QED
    BY <2>1, WritePrepares
<1>2. RotationOf(base, p, id) \in RotationsOf(base, job)
  BY DEF RotationsOf
<1>3. RotationOf(base, p, id) =
        [work EXCEPT !.bound = [v \in VirtualHosts |-> IF v \in p.hosts THEN id ELSE base.bound[v]]]
  BY DEF RotationOf
<1> HIDE DEF work
<1>4. base.bound = [v \in VirtualHosts |-> base.bound[v]]
  BY DEF Configurations
<1>5. ASSUME p.hosts = {} PROVE work \in RotationsOf(base, job)
  <2>1. [v \in VirtualHosts |-> IF v \in p.hosts THEN id ELSE base.bound[v]] = work.bound
    BY <1>1, <1>4, <1>5
  <2>2. [work EXCEPT !.bound = work.bound] = work
    BY <1>1 DEF Configurations
  <2> QED
    BY <1>2, <1>3, <2>1, <2>2
<1>6. ASSUME NEW w \in VirtualHosts, p.hosts = {w}
      PROVE  ConnectIn(work, id, w) \in RotationsOf(base, job)
  <2>1. ConnectIn(work, id, w) = [work EXCEPT !.bound = [work.bound EXCEPT ![w] = id]]
    BY <1>1 DEF ConnectIn, Configurations
  <2>2. [work.bound EXCEPT ![w] = id] =
          [v \in VirtualHosts |-> IF v \in p.hosts THEN id ELSE base.bound[v]]
    BY <1>1, <1>6 DEF Configurations
  <2> QED
    BY <1>2, <1>3, <2>1, <2>2
<1> QED
  BY <1>5, <1>6 DEF work

LEMMA CallRotates ==
    ASSUME TypeOK, NEW s \in Managed, Orderly(s), Installing(s), Call(s)
    PROVE  Rotated(s)'
<1>1. /\ call[s].pc = "idle" /\ UNCHANGED <<log, session>>
      /\ call'[s].pc \in {"version", "lock", "done"} /\ call'[s].policy = call'[s].job.policy
      /\ call'[s].pc = "done" => call'[s].err = "arguments"
  BY DEF Managed, Call, TypeOK, CallRecords
<1>2. ~session[s].late /\ session[s].base = 0
  BY <1>1, NotOver DEF Orderly, Reads
<1> QED
  BY <1>1, <1>2 DEF Rotated

LEMMA OpeningRotates ==
    ASSUME TypeOK, NEW s \in Managed, Orderly(s), Installing(s), Rotated(s),
           \/ Acquire(s) \/ VerifyGatewayVersion(s) \/ CreateSession(s) \/ Abandon(s)
           \/ LoadActiveConfiguration(s)
    PROVE  Rotated(s)'
<1>1. /\ s \in Transactions /\ s \notin Owned
      /\ call[s].pc \in {"lock", "version", "create", "load", "abandon"}
  BY Zenon DEF Managed, Acquire, VerifyGatewayVersion, CreateSession, Abandon,
       LoadActiveConfiguration
<1>2. /\ SameCall(s)
      /\ \/ /\ call'[s].pc \in {"version", "create", "load"}
            /\ call[s].pc \in {"lock", "version", "create"}
         \/ call'[s].pc = "done" /\ call'[s].err # "none"
         \/ call'[s].pc \in {"resolve", "abandon"}
  <2>1. \/ call[s].pc = "lock" /\ Goto(s, "version")
        \/ call[s].pc = "version" /\ (Goto(s, "create") \/ Return(s, "version"))
        \/ call[s].pc = "create" /\ (Goto(s, "load") \/ Return(s, "create"))
        \/ call[s].pc = "abandon" /\ Return(s, call[s].err)
        \/ call[s].pc = "load" /\ Goto(s, "resolve")
        \/ call' = [call EXCEPT ![s].pc = "abandon", ![s].err = "load"]
    BY <1>1, Zenon DEF Acquire, VerifyGatewayVersion, CreateSession, Abandon,
         LoadActiveConfiguration
  <2>2. call[s].pc = "abandon" => call[s].err # "none"
    BY DEF Installing, Reports
  <2>3. call' = [call EXCEPT ![s].pc = "abandon", ![s].err = "load"] =>
           SameCall(s) /\ call'[s].pc = "abandon"
    BY <1>1 DEF TypeOK, CallRecords, SameCall
  <2> QED
    BY <2>1, <2>2, <2>3, ManagedRows DEF CallIs
<1>3. /\ ~session'[s].late
      /\ call[s].pc \in {"lock", "version", "create"} => session'[s].base = session[s].base
  <2>1. \/ KeepsCopy(s)
        \/ call[s].pc = "load" /\ LoadsSession(s, Len(log), Active)
    BY Zenon DEF Acquire, VerifyGatewayVersion, CreateSession, Abandon,
         LoadActiveConfiguration, KeepsCopy, KeepsSession, OpensSession, LoadsSession
  <2>2. ~session[s].late
    BY <1>1, NotOver
  <2>3. LoadsSession(s, Len(log), Active) => session'[s].late = session[s].late
    BY <1>1 DEF LoadsSession, TypeOK, SessionRecords
  <2> QED
    BY <1>1, <2>1, <2>2, <2>3, KeptCopy
<1>4. call[s].pc \in {"lock", "version", "create"} => session[s].base = 0
  BY DEF Rotated, Orderly, Reads
<1>5. call'[s].policy = call'[s].job.policy
  BY <1>1, <1>2 DEF Rotated, SameCall
<1> QED
  BY <1>2, <1>3, <1>4, <1>5 DEF Rotated

LEMMA ResolveRotates ==
    ASSUME TypeOK, NEW s \in Managed, Orderly(s), Installing(s), Rotated(s), Resolve(s)
    PROVE  Rotated(s)'
<1> DEFINE job == call[s].job
           work == session[s].work
<1>1. call[s].pc = "resolve" /\ UNCHANGED <<log, session>>
  BY DEF Resolve
<1>2. /\ s \in Transactions /\ s \notin Owned
      /\ session[s].base > 0 /\ ~session[s].late
      /\ call[s].err = "none" /\ ~call[s].changed
  BY <1>1, StagingHas DEF LoadedSteps, StageSteps
<1>3. work = Loaded(s) /\ Loaded(s)' = Loaded(s)
  BY <1>1 DEF Installing, Staged, Loaded
<1>4. /\ SameCall(s)
      /\ \/ call'[s].pc = "write"
         \/ call'[s].pc = "finish" /\ (call'[s].err # "none" \/ Satisfied(work, job))
  <2>1. \/ Goto(s, "finish") /\ job.operation = "get" /\ Readable(work, job)
        \/ StageFails(s, "stage")
        \/ /\ job.operation # "get" /\ StageSucceeds(s, FALSE)
           /\ \E p \in Plans(work, job) : ~p.write
        \/ \E p : call' = [call EXCEPT ![s].plan = p, ![s].pc = "write"]
    BY <1>2, Zenon DEF Resolve
  <2>2. ASSUME NEW p, call' = [call EXCEPT ![s].plan = p, ![s].pc = "write"]
        PROVE  SameCall(s) /\ call'[s].pc = "write"
    BY <1>2, <2>2 DEF TypeOK, CallRecords, SameCall
  <2>3. StageSucceeds(s, FALSE) => SameCall(s) /\ call'[s].pc = "finish"
    BY <1>2, StagedRows
  <2>4. /\ Goto(s, "finish") => SameCall(s) /\ call'[s].pc = "finish"
        /\ StageFails(s, "stage") =>
              SameCall(s) /\ call'[s].pc = "finish" /\ call'[s].err # "none"
    <3>1. Goto(s, "finish") => CallIs(s, "finish", call[s].err, call[s].changed)
      BY ManagedRows
    <3>2. StageFails(s, "stage") => CallIs(s, "finish", "stage", call[s].changed)
      BY ManagedRows
    <3> QED
      BY <3>1, <3>2 DEF CallIs
  <2>5. /\ job.operation = "get" /\ Readable(work, job) => Satisfied(work, job)
        /\ (job.operation # "get" /\ \E p \in Plans(work, job) : ~p.write) =>
              Satisfied(work, job)
    BY DEF Satisfied
  <2>6. CASE Goto(s, "finish") /\ job.operation = "get" /\ Readable(work, job)
    BY <2>4, <2>5, <2>6
  <2>7. CASE StageFails(s, "stage")
    BY <2>4, <2>7
  <2>8. CASE StageSucceeds(s, FALSE) /\ Satisfied(work, job)
    BY <2>3, <2>8
  <2> HIDE DEF job, work
  <2> QED
    BY <2>1, <2>2, <2>5, <2>6, <2>7, <2>8
<1> QED
  BY <1>1, <1>2, <1>3, <1>4 DEF Rotated, SameCall

LEMMA WriteRotates ==
    ASSUME TypeOK, Fresh, NEW s \in Managed, Orderly(s), Installing(s), Rotated(s), Write(s)
    PROVE  Rotated(s)'
<1> DEFINE job == call[s].job
           plan == call[s].plan
           base == Loaded(s)
           id == WrittenId(s)
           work == WriteIn(base, plan, id)
<1>1. call[s].pc = "write" /\ UNCHANGED log /\ id \in CertificateIds
  BY DEF Write
<1>2. /\ s \in Transactions /\ s \notin Owned
      /\ session[s].base > 0 /\ ~session[s].late
      /\ call[s].err = "none" /\ ~call[s].changed /\ job \in ValidJobs
      /\ base \in Configurations
  BY <1>1, StagingHas DEF LoadedSteps, StageSteps
<1>3. session[s].work = base /\ plan \in Plans(base, job) /\ plan.write
  BY <1>1 DEF Installing, Staged
<1>4. Written(s, id) => /\ session'[s].base = session[s].base /\ ~session'[s].late
                        /\ session'[s].work = work
  BY <1>2, <1>3, WrittenCopy
<1>5. call[s].policy = job.policy
  BY <1>1 DEF Rotated
<1>6. ASSUME NEW err, err # "none", StageFails(s, err), UNCHANGED session \/ Written(s, id)
      PROVE  Rotated(s)'
  <2>1. call'[s].pc = "finish" /\ call'[s].err # "none" /\ SameCall(s)
    BY <1>6, ManagedRows DEF CallIs
  <2>2. ~session'[s].late
    BY <1>2, <1>4, <1>6
  <2> QED
    BY <1>5, <2>1, <2>2 DEF Rotated, SameCall
<1>7. ASSUME Written(s, id), id > 0,
             call' = [call EXCEPT ![s].plan.id = id,
                                  ![s].pc = IF plan.hosts = {} THEN "decode" ELSE "bind"]
      PROVE  Rotated(s)'
  <2>1. session'[s].base = session[s].base /\ ~session'[s].late /\ session'[s].work = work
    BY <1>4, <1>7
  <2>2. /\ call'[s].pc = IF plan.hosts = {} THEN "decode" ELSE "bind"
        /\ call'[s].plan = [plan EXCEPT !.id = id] /\ SameCall(s)
    BY <1>2, <1>7 DEF TypeOK, CallRecords, SameCall
  <2>3. call'[s].plan.id = id /\ call'[s].plan.hosts = plan.hosts
    <3>1. plan \in PlanRecords
      BY <1>1, <1>2, RecordTypes DEF Consistent
    <3> QED
      BY <2>2, <3>1 DEF PlanRecords
  <2>4. Loaded(s)' = base
    BY <1>1, <2>1 DEF Loaded
  <2>5. id \in WritableIds(base, plan)
    <3>1. FreshIn(base, nextId) /\ nextId \in Nat
      BY <1>2, <1>3 DEF Fresh, TypeOK
    <3> QED
      BY <1>1, <1>7, <3>1 DEF FreshIn, WrittenId, WritableIds
  <2>6. plan.hosts = {} => work \in RotationsOf(base, job)
    BY <1>1, <1>2, <1>3, <2>5, WriteRotation
  <2> HIDE DEF work, base
  <2>7. CASE plan.hosts = {}
    BY <1>5, <2>1, <2>2, <2>4, <2>6, <2>7 DEF Rotated, SameCall
  <2>8. CASE plan.hosts # {}
    <3>1. \E p \in Plans(base, job) :
              /\ p.write /\ call'[s].plan.hosts = p.hosts
              /\ call'[s].plan.id \in WritableIds(base, p)
              /\ session'[s].work = WriteIn(base, p, call'[s].plan.id)
      BY <1>3, <2>1, <2>3, <2>5 DEF work
    <3> QED
      BY <1>5, <2>1, <2>2, <2>4, <2>8, <3>1 DEF Rotated, SameCall
  <2> QED
    BY <2>7, <2>8
<1>8. \/ /\ Written(s, id) /\ id > 0
         /\ call' = [call EXCEPT ![s].plan.id = id,
                                 ![s].pc = IF plan.hosts = {} THEN "decode" ELSE "bind"]
      \/ StageFails(s, "default-entity") /\ UNCHANGED session
      \/ StageFails(s, "stage") /\ (UNCHANGED session \/ Written(s, id))
  BY Zenon DEF Write
<1> QED
  BY <1>6, <1>7, <1>8

LEMMA BindRotates ==
    ASSUME TypeOK, NEW s \in Managed, Orderly(s), Installing(s), Rotated(s), Bind(s)
    PROVE  Rotated(s)'
<1> DEFINE job == call[s].job
           base == Loaded(s)
           id == call[s].plan.id
<1>1. call[s].pc = "bind" /\ UNCHANGED log
  BY DEF Bind
<1>2. /\ s \in Transactions /\ s \notin Owned
      /\ session[s].base > 0 /\ ~session[s].late
      /\ job \in ValidJobs /\ base \in Configurations
  BY <1>1, StagingHas DEF LoadedSteps, StageSteps
<1>3. PICK p \in Plans(base, job) :
         /\ p.write /\ call[s].plan.hosts = p.hosts
         /\ id \in WritableIds(base, p) /\ session[s].work = WriteIn(base, p, id)
  BY <1>1 DEF Rotated
<1>4. id \in CertificateIds /\ \E v \in VirtualHosts : p.hosts = {v}
  BY <1>1, <1>3 DEF Installing, Staged, Prepared
<1>5. call[s].policy = job.policy
  BY <1>1 DEF Rotated
<1>6. ASSUME NEW v \in call[s].plan.hosts, Connected(s, v)
      PROVE  /\ session'[s].base = session[s].base /\ ~session'[s].late
             /\ session'[s].work \in RotationsOf(base, job) /\ Loaded(s)' = base
  <2>1. /\ session'[s].base = session[s].base /\ ~session'[s].late
        /\ session'[s].work = ConnectIn(WriteIn(base, p, id), id, v)
    BY <1>2, <1>3, <1>6, ConnectedCopy
  <2>2. ConnectIn(WriteIn(base, p, id), id, v) \in RotationsOf(base, job)
    BY <1>2, <1>3, <1>4, <1>6, WriteRotation
  <2> QED
    BY <1>1, <2>1, <2>2 DEF Loaded
<1>7. PICK v \in call[s].plan.hosts :
         \/ Connected(s, v) /\ Goto(s, "decode")
         \/ StageFails(s, "stage") /\ (UNCHANGED session \/ Connected(s, v))
  BY <1>3, Zenon DEF Bind
<1> HIDE DEF base
<1>8. CASE Connected(s, v) /\ Goto(s, "decode")
  <2>1. call'[s].pc = "decode" /\ SameCall(s)
    BY <1>8, ManagedRows DEF CallIs
  <2> QED
    BY <1>5, <1>6, <1>8, <2>1 DEF Rotated, SameCall
<1>9. CASE StageFails(s, "stage") /\ (UNCHANGED session \/ Connected(s, v))
  <2>1. call'[s].pc = "finish" /\ call'[s].err # "none" /\ SameCall(s)
    BY <1>9, ManagedRows DEF CallIs
  <2>2. ~session'[s].late
    BY <1>2, <1>6, <1>9
  <2> QED
    BY <1>5, <2>1, <2>2 DEF Rotated, SameCall
<1> QED
  BY <1>7, <1>8, <1>9

\* The revision a call was loaded from stays what it is.
LEMMA StaysLoaded ==
    ASSUME TypeOK, Grows, NEW s \in Managed, session'[s].base = session[s].base
    PROVE  session[s].base > 0 => Loaded(s)' = Loaded(s)
  BY LoadedKept DEF Managed

LEMMA CommitRotates ==
    ASSUME TypeOK, Grows, NEW s \in Managed, Orderly(s), Installing(s), Rotated(s),
           Decode(s) \/ ValidateConfiguration(s) \/ ActivateConfigurationWithOptions(s)
    PROVE  Rotated(s)'
<1>1. call[s].pc \in {"decode", "validate", "activate"}
  BY DEF Decode, ValidateConfiguration, ActivateConfigurationWithOptions
<1>2. /\ s \in Transactions /\ s \notin Owned
      /\ session[s].base > 0 /\ ~session[s].late
      /\ call[s].pc = "activate" => call[s].changed /\ call[s].job.operation # "get"
  BY <1>1, StagingHas DEF LoadedSteps, StageSteps, Installing, Reports, Orderly, Reads
<1>3. session[s].work \in RotationsOf(Loaded(s), call[s].job) /\ call[s].policy = call[s].job.policy
  BY <1>1 DEF Rotated
<1>4. KeepsCopy(s) \/ LeavesLate(s, TRUE)
  BY Zenon DEF Decode, ValidateConfiguration, ActivateConfigurationWithOptions, KeepsCopy,
       KeepsSession, ValidatesSession, LeavesLate
<1>5. /\ session'[s].base = session[s].base /\ session'[s].work = session[s].work
      /\ Loaded(s)' = Loaded(s)
  BY <1>2, <1>4, KeptCopy, StaysLoaded
<1>6. /\ SameCall(s)
      /\ \/ call'[s].pc \in {"validate", "activate"}
         \/ call'[s].pc = "finish" /\ call'[s].err # "none"
         \/ call'[s].pc = "finish" /\ call'[s].changed /\ call[s].job.operation # "get"
  <2>1. \/ StageSucceeds(s, TRUE) \/ StageFails(s, "stage") \/ Goto(s, "activate")
        \/ Finishing(s, "messages") \/ Finishing(s, "validate") \/ Finishing(s, "policy")
        \/ Finishing(s, "conflict") \/ Finishing(s, "activate")
        \/ call[s].pc = "activate" /\ Goto(s, "finish")
    BY Zenon DEF Decode, ValidateConfiguration, MessagesReported,
         ActivateConfigurationWithOptions
  <2>2. StageSucceeds(s, TRUE) => SameCall(s) /\ call'[s].pc = "validate"
    BY StagedRows
  <2>3. /\ Goto(s, "activate") => SameCall(s) /\ call'[s].pc = "activate"
        /\ Goto(s, "finish") =>
              SameCall(s) /\ call'[s].pc = "finish" /\ call'[s].changed = call[s].changed
    BY ManagedRows DEF CallIs
  <2>4. ASSUME NEW err, err # "none", StageFails(s, err) \/ Finishing(s, err)
        PROVE  SameCall(s) /\ call'[s].pc = "finish" /\ call'[s].err # "none"
    BY <2>4, ManagedRows DEF CallIs
  <2> QED
    BY <1>2, <2>1, <2>2, <2>3, <2>4
<1> QED
  BY <1>3, <1>5, <1>6 DEF Rotated, SameCall

LEMMA EndRotates ==
    ASSUME TypeOK, Grows, NEW s \in Managed, Orderly(s), Installing(s), Rotated(s),
           Finish(s) \/ Cancel(s) \/ GatewayActivates(s)
    PROVE  Rotated(s)'
<1>1. KeepsCopy(s) /\ s \in Transactions
  BY Zenon DEF Finish, Cancel, GatewayActivates, KeepsCopy, KeepsSession, LeavesLate, Managed
<1>2. /\ session'[s].base = session[s].base /\ session'[s].work = session[s].work
      /\ session'[s].late => session[s].late
      /\ session[s].base > 0 => Loaded(s)' = Loaded(s)
  BY <1>1, KeptCopy, StaysLoaded
<1>3. /\ SameCall(s) /\ call'[s].changed = call[s].changed /\ call'[s].plan = call[s].plan
      /\ \/ call'[s].pc = call[s].pc
         \/ call[s].pc = "finish" /\ call'[s].pc = "done"
      /\ call'[s].err \in {call[s].err, "terminate"}
  <2>1. CASE Cancel(s)
    BY <1>1, <2>1 DEF Cancel, TypeOK, CallRecords, SameCall
  <2>2. CASE GatewayActivates(s)
    BY <2>2 DEF GatewayActivates, SameCall
  <2>3. CASE Finish(s)
    BY <2>3, FinishLeads
  <2> QED
    BY <2>1, <2>2, <2>3
<1>4. call[s].pc \in LoadedSteps \/ session[s].late => session[s].base > 0
  BY <1>1, RecordTypes DEF Consistent
<1>5. call'[s].pc # "idle" => call[s].pc # "idle"
  BY <1>3
<1> QED
  BY <1>2, <1>3, <1>4, <1>5 DEF Rotated, SameCall, LoadedSteps, StageSteps

LEMMA OthersRotate ==
    ASSUME TypeOK, Grows, NEW t \in Managed, Rotated(t), call'[t] = call[t],
           session'[t] = session[t]
    PROVE  Rotated(t)'
<1>1. session[t].base > 0 => Loaded(t)' = Loaded(t)
  BY StaysLoaded
<1>2. call[t].pc \in LoadedSteps \/ session[t].late => session[t].base > 0
  BY RecordTypes DEF Consistent, Managed
<1> QED
  BY <1>1, <1>2 DEF Rotated, LoadedSteps, StageSteps

RotateInv == \A s \in Managed : Rotated(s)

LEMMA ActsRotate ==
    ASSUME TypeOK, CallsInv, InstallInv, RotateInv, Grows, NEW s \in Transactions, Acts(s)
    PROVE  RotateInv'
<1>1. /\ \A t \in Transactions : Orderly(t)
      /\ \A t \in Managed : Installing(t) /\ Rotated(t)
      /\ Fresh /\ Alone(s)
  BY StepGoesOn DEF CallsInv, InstallInv, Installing, GoesOn, RotateInv
<1>2. ASSUME NEW t \in Managed PROVE Rotated(t)'
  <2>1. t \in Transactions /\ Orderly(t) /\ Installing(t) /\ Rotated(t)
    BY <1>1 DEF Managed
  <2>2. CASE t # s
    BY <1>1, <2>1, <2>2, OthersRotate DEF Alone
  <2>3. CASE t = s
    <3>1. s \in Managed /\ Orderly(s) /\ Installing(s) /\ Rotated(s)
      BY <2>1, <2>3
    <3>2. \/ Call(s) \/ Resolve(s) \/ Write(s) \/ Cancel(s) \/ GatewayActivates(s)
          \/ Acquire(s) \/ VerifyGatewayVersion(s) \/ CreateSession(s)
          \/ LoadActiveConfiguration(s) \/ Abandon(s) \/ Bind(s) \/ Decode(s)
          \/ ValidateConfiguration(s) \/ ActivateConfigurationWithOptions(s) \/ Finish(s)
      BY <3>1, ManagedSteps
    <3>3. Rotated(s)'
      BY <1>1, <3>1, <3>2, CallRotates, OpeningRotates, ResolveRotates, WriteRotates,
         BindRotates, CommitRotates, EndRotates
    <3> QED
      BY <2>3, <3>3
  <2> QED
    BY <2>2, <2>3
<1> QED
  BY <1>2 DEF RotateInv

LEMMA NextRotates ==
    TypeOK /\ CallsInv /\ InstallInv /\ RotateInv /\ [Next]_vars => RotateInv'
<1> SUFFICES ASSUME TypeOK, CallsInv, InstallInv, RotateInv, [Next]_vars PROVE RotateInv'
  OBVIOUS
<1>1. Grows
  BY StepGrows
<1>2. CASE \E s \in Transactions : Acts(s)
  BY <1>1, <1>2, ActsRotate
<1>3. CASE UNCHANGED <<call, session>>
  BY <1>1, <1>3, OthersRotate DEF RotateInv
<1>4. AdministratorActivates \/ UNCHANGED vars => UNCHANGED <<call, session>>
  BY DEF AdministratorActivates, vars
<1> QED
  BY <1>2, <1>3, <1>4, Zenon DEF Next, Acts, Terminating

LEMMA InitRotates == Init => RotateInv
<1> SUFFICES ASSUME Init, NEW s \in Managed PROVE Rotated(s)
  BY DEF RotateInv
<1>1. s \in Transactions
  BY DEF Managed
<1>2. call[s].pc = "idle"
  BY <1>1 DEF Init, NoCall
<1>3. \E c : session = [t \in Transactions |->
                [state |-> "none", base |-> 0, work |-> c, validated |-> FALSE, late |-> FALSE]]
  BY Zenon DEF Init
<1>4. session[s].base = 0 /\ session[s].late = FALSE
  BY <1>1, <1>3
<1> QED
  BY <1>2, <1>4 DEF Rotated

LEMMA RotateInvariant == Spec => []RotateInv
<1>1. [](TypeOK /\ CallsInv /\ InstallInv) /\ Init /\ [][Next]_vars => []RotateInv
  BY InitRotates, NextRotates, PTL
<1> QED
  BY <1>1, TypeCorrect, CallsInvariant, InstallInvariant, PTL DEF Spec

(***************************************************************************)
(* One step: what the terms of AtomicRotation are here.                    *)
(***************************************************************************)
\* What a call has to do is the same in both modules.
LEMMA SameRotations ==
    /\ \A cfg, j : Rotation!Rotations(cfg, j) = RotationsOf(cfg, j)
    /\ \A cfg, j : Rotation!Satisfied(cfg, j) <=> Satisfied(cfg, j)
    /\ \A cfg, attributes : Rotation!Edits(cfg, attributes) = Edits(cfg, attributes)
    /\ Rotation!Configurations = Configurations
<1>1. \A t, c, k, h, r : Rotation!NewCertificateBundle(t, c, k, h, r) = NewCertificateBundle(t, c, k, h, r)
  BY DEF NewCertificateBundle, Rotation!NewCertificateBundle, CertificateTypes,
     Rotation!CertificateTypes, BundleChecksum, Rotation!BundleChecksum,
     TypeOrDefault, Rotation!TypeOrDefault,
     CertificateMatchesKey, Rotation!CertificateMatchesKey, ValidCertificateChain,
     Rotation!ValidCertificateChain, RootPart, Rotation!RootPart
<1>2. \A k, p : Rotation!ParseEncryptedKey(k, p) = ParseEncryptedKey(k, p)
  BY DEF ParseEncryptedKey, Rotation!ParseEncryptedKey
<1>3. \A a, p : Rotation!ManagedCertificateFromResource(a, p) = ManagedCertificateFromResource(a, p)
  BY <1>1, <1>2 DEF ManagedCertificateFromResource,
     Rotation!ManagedCertificateFromResource
<1>4. /\ \A cfg, i : Rotation!Exists(cfg, i) <=> Exists(cfg, i)
      /\ \A a : Rotation!Redacted(a) = Redacted(a)
      /\ \A b : Rotation!AttributesFromBundle(b) = AttributesFromBundle(b)
      /\ \A a, b : Rotation!Patched(a, b) = Patched(a, b)
      /\ \A k : Rotation!EncryptedPrivateKeyPEM(k) <=> EncryptedPrivateKeyPEM(k)
      /\ Rotation!NoCertificate = NoCertificate
  BY DEF Exists, Rotation!Exists, Redacted, Rotation!Redacted, AttributesFromBundle,
     Rotation!AttributesFromBundle, Patched, Rotation!Patched,
     EncryptedPrivateKeyPEM, Rotation!EncryptedPrivateKeyPEM, NoCertificate,
     Rotation!NoCertificate
<1>5. /\ \A cfg, p, i : Rotation!WriteIn(cfg, p, i) = WriteIn(cfg, p, i)
      /\ \A cfg, i, v : Rotation!ConnectIn(cfg, i, v) = ConnectIn(cfg, i, v)
  BY <1>4 DEF WriteIn, Rotation!WriteIn, CreateIn, Rotation!CreateIn, PatchIn,
     Rotation!PatchIn, ConnectIn, Rotation!ConnectIn
<1>6. /\ \A t : Rotation!VirtualHostsOf(t) = VirtualHostsOf(t)
      /\ \A cfg, t : Rotation!SelectedIds(cfg, t) = SelectedIds(cfg, t)
      /\ \A cfg, t : Rotation!Resolvable(cfg, t) <=> Resolvable(cfg, t)
  <2>1. \A t : Rotation!VirtualHostsOf(t) = VirtualHostsOf(t)
    BY DEF VirtualHostsOf, Rotation!VirtualHostsOf
  <2>2. \A cfg, t : Rotation!SelectedIds(cfg, t) = SelectedIds(cfg, t)
    BY <2>1 DEF SelectedIds, Rotation!SelectedIds
  <2>3. \A S : Rotation!Cardinality(S) = Cardinality(S)
    BY DEF Cardinality, Rotation!Cardinality
  <2>4. \A cfg, t : Rotation!Resolvable(cfg, t) <=> Resolvable(cfg, t)
    BY <1>4, <2>1, <2>2, <2>3 DEF Resolvable, Rotation!Resolvable
  <2> QED
    BY <2>1, <2>2, <2>4
<1>7. \A cfg, i, p : Rotation!ReadCertificate(cfg, i, p) = ReadCertificate(cfg, i, p)
  BY <1>3, <1>4 DEF ReadCertificate, Rotation!ReadCertificate
<1>8. \A c, k, m : Rotation!Completed(c, k, m) = Completed(c, k, m)
  BY <1>1 DEF Completed, Rotation!Completed
<1>9. \A cfg, j : Rotation!DesiredBundles(cfg, j) = DesiredBundles(cfg, j)
  BY <1>6, <1>7, <1>8 DEF DesiredBundles, Rotation!DesiredBundles
<1>10. /\ \A cfg, i, b : Rotation!UpToDate(cfg, i, b) <=> UpToDate(cfg, i, b)
       /\ \A cfg, i, b : Rotation!Replaceable(cfg, i, b) <=> Replaceable(cfg, i, b)
       /\ \A cfg, j : Rotation!Readable(cfg, j) <=> Readable(cfg, j)
  BY <1>4, <1>6, <1>7 DEF UpToDate, Rotation!UpToDate, Replaceable,
     Rotation!Replaceable, Readable, Rotation!Readable
<1>11. /\ \A cfg, j, i, b : Rotation!Plan(cfg, j, i, b) = Plan(cfg, j, i, b)
       /\ \A b : Rotation!Creation(b) = Creation(b)
  <2>1. \A cfg, i, b : (~Rotation!UpToDate(cfg, i, b)) = (~UpToDate(cfg, i, b))
    BY <1>10
  <2>2. \A j, i : Rotation!NeedsNewCertificate(j, i) <=> NeedsNewCertificate(j, i)
    BY <1>4 DEF NeedsNewCertificate, Rotation!NeedsNewCertificate
  <2>3. \A cfg, j, i, b : Rotation!Plan(cfg, j, i, b) = Plan(cfg, j, i, b)
    BY <1>4, <1>6, <2>1, <2>2, Zenon DEF Plan, Rotation!Plan
  <2>4. \A b : Rotation!Creation(b) = Creation(b)
    BY <1>4 DEF Creation, Rotation!Creation
  <2> QED
    BY <2>3, <2>4
<1>12. \A cfg, j : Rotation!Plans(cfg, j) = Plans(cfg, j)
  <2>1. SUFFICES ASSUME NEW cfg, NEW j
                 PROVE  Rotation!Plans(cfg, j) = Plans(cfg, j)
    OBVIOUS
  <2> DEFINE P(i) == {Plan(cfg, j, i, b) : b \in {d \in DesiredBundles(cfg, j) : Replaceable(cfg, i, d)}}
             Q(i) == {Rotation!Plan(cfg, j, i, b) :
                        b \in {d \in Rotation!DesiredBundles(cfg, j) :
                                 Rotation!Replaceable(cfg, i, d)}}
  <2>2. ASSUME NEW i
        PROVE  P(i) = Q(i)
    BY <1>9, <1>10, <1>11
  <2>3. UNION {P(i) : i \in SelectedIds(cfg, j.target)}
          = UNION {Q(i) : i \in Rotation!SelectedIds(cfg, j.target)}
    <3> HIDE DEF P, Q
    <3> QED
      BY <1>6, <2>2
  <2> QED
    BY <1>6, <1>11, <2>3 DEF Plans, Rotation!Plans
<1>13. \A cfg, j : Rotation!Satisfied(cfg, j) <=> Satisfied(cfg, j)
  BY <1>10, <1>12 DEF Satisfied, Rotation!Satisfied
<1>14. \A cfg, p, i : Rotation!Rotation(cfg, p, i) = RotationOf(cfg, p, i)
  BY <1>5 DEF RotationOf, Rotation!Rotation
<1>15. \A cfg, j : Rotation!Rotations(cfg, j) = RotationsOf(cfg, j)
  <2>1. SUFFICES ASSUME NEW cfg, NEW j
                 PROVE  Rotation!Rotations(cfg, j) = RotationsOf(cfg, j)
    OBVIOUS
  <2> DEFINE W == {q \in Plans(cfg, j) : q.write}
             Here(p) == {RotationOf(cfg, p, id) : id \in WritableIds(cfg, p)}
             There(p) == {Rotation!Rotation(cfg, p, id) :
                            id \in IF p.id # Rotation!NoCertificate THEN {p.id}
                                  ELSE {i \in CertificateIds : i > 0 /\ ~Rotation!Exists(cfg, i)}}
  <2>2. ASSUME NEW p PROVE Here(p) = There(p)
    BY <1>4, <1>14 DEF WritableIds
  <2>3. UNION {Here(p) : p \in W} = UNION {There(p) : p \in W}
    <3> HIDE DEF Here, There, W
    <3> QED
      BY <2>2
  <2> QED
    BY <1>12, <2>3 DEF RotationsOf, Rotation!Rotations
<1>16. \A cfg, attributes : Rotation!Edits(cfg, attributes) = Edits(cfg, attributes)
  BY <1>4, <1>5 DEF Edits, Rotation!Edits, PatchIn, Rotation!PatchIn
<1>17. Rotation!Configurations = Configurations
  BY <1>4 DEF Configurations, Rotation!Configurations, Attributes, Rotation!Attributes, KeyPEMs,
     Rotation!KeyPEMs, CertificateTypes, Rotation!CertificateTypes
<1> QED
  BY <1>13, <1>15, <1>16, <1>17

\* The variables of AtomicRotation.
History == [k \in DOMAIN log |-> log[k].configuration]
JobsDone == [s \in Transactions |-> call[s].job]
Outcomes == [s \in Transactions |-> Outcome(s)]
Appliers == {s \in Transactions : ActivatedBy(s) # {}}
Bases == [s \in Transactions |-> session[s].base]

\* They are those of the last revision.
HistoryIsLog ==
    /\ History \in Seq(Configurations) /\ Len(History) = Len(log) /\ Len(log) \in Nat \ {0}
    /\ \A k \in 1 .. Len(log) : History[k] = log[k].configuration

LEMMA HistoryType == TypeOK => HistoryIsLog
<1> SUFFICES ASSUME TypeOK PROVE HistoryIsLog
  OBVIOUS
<1>1. log \in Seq(Revisions) /\ Len(log) \in Nat \ {0} /\ DOMAIN log = 1 .. Len(log)
  BY DEF TypeOK
<1>2. \A k \in 1 .. Len(log) : log[k].configuration \in Configurations
  BY RevisionType
<1>3. History = [k \in 1 .. Len(log) |-> log[k].configuration]
  BY <1>1 DEF History
<1>4. History \in Seq(Configurations) /\ Len(History) = Len(log)
  <2> DEFINE e(k) == log[k].configuration
  <2>1. \A k \in 1 .. Len(log) : e(k) \in Configurations
    BY <1>2
  <2> HIDE DEF e
  <2>2. [k \in 1 .. Len(log) |-> e(k)] \in Seq(Configurations)
    BY <1>1, <2>1, IsASeq
  <2>3. [k \in 1 .. Len(log) |-> e(k)] = History
    BY <1>3 DEF e
  <2> QED
    BY <1>1, <1>3, <2>2, <2>3
<1> QED
  BY <1>1, <1>3, <1>4 DEF HistoryIsLog

LEMMA HistoryAppends ==
    ASSUME TypeOK, TypeOK', NEW cfg, NEW by, Adds(cfg, by)
    PROVE  History' = Append(History, cfg) /\ cfg \in Configurations
<1>1. /\ History \in Seq(Configurations) /\ Len(History) = Len(log) /\ Len(log) \in Nat
      /\ \A k \in 1 .. Len(log) : History[k] = log[k].configuration
  BY HistoryType DEF HistoryIsLog
<1>2. /\ History' \in Seq(Configurations) /\ Len(History') = Len(log')
      /\ \A k \in 1 .. Len(log') : History'[k] = log'[k].configuration
  <2>1. HistoryIsLog'
    BY HistoryType, PTL
  <2> QED
    BY <2>1 DEF HistoryIsLog
<1>3. Len(log') = Len(log) + 1 /\ History'[Len(log) + 1] = cfg
  BY <1>1, <1>2 DEF Adds
<1>4. cfg \in Configurations
  BY <1>1, <1>2, <1>3
<1>5. /\ Append(History, cfg) \in Seq(Configurations)
      /\ Len(Append(History, cfg)) = Len(log) + 1
      /\ \A k \in 1 .. Len(log) : Append(History, cfg)[k] = History[k]
      /\ Append(History, cfg)[Len(log) + 1] = cfg
  BY <1>1, <1>4, AppendProperties
<1>6. \A k \in 1 .. Len(log) : History'[k] = History[k]
  BY <1>1, <1>2, <1>3 DEF Adds
<1>7. \A k \in 1 .. Len(log) + 1 : Append(History, cfg)[k] = History'[k]
  BY <1>1, <1>3, <1>5, <1>6
<1> QED
  BY <1>1, <1>2, <1>3, <1>4, <1>5, <1>7, SeqEqual

\* A step of s changes the variables of AtomicRotation at s.
LEMMA RotationFrame ==
    ASSUME NEW s \in Transactions, Alone(s)
    PROVE  /\ JobsDone' = [JobsDone EXCEPT ![s] = call'[s].job]
           /\ Outcomes' = [Outcomes EXCEPT ![s] = Outcome(s)']
           /\ Bases' = [Bases EXCEPT ![s] = session'[s].base]
           /\ ActivatedBy(s)' = ActivatedBy(s) => Appliers' = Appliers
           /\ ActivatedBy(s)' # {} => Appliers' = Appliers \cup {s}
<1>1. \A t \in Transactions \ {s} : Outcome(t)' = Outcome(t)
  BY DEF Alone, Outcome, Succeeded, Returned
<1> QED
  BY <1>1 DEF Alone, JobsDone, Outcomes, Appliers, Bases

Simulates == Rotation!Next \/ UNCHANGED Rotation!vars

LEMMA Stutters ==
    ASSUME NEW s \in Transactions, Alone(s), UNCHANGED log, call'[s].job = call[s].job,
           session'[s].base = session[s].base, Outcome(s)' = Outcome(s)
    PROVE  Simulates
<1>1. ActivatedBy(s)' = ActivatedBy(s) /\ UNCHANGED History
  BY DEF ActivatedBy, History
<1>2. JobsDone[s] = call[s].job /\ Outcomes[s] = Outcome(s) /\ Bases[s] = session[s].base
  BY DEF JobsDone, Outcomes, Bases
<1>3. UNCHANGED <<JobsDone, Outcomes, Appliers, Bases>>
  <2>1. [JobsDone EXCEPT ![s] = JobsDone[s]] = JobsDone
    BY DEF JobsDone
  <2>2. [Outcomes EXCEPT ![s] = Outcomes[s]] = Outcomes
    BY DEF Outcomes
  <2>3. [Bases EXCEPT ![s] = Bases[s]] = Bases
    BY DEF Bases
  <2> QED
    BY <1>1, <1>2, <2>1, <2>2, <2>3, RotationFrame
<1> QED
  BY <1>1, <1>3 DEF Simulates, Rotation!vars, History, JobsDone, Outcomes, Appliers, Bases

(***************************************************************************)
(* One step: the steps of AtomicRotation.                                  *)
(***************************************************************************)
\* What s was at, in AtomicRotation.
LEMMA RotationAt ==
    ASSUME NEW s \in Transactions
    PROVE  /\ JobsDone[s] = call[s].job /\ Outcomes[s] = Outcome(s) /\ Bases[s] = session[s].base
           /\ s \in Appliers <=> ActivatedBy(s) # {}
  BY DEF JobsDone, Outcomes, Bases, Appliers

LEMMA CallIsCall ==
    ASSUME TypeOK, NEW s \in Managed, Orderly(s), Alone(s), Call(s)
    PROVE  Simulates
<1>1. s \in Transactions /\ call[s].pc = "idle" /\ UNCHANGED <<log, session>>
  BY DEF Managed, Call
<1>2. PICK j \in JobsOf[s] :
         /\ call'[s].job = j
         /\ \/ call'[s].pc \in {"version", "lock"}
            \/ call'[s].pc = "done" /\ call'[s].err = "arguments"
  BY <1>1 DEF Call, TypeOK, CallRecords
<1>3. Outcome(s) = "idle" /\ Outcome(s)' \in {"pending", "error"}
  BY <1>1, <1>2 DEF Outcome, Succeeded, Returned
<1>4. ActivatedBy(s)' = ActivatedBy(s) /\ UNCHANGED <<History, Bases>>
  BY <1>1 DEF ActivatedBy, History, Bases
<1>5. /\ Outcomes[s] = "idle" /\ UNCHANGED <<History, Appliers, Bases>>
      /\ JobsDone' = [JobsDone EXCEPT ![s] = j]
      /\ Outcomes' = [Outcomes EXCEPT ![s] = Outcome(s)']
  BY <1>1, <1>2, <1>3, <1>4, RotationFrame, RotationAt
<1>6. Rotation!Call(s)
  BY <1>3, <1>5 DEF Rotation!Call, History, JobsDone, Outcomes, Appliers, Bases
<1> QED
  BY <1>1, <1>6 DEF Simulates, Rotation!Next

LEMMA LoadIsLook ==
    ASSUME TypeOK, NEW s \in Transactions, Alone(s), UNCHANGED log, call'[s].job = call[s].job,
           session[s].base = 0, session'[s].base = Len(log),
           Outcome(s) = "pending", Outcome(s)' = "pending"
    PROVE  Simulates
<1>1. ActivatedBy(s)' = ActivatedBy(s) /\ UNCHANGED History /\ Len(History) = Len(log)
  BY HistoryType DEF ActivatedBy, History, HistoryIsLog
<1>2. /\ [JobsDone EXCEPT ![s] = JobsDone[s]] = JobsDone
      /\ [Outcomes EXCEPT ![s] = Outcomes[s]] = Outcomes
  BY DEF JobsDone, Outcomes
<1>3. /\ Outcomes[s] = "pending" /\ Bases[s] = 0
      /\ Bases' = [Bases EXCEPT ![s] = Len(History)]
      /\ UNCHANGED <<History, JobsDone, Outcomes, Appliers>>
  BY <1>1, <1>2, RotationFrame, RotationAt
<1>4. Rotation!Look(s)
  BY <1>3 DEF Rotation!Look, History, JobsDone, Outcomes, Appliers, Bases
<1> QED
  BY <1>4 DEF Simulates, Rotation!Next

LEMMA EndIsReturn ==
    ASSUME TypeOK, NEW s \in Transactions, Alone(s), UNCHANGED log, call'[s].job = call[s].job,
           session'[s].base = session[s].base, call[s].pc \notin {"idle", "done"},
           call'[s].pc = "done",
           \/ call'[s].err # "none"
           \/ ActivatedBy(s) # {}
           \/ session[s].base > 0 /\ Satisfied(Loaded(s), call[s].job)
    PROVE  Simulates
<1>1. /\ ActivatedBy(s)' = ActivatedBy(s) /\ UNCHANGED History
      /\ session[s].base > 0 => Loaded(s) = History[session[s].base]
  <2>1. session[s].base \in Nat /\ session[s].base <= Len(log)
    BY RecordTypes DEF Consistent
  <2> QED
    BY <2>1, HistoryType DEF ActivatedBy, History, HistoryIsLog, Loaded
<1>2. Outcome(s) = "pending" /\ Outcome(s)' = IF call'[s].err = "none" THEN "ok" ELSE "error"
  <2>1. Outcome(s) = "pending"
    BY DEF Outcome, Succeeded, Returned
  <2>2. call'[s].err = "none" => Outcome(s)' = "ok"
    BY DEF Outcome, Succeeded, Returned
  <2>3. call'[s].err # "none" => Outcome(s)' = "error"
    BY DEF Outcome, Succeeded, Returned
  <2> QED
    BY <2>1, <2>2, <2>3
<1>3. /\ [JobsDone EXCEPT ![s] = JobsDone[s]] = JobsDone
      /\ [Bases EXCEPT ![s] = Bases[s]] = Bases
  BY DEF JobsDone, Bases
<1>4. /\ Outcomes[s] = "pending" /\ UNCHANGED <<History, JobsDone, Appliers, Bases>>
      /\ Outcomes' = [Outcomes EXCEPT ![s] = Outcome(s)']
  BY <1>1, <1>2, <1>3, RotationFrame, RotationAt
<1>5. \/ Outcomes' = [Outcomes EXCEPT ![s] = "error"]
      \/ s \in Appliers /\ Outcomes' = [Outcomes EXCEPT ![s] = "ok"]
      \/ /\ Bases[s] > 0
         /\ Rotation!Satisfied(History[Bases[s]], JobsDone[s])
         /\ Outcomes' = [Outcomes EXCEPT ![s] = "ok"]
  <2>1. CASE call'[s].err # "none"
    BY <1>2, <1>4, <2>1
  <2>2. CASE call'[s].err = "none" /\ ActivatedBy(s) # {}
    BY <1>2, <1>4, <2>2, RotationAt
  <2>3. CASE /\ call'[s].err = "none"
             /\ session[s].base > 0 /\ Satisfied(Loaded(s), call[s].job)
    <3>1. Rotation!Satisfied(Loaded(s), call[s].job)
      BY <2>3, SameRotations
    <3> QED
      BY <1>1, <1>2, <1>4, <2>3, <3>1, RotationAt
  <2> QED
    BY <2>1, <2>2, <2>3
<1>6. Rotation!Return(s)
  BY <1>4, <1>5 DEF Rotation!Return, History, JobsDone, Outcomes, Appliers, Bases
<1> QED
  BY <1>6 DEF Simulates, Rotation!Next

\* The Gateway activates what a call that rejects an outdated working copy has made of
\* the configuration that is active now.
LEMMA ActivationIsApply ==
    ASSUME TypeOK, TypeOK', NEW s \in Managed, Alone(s), Rotated(s), Activates(s),
           call[s].pc = "activate" \/ session[s].late, call[s].pc # "idle",
           ActivatedBy(s) = {}, session[s].base > 0, call'[s].job = call[s].job,
           session'[s].base = session[s].base,
           Outcome(s) \in {"pending", "error"}, Outcome(s)' = Outcome(s)
    PROVE  Simulates
<1>1. s \in Transactions
  BY DEF Managed
<1>2. PICK cfg : /\ Adds(cfg, s)
                 /\ call[s].policy \in {"", "reject"} =>
                       cfg = session[s].work /\ session[s].base = Len(log)
  BY <1>1, ActivationRevision
<1>3. History' = Append(History, cfg) /\ cfg \in Configurations
  BY <1>2, HistoryAppends
<1>4. Appliers' = Appliers \cup {s} /\ s \notin Appliers
  <2>1. Len(log') = Len(log) + 1 /\ log'[Len(log) + 1].by = s /\ Len(log) \in Nat
    BY <1>1, <1>2, RecordTypes DEF Adds
  <2>2. Len(log) + 1 \in ActivatedBy(s)'
    BY <2>1 DEF ActivatedBy
  <2> QED
    BY <1>1, <2>2, RotationFrame, RotationAt
<1>5. /\ [JobsDone EXCEPT ![s] = JobsDone[s]] = JobsDone
      /\ [Outcomes EXCEPT ![s] = Outcomes[s]] = Outcomes
      /\ [Bases EXCEPT ![s] = Bases[s]] = Bases
  BY DEF JobsDone, Outcomes, Bases
<1>6. Outcomes[s] \in {"pending", "error"} /\ UNCHANGED <<JobsDone, Outcomes, Bases>>
  BY <1>1, <1>5, RotationFrame, RotationAt
<1>7. /\ History \in Seq(Configurations) /\ Len(History) \in Nat \ {0}
      /\ History[Len(History)] = Active
  BY HistoryType DEF HistoryIsLog, Active
<1>8. CASE call[s].policy \in {"", "reject"}
  <2>1. Loaded(s) = Active /\ cfg = session[s].work
    BY <1>2, <1>8 DEF Loaded, Active
  <2>2. cfg \in RotationsOf(Active, call[s].job) /\ call[s].policy = call[s].job.policy
    BY <2>1 DEF Rotated
  <2>3. /\ cfg \in Rotation!Rotations(History[Len(History)], JobsDone[s])
        /\ JobsDone[s].policy \in {"", "reject"}
    BY <1>1, <1>7, <1>8, <2>2, SameRotations, RotationAt
  <2>4. Rotation!Apply(s)
    BY <1>3, <1>4, <1>6, <2>3
       DEF Rotation!Apply, Rotation!RejectsOutdated, Rotation!Becomes, Rotation!active,
           History, JobsDone, Outcomes, Appliers, Bases
  <2> QED
    BY <1>1, <2>4 DEF Simulates, Rotation!Next
<1>9. CASE call[s].policy \notin {"", "reject"}
  <2>1. JobsDone[s].policy \notin {"", "reject"}
    BY <1>1, <1>9, RotationAt DEF Rotated
  <2>2. /\ History' \in Seq(Configurations) /\ Len(History') = Len(History) + 1
        /\ \A k \in 1 .. Len(History) : History'[k] = History[k]
    BY <1>3, <1>7, AppendProperties
  <2>3. SubSeq(History', 1, Len(History)) = History
    <3>1. \A k \in 1 .. Len(History) : History'[k] \in Configurations
      BY <1>7, <2>2
    <3>2. /\ SubSeq(History', 1, Len(History)) \in Seq(Configurations)
          /\ Len(SubSeq(History', 1, Len(History))) = Len(History)
          /\ \A k \in 1 .. Len(History) : SubSeq(History', 1, Len(History))[k] = History'[k]
      BY <1>7, <3>1, SubSeqProperties
    <3> QED
      BY <1>7, <2>2, <3>2, SeqEqual
  <2>4. Rotation!Apply(s)
    BY <1>4, <1>6, <2>1, <2>2, <2>3, SameRotations
       DEF Rotation!Apply, Rotation!RejectsOutdated, History, JobsDone, Outcomes, Appliers,
           Bases
  <2> QED
    BY <1>1, <2>4 DEF Simulates, Rotation!Next
<1> QED
  BY <1>8, <1>9

\* Only loading changes what the working copy was loaded from.
LEMMA KeepsBase ==
    ASSUME TypeOK, NEW s \in Transactions, Acts(s), ~LoadActiveConfiguration(s)
    PROVE  session'[s].base = session[s].base
<1>1. \/ KeepsCopy(s) \/ LeavesLate(s, TRUE)
      \/ \E id \in CertificateIds : Written(s, id)
      \/ \E v : Connected(s, v)
  BY Zenon DEF Acts, Step, Call, Start, Acquire, VerifyGatewayVersion, CreateSession,
       Abandon, Finish, Stage, CommitWithOptions, Abort, Cancel, Resolve, Write, Bind,
       Decode, ValidateConfiguration, ActivateConfigurationWithOptions, GatewayActivates,
       KeepsCopy, KeepsSession, OpensSession, ValidatesSession, LeavesLate
<1>2. \A id : Written(s, id) => session'[s].base = session[s].base
  BY DEF Written, TypeOK, SessionRecords
<1>3. \A v : Connected(s, v) => session'[s].base = session[s].base
  BY DEF Connected, TypeOK, SessionRecords
<1> QED
  BY <1>1, <1>2, <1>3, KeptCopy

\* A step that activates nothing and loads nothing is a return or no step at all.
LEMMA QuietSimulates ==
    ASSUME TypeOK, NEW s \in Managed, Alone(s), Reports(s)', Rotated(s)', UNCHANGED log,
           call[s].pc \notin {"idle", "done"}, call'[s].pc # "idle",
           call'[s].job = call[s].job, session'[s].base = session[s].base
    PROVE  Simulates
<1>1. s \in Transactions
  BY DEF Managed
<1>2. ASSUME call'[s].pc = "done" PROVE Simulates
  <2>1. Loaded(s)' = Loaded(s) /\ ActivatedBy(s)' = ActivatedBy(s)
    BY DEF Loaded, ActivatedBy
  <2>2. \/ call'[s].err # "none"
        \/ ActivatedBy(s) # {}
        \/ session[s].base > 0 /\ Satisfied(Loaded(s), call[s].job)
    BY <1>2, <2>1 DEF Reports, Rotated
  <2> QED
    BY <1>1, <1>2, <2>2, EndIsReturn
<1>3. ASSUME call'[s].pc # "done" PROVE Simulates
  <2>1. Outcome(s) = "pending" /\ Outcome(s)' = "pending"
    BY <1>3 DEF Outcome, Returned
  <2>2. Outcome(s)' = Outcome(s)
    BY <2>1
  <2> QED
    BY <1>1, <2>2, Stutters
<1> QED
  BY <1>2, <1>3

LEMMA LoadSimulates ==
    ASSUME TypeOK, NEW s \in Managed, Alone(s), Reports(s)', Rotated(s), Rotated(s)',
           LoadActiveConfiguration(s)
    PROVE  Simulates
<1>1. call[s].pc = "load" /\ UNCHANGED log /\ session[s].base = 0
  BY DEF LoadActiveConfiguration, Rotated
<1>2. /\ s \in Transactions /\ s \notin Owned
      /\ Outcome(s) = "pending"
  BY <1>1 DEF Managed, Outcome, Returned
<1>3. CASE LoadsSession(s, Len(log), Active) /\ Goto(s, "resolve")
  <2>1. session'[s].base = Len(log)
    BY <1>2, <1>3 DEF LoadsSession, TypeOK, SessionRecords
  <2>2. call'[s].pc = "resolve" /\ call'[s].job = call[s].job
    BY <1>3, ManagedRows DEF CallIs, SameCall
  <2>3. Outcome(s)' = "pending"
    BY <2>2 DEF Outcome, Returned
  <2> QED
    BY <1>1, <1>2, <2>1, <2>2, <2>3, LoadIsLook
<1>4. CASE UNCHANGED session /\ call' = [call EXCEPT ![s].pc = "abandon", ![s].err = "load"]
  <2>1. call'[s].pc = "abandon" /\ call'[s].job = call[s].job
    BY <1>2, <1>4 DEF TypeOK, CallRecords
  <2> QED
    BY <1>1, <1>4, <2>1, QuietSimulates
<1>5. \/ LoadsSession(s, Len(log), Active) /\ Goto(s, "resolve")
      \/ UNCHANGED session /\ call' = [call EXCEPT ![s].pc = "abandon", ![s].err = "load"]
  BY <1>2, Zenon DEF LoadActiveConfiguration, LoadsSession
<1> QED
  BY <1>3, <1>4, <1>5

LEMMA ActivationSimulates ==
    ASSUME TypeOK, TypeOK', NEW s \in Managed, Orderly(s), Alone(s), Rotated(s), Reports(s)',
           Rotated(s)', ActivateConfigurationWithOptions(s),
           session'[s].base = session[s].base
    PROVE  Simulates
<1>1. call[s].pc = "activate" /\ s \in Transactions
  BY DEF ActivateConfigurationWithOptions, Managed
<1>2. call'[s].pc = "finish" /\ call'[s].job = call[s].job
  <2>1. \/ Goto(s, "finish") \/ Finishing(s, "policy") \/ Finishing(s, "conflict")
        \/ Finishing(s, "activate")
    BY Zenon DEF ActivateConfigurationWithOptions
  <2> QED
    BY <2>1, ManagedRows DEF CallIs, SameCall
<1>3. UNCHANGED log \/ Activates(s)
  BY Zenon DEF ActivateConfigurationWithOptions
<1>4. CASE UNCHANGED log
  BY <1>1, <1>2, <1>4, QuietSimulates
<1>5. CASE Activates(s)
  <2>1. Outcome(s) = "pending" /\ Outcome(s)' = "pending"
    BY <1>1, <1>2 DEF Outcome, Returned
  <2>2. ActivatedBy(s) = {}
    BY <1>1, NotOver
  <2>3. session[s].base > 0
    BY <1>1, RecordTypes DEF Consistent, LoadedSteps
  <2> QED
    BY <1>1, <1>2, <1>5, <2>1, <2>2, <2>3, ActivationIsApply
<1> QED
  BY <1>3, <1>4, <1>5

LEMMA LateSimulates ==
    ASSUME TypeOK, TypeOK', NEW s \in Managed, Orderly(s), Alone(s), Rotated(s),
           GatewayActivates(s), session'[s].base = session[s].base
    PROVE  Simulates
<1>1. session[s].late /\ UNCHANGED call /\ s \in Transactions
  BY DEF GatewayActivates, Managed
<1>2. Outcome(s)' = Outcome(s) /\ call'[s].job = call[s].job
  BY <1>1 DEF Outcome, Returned, Succeeded
<1>3. CASE UNCHANGED log
  BY <1>1, <1>2, <1>3, Stutters
<1>4. CASE Activates(s)
  <2>1. call[s].pc \in {"finish", "done"} /\ call[s].err = "activate" /\ ActivatedBy(s) = {}
    BY <1>1, NotOver DEF Orderly, Once, Honest
  <2>2. Outcome(s) \in {"pending", "error"}
    BY <2>1 DEF Outcome, Returned, Succeeded
  <2>3. session[s].base > 0
    BY <1>1, RecordTypes DEF Consistent
  <2> QED
    BY <1>1, <1>2, <1>4, <2>1, <2>2, <2>3, ActivationIsApply
<1> QED
  BY <1>3, <1>4, Zenon DEF GatewayActivates

LEMMA ActsSimulate ==
    ASSUME TypeOK, TypeOK', CallsInv, InstallInv, InstallInv', RotateInv, RotateInv',
           NEW s \in Managed, Acts(s)
    PROVE  Simulates
<1>1. /\ s \in Transactions /\ Orderly(s) /\ Alone(s) /\ Rotated(s)
      /\ Reports(s)' /\ Rotated(s)'
      /\ call[s].pc # "idle" => call'[s].pc # "idle" /\ call'[s].job = call[s].job
  BY StepGoesOn DEF Managed, CallsInv, InstallInv, RotateInv, GoesOn, Moves
<1>2. CASE Call(s)
  BY <1>1, <1>2, CallIsCall
<1>3. CASE LoadActiveConfiguration(s)
  BY <1>1, <1>3, LoadSimulates
<1>4. CASE ActivateConfigurationWithOptions(s)
  <2>1. call[s].pc = "activate"
    BY <1>4 DEF ActivateConfigurationWithOptions
  <2>2. session'[s].base = session[s].base
    BY <1>1, <2>1, KeepsBase DEF LoadActiveConfiguration
  <2> QED
    BY <1>1, <1>4, <2>2, ActivationSimulates
<1>5. CASE GatewayActivates(s)
  <2>1. session'[s].base = session[s].base
    <3>1. KeepsCopy(s)
      BY <1>5, Zenon DEF GatewayActivates, KeepsCopy, LeavesLate
    <3> QED
      BY <1>1, <3>1, KeptCopy
  <2> QED
    BY <1>1, <1>5, <2>1, LateSimulates
<1>6. CASE \/ Resolve(s) \/ Write(s) \/ Cancel(s) \/ Acquire(s) \/ VerifyGatewayVersion(s)
           \/ CreateSession(s) \/ Abandon(s) \/ Bind(s) \/ Decode(s)
           \/ ValidateConfiguration(s) \/ Finish(s)
  <2>1. /\ call[s].pc \notin {"idle", "done"} /\ UNCHANGED log
        /\ Cancel(s) \/ call[s].pc # "load"
    BY <1>6 DEF Resolve, Write, Cancel, Acquire, VerifyGatewayVersion, CreateSession,
       Abandon, Bind, Decode, ValidateConfiguration, Finish
  <2>2. session'[s].base = session[s].base
    BY <1>1, <2>1, KeepsBase DEF LoadActiveConfiguration, Cancel
  <2> QED
    BY <1>1, <2>1, <2>2, QuietSimulates
<1> QED
  BY <1>2, <1>3, <1>4, <1>5, <1>6, ManagedSteps

LEMMA AdministratorSimulates ==
    ASSUME TypeOK, TypeOK', AdministratorActivates
    PROVE  Simulates
<1>1. PICK cfg \in Edits(Active, AdminAttributes) : Adds(cfg, None)
  BY AdministratorRevision
<1>2. History' = Append(History, cfg)
  BY <1>1, HistoryAppends
<1>3. UNCHANGED <<JobsDone, Outcomes, Appliers, Bases>>
  BY AdministratorOrder
     DEF AdministratorActivates, JobsDone, Outcomes, Outcome, Returned, Succeeded, Appliers,
         Bases
<1>4. History[Len(History)] = Active
  BY HistoryType DEF HistoryIsLog, Active
<1>5. cfg \in Rotation!Edits(History[Len(History)], AdminAttributes)
  BY <1>1, <1>4, SameRotations
<1>6. Rotation!AdministratorActivates
  BY <1>2, <1>3, <1>5
     DEF Rotation!AdministratorActivates, Rotation!Becomes, Rotation!active, History,
         JobsDone, Outcomes, Appliers, Bases
<1> QED
  BY <1>6 DEF Simulates, Rotation!Next

LEMMA InitSimulates ==
    ASSUME Init
    PROVE  Rotation!Init
<1>1. PICK c \in InitialConfigurations : log = <<Revision(None, c, "", TRUE)>>
  BY Zenon DEF Init
<1>2. /\ Len(log) = 1 /\ log[1].configuration = c /\ log[1].by = None
      /\ [k \in DOMAIN log |-> log[k].configuration] = <<c>>
  <2> DEFINE rev == Revision(None, c, "", TRUE)
  <2>1. rev.configuration = c /\ rev.by = None
    BY DEF Revision
  <2> HIDE DEF rev
  <2>2. log = <<rev>>
    BY <1>1 DEF rev
  <2>3. DOMAIN log = {1} /\ Len(log) = 1 /\ log[1] = rev
    BY <2>2
  <2>4. [k \in {1} |-> c] = <<c>>
    OBVIOUS
  <2> QED
    BY <2>1, <2>3, <2>4
<1>3. ASSUME NEW s \in Transactions
      PROVE  /\ call[s].job = None /\ Outcome(s) = "idle" /\ session[s].base = 0
             /\ ActivatedBy(s) = {}
  <2>1. call[s].job = None /\ call[s].pc = "idle"
    BY DEF Init, NoCall
  <2>2. \E w : session = [t \in Transactions |->
                [state |-> "none", base |-> 0, work |-> w, validated |-> FALSE, late |-> FALSE]]
    BY Zenon DEF Init
  <2>3. session[s].base = 0
    BY <2>2
  <2>4. ActivatedBy(s) = {}
    BY <1>2, LifecycleAssumption DEF ActivatedBy
  <2> QED
    BY <2>1, <2>3, <2>4 DEF Outcome
<1> QED
  BY <1>2, <1>3 DEF Rotation!Init

(***************************************************************************)
(* One step: the theorem.                                                  *)
(***************************************************************************)
\* doc.go: where no caller stages and commits by itself, every managed call takes
\* effect in one step or not at all. A call that rejects an outdated working copy,
\* which is the default, makes of the configuration that is active in this step
\* what it is for, one that succeeds without a step has seen what it is for, and
\* an error may hide a step that comes late.
THEOREM CallsRotateAtomically ==
    ASSUME Owned = {}
    PROVE  Spec => RotatesAtomically
<1>1. ASSUME TypeOK, TypeOK', CallsInv, InstallInv, InstallInv', RotateInv, RotateInv',
             [Next]_vars
      PROVE  [Rotation!Next]_(Rotation!vars)
  <2>1. ASSUME NEW s \in Transactions, Acts(s) PROVE Simulates
    <3>1. s \in Managed
      BY DEF Managed
    <3> QED
      BY <1>1, <2>1, <3>1, ActsSimulate
  <2>2. ASSUME AdministratorActivates PROVE Simulates
    BY <1>1, <2>2, AdministratorSimulates
  <2>3. ASSUME UNCHANGED vars PROVE Simulates
    BY <2>3
       DEF vars, Simulates, Rotation!vars, Outcome, Returned, Succeeded, ActivatedBy
  <2>4. Simulates
    BY <1>1, <2>1, <2>2, <2>3, Zenon DEF Next, Acts, Terminating
  <2> QED
    BY <2>4 DEF Simulates
<1>2. Init => Rotation!Init
  BY InitSimulates
<1> QED
  BY <1>1, <1>2, TypeCorrect, CallsInvariant, InstallInvariant, RotateInvariant, PTL
     DEF Spec, RotatesAtomically, Rotation!Spec

(***************************************************************************)
(* The others: the invariant.                                              *)
(***************************************************************************)
\* The configuration has no resource c, and no virtual host refers to it.
Free(cfg, c) == ~Exists(cfg, c) /\ \A v \in VirtualHosts : cfg.bound[v] # c

Unused(cfg, n) == \A c \in CertificateIds : c >= n => Free(cfg, c)

\* What s has created is nobody else's until it is activated.
Private(s, c) ==
    ActivatedBy(s) = {} =>
        /\ \A k \in 1 .. Len(log) : Free(log[k].configuration, c)
        /\ \A t \in Transactions \ {s} : Free(session[t].work, c)

\* A call edits what its target selects, and what it has created.
EditsOwn(s) ==
    /\ touched[s].hosts \subseteq VirtualHostsOf(call[s].job.target)
    /\ \A c \in touched[s].certificates :
          /\ session[s].base > 0
          /\ \/ c \in SelectedIds(Loaded(s), call[s].job.target)
             \/ c < nextId /\ Private(s, c)

\* A virtual host is bound to a resource that is there.
Binds(s) == call[s].pc = "bind" => Exists(session[s].work, call[s].plan.id)

AllUnused ==
    /\ \A s \in Transactions : Unused(session[s].work, nextId) /\ Binds(s)
    /\ \A k \in 1 .. Len(log) : Unused(log[k].configuration, nextId)

\* OthersKeepServing, of revision k.
KeepsOthers(k) ==
    LET s == log[k].by  old == log[k - 1].configuration  new == log[k].configuration
    IN  (s \in Managed /\ log[k].policy # "overwrite") =>
            \A v \in VirtualHosts \ VirtualHostsOf(call[s].job.target) :
                \/ Served(new, v) = Served(old, v)
                \/ /\ new.bound[v] = old.bound[v]
                   /\ new.bound[v] \in SelectedIds(Loaded(s), call[s].job.target)

OthersInv ==
    /\ AllUnused
    /\ \A s \in Managed : EditsOwn(s)
    /\ \A k \in 2 .. Len(log) : KeepsOthers(k)

(***************************************************************************)
(* The others: what is free stays free.                                    *)
(***************************************************************************)
LEMMA EditFree ==
    ASSUME NEW cfg \in Configurations, NEW c \in CertificateIds, Free(cfg, c),
           NEW id \in CertificateIds, id # c
    PROVE  /\ \A a : Free(CreateIn(cfg, id, a), c) /\ Free(PatchIn(cfg, id, a), c)
           /\ \A v : Free(ConnectIn(cfg, id, v), c)
<1>1. ASSUME NEW a
      PROVE  Free(CreateIn(cfg, id, a), c) /\ Free(PatchIn(cfg, id, a), c)
  <2>1. /\ CreateIn(cfg, id, a).certificates[c] = cfg.certificates[c]
        /\ PatchIn(cfg, id, a).certificates[c] = cfg.certificates[c]
        /\ CreateIn(cfg, id, a).bound = cfg.bound /\ PatchIn(cfg, id, a).bound = cfg.bound
    BY DEF CreateIn, PatchIn, Configurations
  <2> HIDE DEF CreateIn, PatchIn
  <2> QED
    BY <2>1 DEF Free, Exists
<1>2. ASSUME NEW v
      PROVE  Free(ConnectIn(cfg, id, v), c)
  <2>1. /\ ConnectIn(cfg, id, v).certificates = cfg.certificates
        /\ \A w \in VirtualHosts : ConnectIn(cfg, id, v).bound[w] \in {cfg.bound[w], id}
    BY DEF ConnectIn, Configurations
  <2> HIDE DEF ConnectIn
  <2> QED
    BY <2>1 DEF Free, Exists
<1> QED
  BY <1>1, <1>2

LEMMA MergeFree ==
    ASSUME NEW base, NEW mine, NEW active, NEW c \in CertificateIds, Free(mine, c),
           Free(active, c)
    PROVE  Free(Merged(base, mine, active), c)
<1> DEFINE new == Merged(base, mine, active)
<1>1. /\ new.certificates[c] \in {mine.certificates[c], active.certificates[c]}
      /\ \A v \in VirtualHosts : new.bound[v] \in {mine.bound[v], active.bound[v]}
  BY DEF Merged
<1> HIDE DEF new
<1>2. Free(new, c)
  BY <1>1 DEF Free, Exists
<1> QED
  BY <1>2 DEF new

LEMMA EditsFree ==
    ASSUME NEW cfg \in Configurations, NEW c \in CertificateIds, Free(cfg, c), NEW attributes,
           NEW new \in Edits(cfg, attributes)
    PROVE  Free(new, c)
<1>1. \A i : Exists(cfg, i) => i \in CertificateIds /\ i # c
  BY DEF Free, Exists
<1>2. \/ \E i \in CertificateIds : Exists(cfg, i) /\ \E a : new = PatchIn(cfg, i, a)
      \/ \E i \in CertificateIds : Exists(cfg, i) /\ \E v : new = ConnectIn(cfg, i, v)
  BY DEF Edits
<1> QED
  BY <1>1, <1>2, EditFree

\* A step writes to no resource that is not there, but the next one it creates.
LEMMA WorkFree ==
    ASSUME TypeOK, NEW s \in Transactions, Acts(s), Binds(s), NEW c \in CertificateIds,
           Free(session[s].work, c), Free(Active, c), c = nextId => UNCHANGED nextId
    PROVE  Free(session'[s].work, c)
<1>1. session[s].work \in Configurations /\ nextId \in Nat
  BY RecordTypes DEF TypeOK
<1>2. \A i : Exists(session[s].work, i) => i \in CertificateIds /\ i # c
  BY DEF Free, Exists
<1>3. CASE call[s].pc = "write" /\ Written(s, WrittenId(s)) /\ WrittenId(s) \in CertificateIds
  <2> DEFINE p == call[s].plan
             id == WrittenId(s)
             work == session[s].work
             a == AttributesFromBundle(p.bundle)
  <2>1. /\ session'[s].work = WriteIn(work, p, id)
        /\ nextId' = IF p.id = NoCertificate THEN nextId + 1 ELSE nextId
    BY <1>3, WrittenCopy
  <2>2. p.id = NoCertificate \/ Exists(work, p.id)
    BY <1>3, RecordTypes DEF Consistent
  <2>3. id = IF p.id = NoCertificate THEN nextId ELSE p.id
    BY DEF WrittenId
  <2>4. id \in CertificateIds
    BY <1>3
  <2>5. WriteIn(work, p, id) \in {CreateIn(work, id, a), PatchIn(work, id, a)}
    BY DEF WriteIn
  <2> HIDE DEF p, id, a
  <2>6. id # c
    BY <1>1, <1>2, <2>1, <2>2, <2>3
  <2> QED
    BY <1>1, <2>1, <2>4, <2>5, <2>6, EditFree
<1>4. ASSUME NEW v, Connected(s, v), call[s].pc = "bind" PROVE Free(session'[s].work, c)
  <2>1. call[s].plan.id \in CertificateIds /\ call[s].plan.id # c
    BY <1>2, <1>4 DEF Binds
  <2> QED
    BY <1>1, <1>4, <2>1, ConnectedCopy, EditFree
<1>5. \/ session'[s].work \in {session[s].work, Active}
      \/ call[s].pc = "write" /\ Written(s, WrittenId(s)) /\ WrittenId(s) \in CertificateIds
      \/ call[s].pc = "bind" /\ \E v : Connected(s, v)
  BY StepWork
<1> QED
  BY <1>3, <1>4, <1>5

LEMMA RevisionFree ==
    ASSUME TypeOK, NEW s \in Transactions, Acts(s), NEW c \in CertificateIds,
           Free(session[s].work, c), Free(Active, c)
    PROVE  UNCHANGED log \/ \E cfg : Adds(cfg, s) /\ Free(cfg, c)
<1>1. ASSUME session[s].base > 0, Activates(s)
      PROVE  \E cfg : Adds(cfg, s) /\ Free(cfg, c)
  <2>1. PICK cfg : /\ Adds(cfg, s)
                   /\ \/ cfg = session[s].work
                      \/ cfg = Merged(Loaded(s), session[s].work, Active)
    BY <1>1, ActivationRevision
  <2>2. Free(cfg, c)
    BY <2>1, MergeFree
  <2> QED
    BY <2>1, <2>2
<1> QED
  BY <1>1, StepRevision

LEMMA LogFree ==
    ASSUME TypeOK, NEW c, \A k \in 1 .. Len(log) : Free(log[k].configuration, c),
           UNCHANGED log \/ \E cfg, by : Adds(cfg, by) /\ Free(cfg, c)
    PROVE  \A k \in 1 .. Len(log') : Free(log'[k].configuration, c)
<1>1. Len(log) \in Nat
  BY DEF TypeOK
<1>2. ASSUME NEW cfg, NEW by, Adds(cfg, by), Free(cfg, c)
      PROVE  \A k \in 1 .. Len(log') : Free(log'[k].configuration, c)
  BY <1>1, <1>2 DEF Adds
<1> QED
  BY <1>2

(***************************************************************************)
(* The others: the steps.                                                  *)
(***************************************************************************)
\* What a step edits.
LEMMA StepTouches ==
    ASSUME TypeOK, NEW s \in Transactions, Acts(s)
    PROVE  \/ UNCHANGED touched
           \/ /\ call[s].pc = "write" /\ UNCHANGED log /\ Written(s, WrittenId(s))
              /\ WrittenId(s) \in CertificateIds
              /\ touched'[s].certificates = touched[s].certificates \cup {WrittenId(s)}
              /\ touched'[s].hosts = touched[s].hosts
           \/ /\ call[s].pc = "bind" /\ UNCHANGED log
              /\ \E v \in call[s].plan.hosts :
                    /\ Connected(s, v)
                    /\ touched'[s].certificates = touched[s].certificates
                    /\ touched'[s].hosts = touched[s].hosts \cup {v}
<1>1. CASE Write(s)
  <2>1. /\ call[s].pc = "write" /\ UNCHANGED log /\ WrittenId(s) \in CertificateIds
        /\ UNCHANGED touched \/ Written(s, WrittenId(s))
    BY <1>1, Zenon DEF Write
  <2>2. ASSUME Written(s, WrittenId(s))
        PROVE  /\ touched'[s].certificates = touched[s].certificates \cup {WrittenId(s)}
               /\ touched'[s].hosts = touched[s].hosts
    BY <2>2 DEF Written, TypeOK
  <2> QED
    BY <2>1, <2>2
<1>2. CASE Bind(s)
  <2>1. /\ call[s].pc = "bind" /\ UNCHANGED log
        /\ UNCHANGED touched \/ \E v \in call[s].plan.hosts : Connected(s, v)
    BY <1>2, Zenon DEF Bind
  <2>2. ASSUME NEW v, Connected(s, v)
        PROVE  /\ touched'[s].certificates = touched[s].certificates
               /\ touched'[s].hosts = touched[s].hosts \cup {v}
    BY <2>2 DEF Connected, TypeOK
  <2> QED
    BY <2>1, <2>2
<1>3. CASE ~(Write(s) \/ Bind(s))
  BY <1>3, Zenon DEF Acts, Step, Call, Start, Acquire, VerifyGatewayVersion, CreateSession,
     LoadActiveConfiguration, Abandon, Finish, Stage, CommitWithOptions, Abort, Cancel,
     Resolve, Decode, ValidateConfiguration, ActivateConfigurationWithOptions,
     GatewayActivates
<1> QED
  BY <1>1, <1>2, <1>3

\* The IDs a step gives out are the next ones.
LEMMA StepIds ==
    ASSUME TypeOK, NEW s \in Transactions, Acts(s)
    PROVE  nextId \in Nat /\ nextId' \in Nat /\ nextId' >= nextId
<1>1. nextId \in Nat
  BY DEF TypeOK
<1>2. nextId' \in {nextId, nextId + 1}
  <2>1. Written(s, WrittenId(s)) => nextId' \in {nextId, nextId + 1}
    BY WrittenCopy
  <2> QED
    BY <2>1, StepWork
<1> QED
  BY <1>1, <1>2

\* What is there, or was, is Free of c.
LEMMA UnusedFree ==
    ASSUME TypeOK, AllUnused, NEW c \in CertificateIds, c >= nextId
    PROVE  /\ Free(Active, c)
           /\ \A s \in Transactions : Free(session[s].work, c)
           /\ \A k \in 1 .. Len(log) : Free(log[k].configuration, c)
<1>1. Len(log) \in 1 .. Len(log)
  BY DEF TypeOK
<1> QED
  BY <1>1 DEF AllUnused, Unused, Active

\* Only a write is followed by a binding.
LEMMA NoBinding ==
    ASSUME TypeOK, NEW s \in Transactions, Acts(s), call'[s].pc = "bind"
    PROVE  Write(s) \/ Cancel(s) \/ GatewayActivates(s)
<1>1. \/ Write(s) \/ Cancel(s) \/ GatewayActivates(s)
      \/ \E pc \in {"version", "create", "load", "ready", "resolve", "decode", "activate",
                    "finish"} : Goto(s, pc)
      \/ \E err : \/ Return(s, err) \/ Finishing(s, err) \/ StageFails(s, err)
                  \/ Closes(s, err)
      \/ \E changed : StageSucceeds(s, changed)
      \/ call' = [call EXCEPT ![s].pc = "abandon", ![s].err = "load"]
      \/ \E p : call' = [call EXCEPT ![s].plan = p, ![s].pc = "write"]
      \/ Call(s) \/ Stage(s) \/ CommitWithOptions(s)
  <2>1. ASSUME \/ Start(s) \/ Acquire(s) \/ VerifyGatewayVersion(s) \/ CreateSession(s)
               \/ LoadActiveConfiguration(s)
        PROVE  \/ \E pc \in {"version", "create", "load", "ready", "resolve"} : Goto(s, pc)
               \/ \E err : Return(s, err)
               \/ call' = [call EXCEPT ![s].pc = "abandon", ![s].err = "load"]
    BY <2>1 DEF Start, Acquire, VerifyGatewayVersion, CreateSession, LoadActiveConfiguration
  <2>2. ASSUME Abandon(s) \/ Finish(s) \/ Abort(s)
        PROVE  \E err : Return(s, err) \/ Closes(s, err) \/ Finishing(s, err)
    BY <2>2, Zenon DEF Abandon, Finish, Abort
  <2>3. ASSUME Resolve(s) \/ Bind(s) \/ Decode(s)
        PROVE  \/ \E pc \in {"ready", "decode", "finish"} : Goto(s, pc)
               \/ \E err : StageFails(s, err)
               \/ \E changed : StageSucceeds(s, changed)
               \/ \E p : call' = [call EXCEPT ![s].plan = p, ![s].pc = "write"]
    BY <2>3, Zenon DEF Resolve, Bind, Decode
  <2>4. ASSUME ValidateConfiguration(s) \/ ActivateConfigurationWithOptions(s)
        PROVE  \/ \E pc \in {"activate", "finish"} : Goto(s, pc)
               \/ \E err : Finishing(s, err)
    BY <2>4, Zenon DEF ValidateConfiguration, ActivateConfigurationWithOptions, MessagesReported
  <2>5. \/ Start(s) \/ Acquire(s) \/ VerifyGatewayVersion(s) \/ CreateSession(s)
        \/ LoadActiveConfiguration(s)
        \/ Abandon(s) \/ Finish(s) \/ Abort(s)
        \/ Resolve(s) \/ Bind(s) \/ Decode(s)
        \/ ValidateConfiguration(s) \/ ActivateConfigurationWithOptions(s)
        \/ Write(s) \/ Cancel(s) \/ GatewayActivates(s)
        \/ Call(s) \/ Stage(s) \/ CommitWithOptions(s)
    BY Zenon DEF Acts, Step
  <2> QED
    BY <2>1, <2>2, <2>3, <2>4, <2>5
<1>2. \A pc : Goto(s, pc) => call'[s].pc = pc
  BY DEF Goto, TypeOK, CallRecords
<1>3. ASSUME NEW err
      PROVE  ~(Return(s, err) \/ Finishing(s, err) \/ StageFails(s, err) \/ Closes(s, err))
  BY DEF Return, Finishing, StageFails, Closes, Goto, TypeOK, CallRecords
<1>4. ASSUME NEW changed, StageSucceeds(s, changed) PROVE FALSE
  <2> DEFINE ch == call[s].changed \/ changed
             pc == IF s \in Owned THEN "ready"
                   ELSE IF call[s].changed \/ changed THEN "validate" ELSE "finish"
  <2>1. call' = [call EXCEPT ![s].changed = ch, ![s].pc = pc]
    BY <1>4 DEF StageSucceeds
  <2>2. pc # "bind"
    OBVIOUS
  <2> HIDE DEF ch, pc
  <2> QED
    BY <2>1, <2>2 DEF TypeOK, CallRecords
<1>5. ~(call' = [call EXCEPT ![s].pc = "abandon", ![s].err = "load"])
  BY DEF TypeOK, CallRecords
<1>6. \A p : ~(call' = [call EXCEPT ![s].plan = p, ![s].pc = "write"])
  BY DEF TypeOK, CallRecords
<1>7. ASSUME Call(s) PROVE FALSE
  BY <1>7, CallLeads
<1>8. ASSUME Stage(s) PROVE FALSE
  <2>1. PICK j : call' = [call EXCEPT ![s].job = j, ![s].pc = "resolve", ![s].stages = @ + 1]
    BY <1>8, Zenon DEF Stage
  <2> QED
    BY <2>1 DEF TypeOK, CallRecords
<1>9. ASSUME CommitWithOptions(s) PROVE FALSE
  <2>1. CASE call[s].closed
    <3>1. call' = [call EXCEPT ![s].pc = "done"]
      BY <1>9, <2>1 DEF CommitWithOptions
    <3> QED
      BY <3>1 DEF TypeOK, CallRecords
  <2>2. CASE ~call[s].closed
    <3>1. PICK policy \in CommitPolicies, pc \in {"validate", "finish"} :
              call' = [call EXCEPT ![s].policy = policy, ![s].err = "none", ![s].pc = pc]
      BY <1>9, <2>2, Zenon DEF CommitWithOptions
    <3> QED
      BY <3>1 DEF TypeOK, CallRecords
  <2> QED
    BY <2>1, <2>2
<1> QED
  BY <1>1, <1>2, <1>3, <1>4, <1>5, <1>6, <1>7, <1>8, <1>9

LEMMA StepBinds ==
    ASSUME TypeOK, NEW s \in Transactions, Acts(s), Binds(s)
    PROVE  Binds(s)'
<1> SUFFICES ASSUME call'[s].pc = "bind"
             PROVE  Exists(session'[s].work, call'[s].plan.id)
  BY DEF Binds
<1>1. CASE Write(s)
  <2> DEFINE p == call[s].plan
             id == WrittenId(s)
             work == session[s].work
             a == AttributesFromBundle(p.bundle)
  <2>1. call[s].pc = "write" /\ id \in CertificateIds
    BY <1>1, Zenon DEF Write
  <2>2. Written(s, id) /\ call'[s].plan.id = id
    <3>1. ~StageFails(s, "stage") /\ ~StageFails(s, "default-entity")
      BY DEF StageFails, Goto, Finishing, TypeOK, CallRecords
    <3>2. Written(s, id) /\ call' = [call EXCEPT
                    ![s].plan.id = id, ![s].pc = IF p.hosts = {} THEN "decode" ELSE "bind"]
      BY <1>1, <3>1, Zenon DEF Write
    <3>3. call[s].plan \in PlanRecords
      BY <2>1, RecordTypes DEF Consistent
    <3>4. call'[s].plan = [p EXCEPT !.id = id]
      BY <3>2 DEF TypeOK, CallRecords
    <3> QED
      BY <3>2, <3>3, <3>4 DEF PlanRecords
  <2>3. session'[s].work = WriteIn(work, p, id)
    BY <2>2, WrittenCopy
  <2>4. /\ work \in Configurations /\ p.bundle \in Bundles /\ ValidBundle(p.bundle)
        /\ p.id = NoCertificate \/ Exists(work, p.id)
    BY <2>1, RecordTypes DEF Consistent, PlanRecords
  <2>5. a \in Attributes
    BY <2>4, AttributesType
  <2>6. CASE p.id = NoCertificate
    <3>1. WriteIn(work, p, id).certificates[id] = a
      BY <2>1, <2>4, <2>6 DEF WriteIn, CreateIn, Configurations
    <3> QED
      BY <2>1, <2>2, <2>3, <2>5, <3>1, ConfigurationAssumption DEF Exists
  <2>7. CASE p.id # NoCertificate
    <3>1. work.certificates[id] \in Attributes
      BY <2>1, <2>4, <2>7 DEF WrittenId, Exists, Configurations
    <3>2. WriteIn(work, p, id).certificates[id] = Patched(work.certificates[id], a)
      BY <2>1, <2>4, <2>7 DEF WriteIn, PatchIn, Configurations
    <3>3. Patched(work.certificates[id], a) \in Attributes
      BY <2>5, <3>1, PatchedType
    <3> QED
      BY <2>1, <2>2, <2>3, <3>2, <3>3, ConfigurationAssumption DEF Exists
  <2> QED
    BY <2>6, <2>7
<1>2. CASE Cancel(s) \/ GatewayActivates(s)
  <2>1. call'[s].pc = call[s].pc /\ call'[s].plan = call[s].plan
    BY <1>2 DEF Cancel, GatewayActivates, TypeOK, CallRecords
  <2>2. KeepsCopy(s)
    BY <1>2, Zenon DEF Cancel, GatewayActivates, KeepsCopy, KeepsSession, LeavesLate
  <2> QED
    BY <2>1, <2>2, KeptCopy DEF Binds
<1> QED
  BY <1>1, <1>2, NoBinding

LEMMA StepUnused ==
    ASSUME TypeOK, AllUnused, NEW s \in Transactions, Acts(s), Alone(s)
    PROVE  AllUnused'
<1>1. nextId \in Nat /\ nextId' \in Nat /\ nextId' >= nextId /\ CertificateIds \subseteq Int
  BY StepIds, ConfigurationAssumption
<1>2. ASSUME NEW c \in CertificateIds, c >= nextId'
      PROVE  /\ \A t \in Transactions : Free(session'[t].work, c)
             /\ \A k \in 1 .. Len(log') : Free(log'[k].configuration, c)
  <2>1. c >= nextId /\ (c = nextId => UNCHANGED nextId)
    BY <1>1, <1>2
  <2>2. /\ Free(Active, c) /\ \A t \in Transactions : Free(session[t].work, c)
        /\ \A k \in 1 .. Len(log) : Free(log[k].configuration, c)
    BY <2>1, UnusedFree
  <2>3. Free(session'[s].work, c)
    BY <2>1, <2>2, WorkFree DEF AllUnused
  <2>4. UNCHANGED log \/ \E cfg, by : Adds(cfg, by) /\ Free(cfg, c)
    BY <2>2, RevisionFree
  <2>5. \A k \in 1 .. Len(log') : Free(log'[k].configuration, c)
    BY <2>2, <2>4, LogFree
  <2> QED
    BY <2>2, <2>3, <2>5 DEF Alone
<1>3. \A t \in Transactions : Binds(t)'
  <2>1. Binds(s)'
    BY StepBinds DEF AllUnused
  <2> QED
    BY <2>1 DEF Alone, AllUnused, Binds
<1> QED
  BY <1>2, <1>3 DEF AllUnused, Unused

LEMMA AdministratorUnused ==
    ASSUME TypeOK, AllUnused, AdministratorActivates
    PROVE  AllUnused'
<1>1. UNCHANGED <<nextId, session, call>> /\ Active \in Configurations
  BY RevisionType DEF AdministratorActivates
<1>2. ASSUME NEW c \in CertificateIds, c >= nextId
      PROVE  \A k \in 1 .. Len(log') : Free(log'[k].configuration, c)
  <2>1. Free(Active, c) /\ \A k \in 1 .. Len(log) : Free(log[k].configuration, c)
    BY <1>2, UnusedFree
  <2>2. \E cfg, by : Adds(cfg, by) /\ Free(cfg, c)
    BY <1>1, <2>1, AdministratorRevision, EditsFree
  <2> QED
    BY <2>1, <2>2, LogFree
<1> QED
  BY <1>1, <1>2 DEF AllUnused, Unused, Binds

\* What s has created stays its own while others work and activate.
LEMMA OthersPrivate ==
    ASSUME TypeOK, AllUnused, NEW s \in Transactions, Acts(s), Alone(s),
           NEW t \in Transactions \ {s}, NEW c \in CertificateIds, c < nextId, Private(t, c)
    PROVE  Private(t, c)'
<1> SUFFICES ASSUME ActivatedBy(t) = {}
             PROVE  /\ \A k \in 1 .. Len(log') : Free(log'[k].configuration, c)
                    /\ \A u \in Transactions \ {t} : Free(session'[u].work, c)
  BY DEF Private, Alone
<1>1. /\ \A k \in 1 .. Len(log) : Free(log[k].configuration, c)
      /\ \A u \in Transactions \ {t} : Free(session[u].work, c)
  BY DEF Private
<1>2. Free(Active, c) /\ Free(session[s].work, c)
  <2>1. Len(log) \in 1 .. Len(log)
    BY DEF TypeOK
  <2> QED
    BY <1>1, <2>1 DEF Active
<1>3. c # nextId
  BY ConfigurationAssumption, StepIds
<1>4. Free(session'[s].work, c)
  BY <1>2, <1>3, WorkFree DEF AllUnused
<1>5. UNCHANGED log \/ \E cfg, by : Adds(cfg, by) /\ Free(cfg, c)
  BY <1>2, RevisionFree
<1>6. \A k \in 1 .. Len(log') : Free(log'[k].configuration, c)
  BY <1>1, <1>5, LogFree
<1> QED
  BY <1>1, <1>4, <1>6 DEF Alone

\* A step of s keeps what s has created its own, until it activates that.
LEMMA OwnPrivate ==
    ASSUME TypeOK, NEW s \in Transactions, Acts(s), Alone(s), Moves(s), NEW c,
           Private(s, c)
    PROVE  Private(s, c)'
<1> SUFFICES ASSUME ActivatedBy(s)' = {}
             PROVE  /\ \A k \in 1 .. Len(log') : Free(log'[k].configuration, c)
                    /\ \A u \in Transactions \ {s} : Free(session'[u].work, c)
  BY DEF Private
<1>1. ActivatedBy(s) = {}
  BY DEF Moves
<1>2. UNCHANGED log
  <2>1. session[s].base > 0 /\ Activates(s) => ActivatedBy(s)' # {}
    BY ActivationAdds
  <2> QED
    BY <2>1, StepRevision
<1> QED
  BY <1>1, <1>2 DEF Private, Alone

\* A plan that is not for a creation is for what the target selects.
LEMMA PlanSelects ==
    ASSUME NEW cfg \in Configurations, NEW job \in ValidJobs, NEW p \in Plans(cfg, job),
           p.id # NoCertificate
    PROVE  p.id \in SelectedIds(cfg, job.target)
<1>1. job.operation # "create"
  BY PlanMeans DEF Creation
<1>2. PICK id : SelectedIds(cfg, job.target) = {id} /\ p = Plan(cfg, job, id, p.bundle)
  BY <1>1, PlanMeans
<1>3. p.id \in {NoCertificate, id}
  BY <1>2 DEF Plan
<1> QED
  BY <1>2, <1>3

\* What a call edits next is its own.
LEMMA WriteEditsOwn ==
    ASSUME TypeOK, AllUnused, NEW s \in Managed, Orderly(s), Installing(s), Alone(s),
           call[s].pc = "write", UNCHANGED log, NEW id \in CertificateIds,
           id = WrittenId(s), Written(s, id)
    PROVE  /\ session[s].base > 0
           /\ \/ id \in SelectedIds(Loaded(s), call[s].job.target)
              \/ id < nextId' /\ Private(s, id)'
<1>1. /\ s \in Transactions /\ session[s].base > 0 /\ call[s].job \in ValidJobs
      /\ Loaded(s) \in Configurations
  BY StagingHas DEF LoadedSteps, StageSteps
<1>2. call[s].plan \in Plans(Loaded(s), call[s].job)
  BY DEF Installing, Staged
<1>3. CASE call[s].plan.id # NoCertificate
  BY <1>1, <1>2, <1>3, PlanSelects DEF WrittenId
<1>4. CASE call[s].plan.id = NoCertificate
  <2>1. id = nextId /\ nextId' = nextId + 1 /\ nextId \in Nat
    BY <1>1, <1>4, WrittenCopy DEF WrittenId, TypeOK
  <2>2. /\ \A t \in Transactions : Free(session[t].work, id)
        /\ \A k \in 1 .. Len(log) : Free(log[k].configuration, id)
    BY <2>1, UnusedFree
  <2>3. /\ \A k \in 1 .. Len(log') : Free(log'[k].configuration, id)
        /\ \A t \in Transactions \ {s} : Free(session'[t].work, id)
    BY <2>2 DEF Alone
  <2>4. Private(s, id)'
    BY <2>3 DEF Private
  <2> QED
    BY <1>1, <2>1, <2>4
<1> QED
  BY <1>3, <1>4

\* A step of s keeps EditsOwn(s).
LEMMA ActsEditsOwn ==
    ASSUME TypeOK, AllUnused, Grows, NEW s \in Managed, Acts(s), Alone(s), Moves(s),
           Orderly(s), Installing(s), Rotated(s), Refused(s), Refused(s)', EditsOwn(s)
    PROVE  EditsOwn(s)'
<1> DEFINE target == call[s].job.target
<1>1. s \in Transactions
  BY DEF Managed
<1>2. CASE call[s].pc = "idle"
  <2>1. touched[s] = Nothing
    BY <1>2 DEF Refused
  <2>2. UNCHANGED touched
    BY <1>1, <1>2, StepTouches
  <2> QED
    BY <2>1, <2>2 DEF EditsOwn, Nothing
<1>3. CASE LoadActiveConfiguration(s)
  <2>1. call[s].pc = "load" /\ session[s].base = 0 /\ UNCHANGED touched
    BY <1>3 DEF LoadActiveConfiguration, Rotated
  <2>2. touched[s].certificates = {} /\ call'[s].job = call[s].job
    BY <2>1 DEF EditsOwn, Moves
  <2> QED
    BY <2>1, <2>2 DEF EditsOwn
<1>4. CASE call[s].pc # "idle" /\ ~LoadActiveConfiguration(s)
  <2>1. call'[s].job = call[s].job /\ session'[s].base = session[s].base
    BY <1>1, <1>4, KeepsBase DEF Moves
  <2>2. session[s].base > 0 => Loaded(s)' = Loaded(s)
    BY <1>1, <2>1, LoadedKept
  <2>3. nextId \in Nat /\ nextId' \in Nat /\ nextId' >= nextId /\ CertificateIds \subseteq Int
    BY <1>1, StepIds, ConfigurationAssumption
  <2>4. ASSUME NEW c \in touched[s].certificates
        PROVE  /\ session'[s].base > 0
               /\ \/ c \in SelectedIds(Loaded(s)', target)
                  \/ c < nextId' /\ Private(s, c)'
    <3>1. /\ session[s].base > 0
          /\ \/ c \in SelectedIds(Loaded(s), target)
             \/ c < nextId /\ Private(s, c)
      BY DEF EditsOwn
    <3>2. Private(s, c) => Private(s, c)'
      BY <1>1, OwnPrivate
    <3>3. c < nextId => c < nextId'
      <4>1. c \in CertificateIds
        BY <1>1 DEF TypeOK
      <4> QED
        BY <2>3, <4>1
    <3> QED
      BY <2>1, <2>2, <3>1, <3>2, <3>3
  <2>5. CASE UNCHANGED touched
    BY <2>1, <2>4, <2>5 DEF EditsOwn
  <2>6. ASSUME call[s].pc = "write", UNCHANGED log, NEW id \in CertificateIds,
               id = WrittenId(s), Written(s, id),
               touched'[s].certificates = touched[s].certificates \cup {id},
               touched'[s].hosts = touched[s].hosts
        PROVE  EditsOwn(s)'
    <3>1. /\ session[s].base > 0
          /\ \/ id \in SelectedIds(Loaded(s), target)
             \/ id < nextId' /\ Private(s, id)'
      BY <2>6, WriteEditsOwn
    <3> QED
      BY <2>1, <2>2, <2>4, <2>6, <3>1 DEF EditsOwn
  <2>7. ASSUME call[s].pc = "bind", NEW v \in call[s].plan.hosts,
               touched'[s].certificates = touched[s].certificates,
               touched'[s].hosts = touched[s].hosts \cup {v}
        PROVE  EditsOwn(s)'
    <3>1. v \in VirtualHostsOf(target)
      BY <2>7 DEF Installing, Staged
    <3> QED
      BY <2>1, <2>4, <2>7, <3>1 DEF EditsOwn
  <2> QED
    BY <1>1, <2>5, <2>6, <2>7, StepTouches
<1> QED
  BY <1>2, <1>3, <1>4

\* What others do keeps it too.
LEMMA OthersEditOwn ==
    ASSUME TypeOK, Grows, NEW t \in Managed, call'[t] = call[t], session'[t] = session[t],
           touched'[t] = touched[t], nextId' \in Nat, nextId' >= nextId, EditsOwn(t),
           \A c \in CertificateIds : c < nextId /\ Private(t, c) => Private(t, c)'
    PROVE  EditsOwn(t)'
<1>1. t \in Transactions /\ nextId \in Nat /\ CertificateIds \subseteq Int
  BY ConfigurationAssumption DEF Managed, TypeOK
<1>2. session[t].base > 0 => Loaded(t)' = Loaded(t)
  BY <1>1, LoadedKept
<1>3. ASSUME NEW c \in touched[t].certificates
      PROVE  /\ session'[t].base > 0
             /\ \/ c \in SelectedIds(Loaded(t)', call[t].job.target)
                \/ c < nextId' /\ Private(t, c)'
  <2>1. /\ session[t].base > 0
        /\ \/ c \in SelectedIds(Loaded(t), call[t].job.target)
           \/ c < nextId /\ Private(t, c)
    BY DEF EditsOwn
  <2>2. c \in CertificateIds
    BY <1>1 DEF TypeOK
  <2>3. c < nextId => c < nextId'
    BY <1>1, <2>2
  <2> QED
    BY <1>2, <2>1, <2>2, <2>3
<1> QED
  BY <1>3 DEF EditsOwn

\* A revision keeps what was said of it.
LEMMA KeptOthers ==
    ASSUME TypeOK, Grows, NEW k \in 2 .. Len(log), KeepsOthers(k),
           \A t \in Managed : ActivatedBy(t) # {} =>
               /\ session[t].base > 0 /\ session'[t].base = session[t].base
               /\ call'[t].job = call[t].job
    PROVE  KeepsOthers(k)'
<1>1. /\ Len(log) \in Nat /\ k \in 1 .. Len(log) /\ k - 1 \in 1 .. Len(log)
      /\ log'[k] = log[k] /\ log'[k - 1] = log[k - 1]
  BY GrowsKeeps
<1>2. ASSUME log[k].by \in Managed
      PROVE  /\ call'[log[k].by].job = call[log[k].by].job
             /\ Loaded(log[k].by)' = Loaded(log[k].by)
  <2>1. PICK t \in Managed : t = log[k].by
    BY <1>2
  <2>2. k \in ActivatedBy(t) /\ t \in Transactions
    BY <1>1, <2>1 DEF ActivatedBy, Managed
  <2>3. /\ session[t].base > 0 /\ session'[t].base = session[t].base
        /\ call'[t].job = call[t].job
    BY <2>2
  <2>4. Loaded(t)' = Loaded(t)
    BY <2>2, <2>3, LoadedKept
  <2> QED
    BY <1>1, <2>1, <2>3, <2>4 DEF Loaded
<1> QED
  BY <1>1, <1>2 DEF KeepsOthers

\* What a call activates without overwriting changes what others serve only through
\* the resource its target has selected.
LEMMA ActivationKeepsOthers ==
    ASSUME TypeOK, Grows, NoLostUpdate', NEW s \in Managed, Acts(s), session[s].base > 0,
           Activates(s), ActivatedBy(s) = {}, EditsOwn(s), call'[s].job = call[s].job,
           session'[s].base = session[s].base, NEW n, n = Len(log) + 1
    PROVE  KeepsOthers(n)'
<1> DEFINE target == call[s].job.target
<1>1. s \in Transactions
  BY DEF Managed
<1>2. PICK cfg : Adds(cfg, s)
  BY <1>1, ActivationRevision
<1>3. /\ Len(log) \in Nat \ {0} /\ Len(log') = n /\ log'[n].by = s
      /\ log'[Len(log)] = log[Len(log)] /\ n - 1 = Len(log) /\ n \in 2 .. Len(log')
  BY <1>2, GrowsKeeps DEF Adds
<1>4. UNCHANGED touched
  BY <1>1, <1>3, StepTouches
<1>5. Loaded(s)' = Loaded(s)
  BY <1>1, LoadedKept
<1> DEFINE old == Active
           new == log'[n].configuration
<1>6. SUFFICES ASSUME log'[n].policy # "overwrite",
                      NEW v \in VirtualHosts \ VirtualHostsOf(target)
               PROVE  \/ Served(new, v) = Served(old, v)
                      \/ /\ new.bound[v] = old.bound[v]
                         /\ new.bound[v] \in SelectedIds(Loaded(s), target)
  BY <1>3, <1>5 DEF KeepsOthers, Active
<1>7. /\ \A i \in CertificateIds \ touched[s].certificates :
             new.certificates[i] = old.certificates[i]
      /\ \A w \in VirtualHosts \ touched[s].hosts : new.bound[w] = old.bound[w]
  BY <1>1, <1>3, <1>4, <1>6 DEF NoLostUpdate, Active
<1> DEFINE b == old.bound[v]
<1>8. new.bound[v] = b
  BY <1>7 DEF EditsOwn
<1>9. b \in CertificateIds \cup {NoCertificate}
  BY RevisionType DEF Configurations
<1> HIDE DEF new, old, b
<1>10. CASE b = NoCertificate
  BY <1>8, <1>10 DEF Served, b
<1>11. CASE b \in CertificateIds \ touched[s].certificates
  BY <1>7, <1>8, <1>11 DEF Served, b
<1>12. CASE b \in touched[s].certificates
  <2>1. ~Private(s, b)
    <3>1. Len(log) \in 1 .. Len(log)
      BY <1>3
    <3> QED
      BY <3>1 DEF Private, Free, b, old, Active
  <2> QED
    BY <1>8, <1>12, <2>1 DEF EditsOwn, b
<1> QED
  BY <1>9, <1>10, <1>11, <1>12

LEMMA ActsKeepOthers ==
    ASSUME TypeOK, CallsInv, UpdatesInv, UpdatesInv', InstallInv, RotateInv, OthersInv, Grows,
           NEW s \in Transactions, Acts(s)
    PROVE  OthersInv'
<1>1. /\ Orderly(s) /\ Alone(s) /\ Moves(s) /\ AllUnused
      /\ \A t \in Transactions : Orderly(t)
  BY StepGoesOn DEF GoesOn, CallsInv, OthersInv
<1>2. AllUnused'
  BY <1>1, StepUnused
<1>3. nextId' \in Nat /\ nextId' >= nextId
  BY StepIds
<1>4. ASSUME NEW t \in Managed
      PROVE  EditsOwn(t)'
  <2>1. t \in Transactions /\ EditsOwn(t)
    BY DEF Managed, OthersInv
  <2>2. CASE t = s
    <3>1. /\ s \in Managed /\ Installing(s) /\ Rotated(s) /\ Refused(s) /\ Refused(s)'
      BY <2>2 DEF InstallInv, Installing, RotateInv, UpdatesInv
    <3> QED
      BY <1>1, <2>1, <2>2, <3>1, ActsEditsOwn
  <2>3. CASE t # s
    <3>1. call'[t] = call[t] /\ session'[t] = session[t] /\ touched'[t] = touched[t]
      BY <1>1, <2>1, <2>3, StepEdits DEF Alone, Edited
    <3>2. \A c \in CertificateIds : c < nextId /\ Private(t, c) => Private(t, c)'
      BY <1>1, <2>1, <2>3, OthersPrivate
    <3> QED
      BY <1>3, <2>1, <3>1, <3>2, OthersEditOwn
  <2> QED
    BY <2>2, <2>3
<1>5. ASSUME NEW t \in Managed, ActivatedBy(t) # {}
      PROVE  /\ session[t].base > 0 /\ session'[t].base = session[t].base
             /\ call'[t].job = call[t].job
  <2>1. t \in Transactions /\ session[t].base > 0 /\ call[t].pc \in {"finish", "done"}
    BY <1>1, <1>5, NotOver DEF Managed, Orderly, Reads
  <2>2. t = s => session'[t].base = session[t].base /\ call'[t].job = call[t].job
    BY <1>1, <2>1, KeepsBase DEF LoadActiveConfiguration, Moves
  <2> QED
    BY <1>1, <2>1, <2>2 DEF Alone
<1>6. \A k \in 2 .. Len(log) : KeepsOthers(k)'
  BY <1>5, KeptOthers DEF OthersInv
<1>7. \A k \in 2 .. Len(log') : KeepsOthers(k)'
  <2>1. CASE UNCHANGED log
    BY <1>6, <2>1
  <2>2. CASE ~(UNCHANGED log)
    <3>1. /\ session[s].base > 0 /\ Activates(s)
          /\ call[s].pc = "activate" \/ session[s].late
      BY <2>2, StepRevision
    <3>2. PICK cfg : Adds(cfg, s)
      BY <3>1, ActivationRevision
    <3>3. Len(log) \in Nat \ {0} /\ Len(log') = Len(log) + 1 /\ log'[Len(log) + 1].by = s
      BY <3>2, GrowsKeeps DEF Adds
    <3>4. ASSUME NEW n, n = Len(log) + 1 PROVE KeepsOthers(n)'
      <4>1. CASE s \in Managed
        <5>1. /\ ActivatedBy(s) = {} /\ call[s].pc \notin {"idle", "load"}
              /\ EditsOwn(s) /\ NoLostUpdate'
          BY <1>1, <3>1, <4>1, NotOver DEF Orderly, Once, Honest, OthersInv, UpdatesInv
        <5>2. call'[s].job = call[s].job /\ session'[s].base = session[s].base
          BY <1>1, <4>1, <5>1, KeepsBase DEF LoadActiveConfiguration, Moves
        <5> QED
          BY <3>1, <3>4, <4>1, <5>1, <5>2, ActivationKeepsOthers
      <4>2. CASE s \notin Managed
        BY <3>3, <3>4, <4>2 DEF KeepsOthers
      <4> QED
        BY <4>1, <4>2
    <3>5. \A k \in 2 .. Len(log') : k \in 2 .. Len(log) \/ k = Len(log) + 1
      BY <3>3
    <3> QED
      BY <1>6, <3>4, <3>5
  <2> QED
    BY <2>1, <2>2
<1> QED
  BY <1>2, <1>4, <1>7 DEF OthersInv

\* The Configuration Center has nothing of what a call has created, and its revisions
\* are no call's.
LEMMA AsideKeepsOthers ==
    ASSUME TypeOK, CallsInv, OthersInv, Grows, AdministratorActivates \/ UNCHANGED vars
    PROVE  OthersInv'
<1>1. /\ UNCHANGED <<call, session, touched, nextId>>
      /\ \A t \in Transactions : ActivatedBy(t)' = ActivatedBy(t)
  BY AdministratorOrder DEF AdministratorActivates, vars, ActivatedBy
<1>2. AllUnused'
  <2>1. CASE AdministratorActivates
    BY <2>1, AdministratorUnused DEF OthersInv
  <2>2. CASE UNCHANGED vars
    BY <2>2 DEF vars, OthersInv, AllUnused, Binds
  <2> QED
    BY <2>1, <2>2
<1>3. UNCHANGED log \/ \E cfg \in Edits(Active, AdminAttributes) : Adds(cfg, None)
  BY AdministratorRevision DEF vars
<1>4. ASSUME NEW t \in Managed PROVE EditsOwn(t)'
  <2>1. t \in Transactions /\ EditsOwn(t) /\ nextId \in Nat
    BY DEF Managed, OthersInv, TypeOK
  <2>2. ASSUME NEW c \in CertificateIds, Private(t, c), ActivatedBy(t)' = {}
        PROVE  /\ \A k \in 1 .. Len(log') : Free(log'[k].configuration, c)
               /\ \A u \in Transactions \ {t} : Free(session'[u].work, c)
    <3>1. /\ \A k \in 1 .. Len(log) : Free(log[k].configuration, c)
          /\ \A u \in Transactions \ {t} : Free(session[u].work, c)
      BY <1>1, <2>1, <2>2 DEF Private
    <3>2. Active \in Configurations /\ Free(Active, c)
      <4>1. Len(log) \in 1 .. Len(log)
        BY DEF TypeOK
      <4> QED
        BY <3>1, <4>1, RevisionType DEF Active
    <3>3. UNCHANGED log \/ \E cfg, by : Adds(cfg, by) /\ Free(cfg, c)
      BY <1>3, <3>2, EditsFree
    <3> QED
      BY <1>1, <3>1, <3>3, LogFree
  <2>3. \A c \in CertificateIds : c < nextId /\ Private(t, c) => Private(t, c)'
    BY <2>2 DEF Private
  <2> QED
    BY <1>1, <2>1, <2>3, OthersEditOwn
<1>5. \A k \in 2 .. Len(log) : KeepsOthers(k)'
  <2>1. \A t \in Managed : ActivatedBy(t) # {} => session[t].base > 0
    BY DEF Managed, CallsInv, Orderly, Reads
  <2> QED
    BY <1>1, <2>1, KeptOthers DEF OthersInv
<1>6. \A k \in 2 .. Len(log') : KeepsOthers(k)'
  <2>1. CASE UNCHANGED log
    BY <1>5, <2>1
  <2>2. ASSUME NEW cfg, Adds(cfg, None)
        PROVE  \A k \in 2 .. Len(log') : KeepsOthers(k)'
    <3>1. Len(log) \in Nat \ {0} /\ Len(log') = Len(log) + 1 /\ log'[Len(log) + 1].by = None
      BY <2>2, GrowsKeeps DEF Adds
    <3>2. ASSUME NEW n, n = Len(log) + 1 PROVE KeepsOthers(n)'
      BY <3>1, <3>2, LifecycleAssumption DEF KeepsOthers, Managed
    <3>3. \A k \in 2 .. Len(log') : k \in 2 .. Len(log) \/ k = Len(log) + 1
      BY <3>1
    <3> QED
      BY <1>5, <3>2, <3>3
  <2> QED
    BY <1>3, <2>1, <2>2
<1> QED
  BY <1>2, <1>4, <1>6 DEF OthersInv

LEMMA NextOthers ==
    /\ TypeOK /\ CallsInv /\ UpdatesInv /\ UpdatesInv' /\ InstallInv /\ RotateInv
    /\ OthersInv /\ [Next]_vars
    => OthersInv'
<1> SUFFICES ASSUME TypeOK, CallsInv, UpdatesInv, UpdatesInv', InstallInv, RotateInv,
                    OthersInv, [Next]_vars
             PROVE  OthersInv'
  OBVIOUS
<1>1. Grows
  BY StepGrows
<1>2. CASE \E s \in Transactions : Acts(s)
  BY <1>1, <1>2, ActsKeepOthers
<1>3. CASE AdministratorActivates \/ UNCHANGED vars
  BY <1>1, <1>3, AsideKeepsOthers
<1> QED
  BY <1>2, <1>3, Zenon DEF Next, Acts, Terminating

LEMMA InitOthers == Init => OthersInv
<1> SUFFICES ASSUME Init PROVE OthersInv
  OBVIOUS
<1>1. PICK c \in InitialConfigurations :
         /\ log = <<Revision(None, c, "", TRUE)>>
         /\ session = [s \in Transactions |->
              [state |-> "none", base |-> 0, work |-> c, validated |-> FALSE, late |-> FALSE]]
  BY Zenon DEF Init
<1>2. Unused(c, nextId)
  <2>1. nextId = FirstId /\ FirstId \in Nat /\ CertificateIds \subseteq Int
    BY LifecycleAssumption, ConfigurationAssumption DEF Init
  <2>2. ASSUME NEW i \in CertificateIds, i >= FirstId PROVE Free(c, i)
    <3>1. c \in Configurations
      BY LifecycleAssumption
    <3>2. \A v \in VirtualHosts : c.bound[v] \in CertificateIds \cup {NoCertificate}
      BY <3>1 DEF Configurations
    <3>3. \A v \in VirtualHosts : c.bound[v] # i
      BY <2>1, <2>2, <3>2, FreshAssumption DEF NoCertificate
    <3> QED
      BY <2>2, <3>3, FreshAssumption DEF Free
  <2> QED
    BY <2>1, <2>2 DEF Unused
<1>3. Len(log) = 1 /\ log[1].configuration = c
  BY <1>1 DEF Revision
<1>4. \A s \in Transactions : call[s].pc = "idle" /\ session[s].work = c
  BY <1>1 DEF Init, NoCall
<1>5. AllUnused
  BY <1>2, <1>3, <1>4 DEF AllUnused, Binds
<1>6. \A s \in Managed : EditsOwn(s)
  BY DEF Init, Managed, EditsOwn
<1> QED
  BY <1>3, <1>5, <1>6 DEF OthersInv

(***************************************************************************)
(* The others: the theorem.                                                *)
(***************************************************************************)
LEMMA OthersInvariant == Spec => []OthersInv
<1>1. /\ [](TypeOK /\ CallsInv /\ UpdatesInv /\ InstallInv /\ RotateInv)
      /\ Init /\ [][Next]_vars
      => []OthersInv
  BY InitOthers, NextOthers, PTL
<1> QED
  BY <1>1, TypeCorrect, CallsInvariant, UpdatesInvariant, InstallInvariant, RotateInvariant,
     PTL DEF Spec

\* A managed call that does not overwrite changes what a virtual host serves that is
\* not its target only if that one shares the resource the target selects, whoever
\* activates while it works: never through a resource it has created itself.
THEOREM OthersServed == Spec => []OthersKeepServing
<1>1. OthersInv => OthersKeepServing
  BY DEF OthersInv, KeepsOthers, OthersKeepServing, Loaded
<1> QED
  BY <1>1, OthersInvariant, PTL
==============================================================================
