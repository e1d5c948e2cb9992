------------------------ MODULE GatewayConfiguration ------------------------
(***************************************************************************)
(* The part of an Airlock Gateway configuration certificate management     *)
(* touches: the ssl-certificate resources and the certificate each virtual *)
(* host is bound to. The Gateway is not in this repository: its operations *)
(* are modelled from the requests the client sends, the replies it accepts *)
(* and what its comments and tests say of them. What the client computes   *)
(* from a configuration (which resource a target selects, what a call has  *)
(* to write) is translated from pkg/airlock/managed_certificate.go.        *)
(***************************************************************************)
EXTENDS CertificateMaterial, FiniteSets

CONSTANTS
    CertificateIds,  \* resource IDs; negative ones are built-in, 0 is none
    VirtualHosts,    \* the virtual-host resources
    Names,           \* the logical names a virtual host can have
    NameOf           \* the name of each virtual host: names can be shared

ASSUME ConfigurationAssumption ==
    /\ CertificateIds \subseteq Int \ {0}
    /\ NameOf \in [VirtualHosts -> Names]
    /\ None \notin Attributes

ASSUME FiniteAssumption == IsFiniteSet(VirtualHosts)

\* A virtual host refers to one certificate or none. An answer that lists
\* several is an error, one of those a request can fail with.
NoCertificate == 0

Configurations ==
    [certificates : [CertificateIds -> Attributes \cup {None}],
     bound : [VirtualHosts -> CertificateIds \cup {NoCertificate}]]

Exists(cfg, id) == id \in CertificateIds /\ cfg.certificates[id] # None

\* Every resource can be served.
SoundConfiguration(cfg) ==
    \A i \in CertificateIds : Exists(cfg, i) => Sound(cfg.certificates[i])

(***************************************************************************)
(* Requests that edit a working copy (external).                           *)
(***************************************************************************)
CreateIn(cfg, id, a) == [cfg EXCEPT !.certificates[id] = a]

PatchIn(cfg, id, a) == [cfg EXCEPT !.certificates[id] = Patched(@, a)]

ConnectIn(cfg, id, v) == [cfg EXCEPT !.bound[v] = id]

(***************************************************************************)
(* Activation (external): what the Gateway does with a working copy that   *)
(* was loaded from `base' when `active' is the running configuration.      *)
(* Certificates and bindings are the units of a merge.                     *)
(***************************************************************************)
ConflictFree(base, mine, theirs) ==
    /\ \A i \in CertificateIds :
          \/ mine.certificates[i] = base.certificates[i]
          \/ theirs.certificates[i] = base.certificates[i]
    /\ \A v \in VirtualHosts :
          \/ mine.bound[v] = base.bound[v]
          \/ theirs.bound[v] = base.bound[v]

Merged(base, mine, theirs) ==
    [certificates |-> [i \in CertificateIds |->
        IF mine.certificates[i] = base.certificates[i]
        THEN theirs.certificates[i] ELSE mine.certificates[i]],
     bound |-> [v \in VirtualHosts |->
        IF mine.bound[v] = base.bound[v] THEN theirs.bound[v] ELSE mine.bound[v]]]

\* The configuration that becomes active, or none when the Gateway answers
\* with a conflict.
Activated(options, outdated, base, mine, active) ==
    IF ~outdated \/ options.ignoreOutdatedConfiguration THEN {mine}
    ELSE IF options.autoMerge /\ ConflictFree(base, mine, active)
         THEN {Merged(base, mine, active)}
         ELSE {}

\* What the Configuration Center can make of a configuration in one activation.
Edits(cfg, attributes) ==
    {PatchIn(cfg, i, a) : i \in {j \in CertificateIds : j > 0 /\ Exists(cfg, j)},
                          a \in attributes}
        \cup {ConnectIn(cfg, i, v) : i \in {j \in CertificateIds : Exists(cfg, j)},
                                     v \in VirtualHosts}

ConflictPolicies == {"", "reject", "merge", "overwrite", "unsupported"}

\* Mutant: every policy but merge ignores that the working copy is outdated.
OverwritingOptions(policy) ==
    {[autoMerge |-> policy = "merge", ignoreOutdatedConfiguration |-> policy # "merge"]}

\* The request options of a policy; an unknown policy is an error.
RequestOptions(policy) ==
    {[autoMerge |-> policy = "merge",
      ignoreOutdatedConfiguration |-> policy = "overwrite"] :
        p \in {policy} \cap {"", "reject", "merge", "overwrite"}}

(***************************************************************************)
(* Targets, and what they select.                                          *)
(***************************************************************************)
Blank == "blank"

Targets ==
    [kind : {"id"}, id : CertificateIds \cup {0}]
        \cup [kind : {"virtualHost"}, name : Names \cup {Blank}]

ValidTarget(t) ==
    CASE t.kind = "id"          -> t.id # 0
      [] t.kind = "virtualHost" -> t.name # Blank

\* The virtual hosts with exactly the target's name. An ID selects none.
VirtualHostsOf(t) ==
    IF t.kind = "virtualHost" THEN {v \in VirtualHosts : NameOf[v] = t.name} ELSE {}

\* The ID a target selects: none when its virtual host has no certificate.
SelectedIds(cfg, t) ==
    IF t.kind = "id" THEN {t.id} ELSE {cfg.bound[v] : v \in VirtualHostsOf(t)}

\* Mutant: the first of several virtual hosts with the name is as good.
ResolvableByAny(cfg, t) ==
    /\ t.kind = "virtualHost" => VirtualHostsOf(t) # {}
    /\ \A id \in SelectedIds(cfg, t) :
          \/ Exists(cfg, id)
          \/ t.kind = "virtualHost" /\ id = NoCertificate

\* A name must select one virtual host, and the resource must be there.
Resolvable(cfg, t) ==
    /\ t.kind = "virtualHost" => Cardinality(VirtualHostsOf(t)) = 1
    /\ \A id \in SelectedIds(cfg, t) :
          \/ Exists(cfg, id)
          \/ t.kind = "virtualHost" /\ id = NoCertificate

(***************************************************************************)
(* A job is one call of the managed lifecycle API: its operation and its   *)
(* arguments. A leaf-only job uses the certificate of `bundle', a key-only *)
(* job its key, and `passphrase' opens the key the Gateway stores.         *)
(***************************************************************************)
\* Mutant: the bundle is not validated again.
ValidTargetOnly(j) == j.operation # "create" => ValidTarget(j.target)

\* What a call accepts before its first request.
ValidArguments(j) ==
    /\ j.operation # "create" => ValidTarget(j.target)
    /\ j.operation \in {"sync", "create"} => ValidBundle(j.bundle)

ReadCertificate(cfg, id, passphrase) ==
    IF Exists(cfg, id)
    THEN ManagedCertificateFromResource(Redacted(cfg.certificates[id]), passphrase)
    ELSE {}

\* GetManagedCertificate decodes what the target selects.
Readable(cfg, job) ==
    /\ Resolvable(cfg, job.target)
    /\ \E id \in SelectedIds(cfg, job.target) :
          ReadCertificate(cfg, id, job.passphrase) # {}

\* Mutant: the CA material is not taken over from the resource.
CompletedWithoutCAs(certificate, key, m) ==
    NewCertificateBundle(m.type, certificate, key, << >>, None)

\* A new certificate or key with everything the decoded resource m has besides.
Completed(certificate, key, m) ==
    NewCertificateBundle(m.type, certificate, key, m.chain, m.rootCA)

\* The bundle a call synchronizes: its own, or the new half completed with
\* the half that is retained. Empty: the call fails.
DesiredBundles(cfg, job) ==
    LET managed == UNION {ReadCertificate(cfg, id, job.passphrase) :
                            id \in SelectedIds(cfg, job.target)}
    IN  CASE job.operation \in {"sync", "create"} -> {job.bundle}
          [] job.operation = "leaf" ->
                UNION {Completed(job.bundle.certificate, m.key, m) : m \in managed}
          [] job.operation = "key" ->
                UNION {Completed(m.certificate, job.bundle.key, m) : m \in managed}
          [] OTHER -> {}

\* Mutant: the keys are compared, not the complete bundles.
KeyUpToDate(cfg, id, b) ==
    \E m \in ReadCertificate(cfg, id, b.key.passphrase) : m.key.pem.key = b.key.pem.key

\* The resource holds the bundle already.
UpToDate(cfg, id, b) ==
    \E m \in ReadCertificate(cfg, id, b.key.passphrase) : m.checksum = b.checksum

\* A resource that cannot be decoded is replaced only if its key is encrypted.
Replaceable(cfg, id, b) ==
    \/ id = NoCertificate
    \/ ReadCertificate(cfg, id, b.key.passphrase) # {}
    \/ EncryptedPrivateKeyPEM(cfg.certificates[id].privateKey)

\* Mutant: only a virtual host without a certificate gets a new one.
NeedsFirstCertificate(job, id) == job.target.kind = "virtualHost" /\ id = NoCertificate

\* A virtual host gets a new certificate if it has none, and in place of a
\* built-in one, which cannot be patched.
NeedsNewCertificate(job, id) == job.target.kind = "virtualHost" /\ id <= NoCertificate

\* What a call has to do: write `bundle' to the resource `id' (create one when
\* 0) and bind the virtual hosts `hosts' to it.
Plan(cfg, job, id, b) ==
    [write  |-> ~UpToDate(cfg, id, b),
     id     |-> IF NeedsNewCertificate(job, id) THEN NoCertificate ELSE id,
     hosts  |-> IF NeedsNewCertificate(job, id) THEN VirtualHostsOf(job.target) ELSE {},
     bundle |-> b]

Creation(b) == [write |-> TRUE, id |-> NoCertificate, hosts |-> {}, bundle |-> b]

\* Empty when the call fails before it writes anything.
Plans(cfg, job) ==
    IF job.operation = "create" THEN {Creation(job.bundle)}
    ELSE IF Resolvable(cfg, job.target)
         THEN UNION {{Plan(cfg, job, id, b) :
                        b \in {d \in DesiredBundles(cfg, job) : Replaceable(cfg, id, d)}} :
                          id \in SelectedIds(cfg, job.target)}
         ELSE {}

\* A configuration in which a call has nothing to do but succeeds.
Satisfied(cfg, job) ==
    IF job.operation = "get" THEN Readable(cfg, job)
    ELSE \E p \in Plans(cfg, job) : ~p.write

\* The resource of a plan written, under the ID `id'.
WriteIn(cfg, p, id) ==
    IF p.id = NoCertificate THEN CreateIn(cfg, id, AttributesFromBundle(p.bundle))
    ELSE PatchIn(cfg, id, AttributesFromBundle(p.bundle))

PlanRecords ==
    [write : BOOLEAN, id : CertificateIds \cup {NoCertificate},
     hosts : SUBSET VirtualHosts, bundle : Bundles]
=============================================================================
