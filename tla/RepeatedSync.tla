---------------------------- MODULE RepeatedSync ----------------------------
(***************************************************************************)
(* One ssl-certificate resource that managed calls synchronize and the     *)
(* command line updates from attribute files, again and again, each alone  *)
(* on the Gateway and without a failed request: every combination of leaf, *)
(* chain, root CA and key encoding after every other. What remains of what *)
(* was there before is what a PATCH omits: the passphrase, or the chain.   *)
(* The command line checks no pair: a file can leave a key that is not the *)
(* certificate's.                                                          *)
(***************************************************************************)
EXTENDS GatewayConfiguration, AttributeFiles

CONSTANTS
    Resource,           \* the ID of the resource
    InitialAttributes,  \* what it can hold at the start
    Jobs,               \* the calls that address it by its ID
    Files               \* what the command line makes its updates from

\* The Gateway stores no encrypted key that its passphrase does not open, but
\* the client cannot open them all.
Openable(a) == a.privateKey.encryption \in {Plain, Legacy, a.passphrase}

ASSUME RepeatedAssumption ==
    /\ Resource \in CertificateIds
    /\ \A a \in InitialAttributes : a \in Attributes /\ Openable(a)
    /\ \A j \in Jobs :
          /\ j.operation \in {"sync", "leaf", "key"}
          /\ j.target = [kind |-> "id", id |-> Resource]
          /\ j.bundle \in Bundles
          /\ j.operation = "sync" => ValidBundle(j.bundle)
          /\ j.passphrase \in Passphrases \cup {Empty}
    /\ Files \subseteq PEMFiles
    \* attrs-from-pem has no flag for a passphrase.
    /\ \A f \in Files : f.key.encryption = Plain

VARIABLES
    cfg,  \* the active configuration
    last  \* the last step, if it was a call that succeeded, or None

vars == <<cfg, last>>

Stored == cfg.certificates[Resource]

Init ==
    /\ \E a \in InitialAttributes :
          cfg = [certificates |-> [i \in CertificateIds |-> IF i = Resource THEN a ELSE None],
                 bound |-> [v \in VirtualHosts |-> NoCertificate]]
    /\ last = None

\* A call that fails leaves everything as it is.
Sync(job) ==
    \E p \in Plans(cfg, job) :
        /\ cfg' = IF p.write THEN PatchIn(cfg, p.id, AttributesFromBundle(p.bundle)) ELSE cfg
        /\ last' = job

\* attrs-from-pem and update --attrs --activate.
UpdateFromFiles(files) ==
    \E a \in ReadSSLCertificateAttributes(files) :
        /\ cfg' = [cfg EXCEPT !.certificates[Resource] = Updated(Stored, a)]
        /\ last' = None

Next == (\E job \in Jobs : Sync(job)) \/ (\E files \in Files : UpdateFromFiles(files))

Spec == Init /\ [][Next]_vars

\* What a call leaves behind can be served: no sequence of calls and updates,
\* of encrypted and plain keys, leaves a passphrase on the Gateway that does not
\* open the key, and no call builds on a pair that does not match.
StoredIsSound == last # None => Sound(Stored)

\* A complete synchronization that is repeated finds nothing to do.
SyncIsIdempotent ==
    (last # None /\ last.operation = "sync") => Satisfied(cfg, last)

\* bundleChecksum: two bundles with one checksum are one bundle, so a resource
\* that is taken to be up to date has every part the caller wants.
ChecksumIdentifiesBundle ==
    \A m \in ManagedCertificateFromResource(Stored, Stored.passphrase) :
        \A j \in Jobs :
            (j.operation = "sync" /\ j.bundle.checksum = m.checksum) =>
                /\ j.bundle.certificate = m.certificate
                /\ j.bundle.key.pem.key = m.key.pem.key
                /\ j.bundle.chain = m.chain
                /\ j.bundle.rootCA = m.rootCA
                /\ j.bundle.type = m.type

\* SyncLeafCertificate and SyncKey keep what they do not replace.
OtherHalfIsKept ==
    [][last' # None =>
       LET new == cfg'.certificates[Resource]
       IN  /\ last'.operation \in {"leaf", "key"} =>
                /\ new.certificateChain = Stored.certificateChain
                /\ new.rootCaCertificate = Stored.rootCaCertificate
                /\ new.certType = Stored.certType
           /\ last'.operation = "leaf" => new.privateKey = Stored.privateKey
           /\ last'.operation = "key" => new.certificate = Stored.certificate]_vars

\* docs/CLI.md: "explicitly empty fields are cleared". An update leaves a certificate
\* that can be served exactly if the files hold one, whatever was stored before:
\* nothing of its root CA or chain remains. Only a --chain without a CERTIFICATE
\* block is no empty field: the new leaf is served with the old chain, or not.
FilesLeaveServable ==
    [][\A files \in Files :
          UpdateFromFiles(files) =>
             (Sound(Stored') <=>
                 ServableWith(files, IF files.chain = << >> THEN Stored.certificateChain
                                     ELSE ChainOf(files)))]_vars
=============================================================================
