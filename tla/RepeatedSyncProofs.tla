-------------------------- MODULE RepeatedSyncProofs --------------------------
(***************************************************************************)
(* Proofs about RepeatedSync, for every set of calls and attribute files.  *)
(* That a call leaves a resource that can be served does not follow from   *)
(* the call alone: one that finds its bundle stored writes nothing, and    *)
(* has opened the key with the caller's passphrase, not with the one the   *)
(* Gateway keeps. The inductive invariant adds that the Gateway's          *)
(* passphrase opens what it stores.                                        *)
(***************************************************************************)
EXTENDS RepeatedSync, GatewayConfigurationProofs

Inv ==
    /\ cfg \in Configurations
    /\ Stored \in Attributes
    /\ Openable(Stored)
    /\ StoredIsSound

\* A resource whose parts match and whose key some passphrase opens is sound if
\* its own passphrase opens it.
LEMMA OpenedSound ==
    ASSUME NEW a \in Attributes, Openable(a), NEW passphrase \in Passphrases \cup {Empty},
           ManagedCertificateFromResource(Redacted(a), passphrase) # {}
    PROVE  Sound(a)
  <1> DEFINE r == Redacted(a)
             p == IF passphrase = Empty THEN r.passphrase ELSE passphrase
  <1>1. /\ r.certType = a.certType /\ r.certificate = a.certificate
        /\ r.privateKey = a.privateKey /\ r.certificateChain = a.certificateChain
        /\ r.rootCaCertificate = a.rootCaCertificate /\ r.passphrase = Empty
    BY DEF Redacted, Attributes
  <1>x. ManagedCertificateFromResource(r, passphrase) =
          UNION {NewCertificateBundle(r.certType, r.certificate, k, r.certificateChain,
                                      r.rootCaCertificate) :
                   k \in ParseEncryptedKey(r.privateKey, p)}
    BY DEF ManagedCertificateFromResource
  <1>y. ManagedCertificateFromResource(r, passphrase) # {}
    OBVIOUS
  <1> HIDE DEF r, p
  <1>2. PICK k \in ParseEncryptedKey(r.privateKey, p) :
          NewCertificateBundle(r.certType, r.certificate, k, r.certificateChain,
                               r.rootCaCertificate) # {}
    BY <1>x, <1>y
  <1>3. k.pem = r.privateKey /\ Opens(r.privateKey, p)
    BY <1>2 DEF ParseEncryptedKey, Opens
  <1>4. TypeOrDefault(r.certType) \in CertificateTypes /\ CertificateMatchesKey(r.certificate, k)
        /\ ValidCertificateChain(r.certificate, r.certificateChain, r.rootCaCertificate)
    BY <1>2, BundleExists
  <1>5. KeyOf[r.certificate] = r.privateKey.key
    BY <1>3, <1>4 DEF CertificateMatchesKey
  <1>6. Matching(a)
    BY <1>1, <1>4, <1>5, Zenon DEF Matching
  <1>7. Opens(a.privateKey, a.passphrase)
    BY <1>1, <1>3, MaterialAssumption DEF p, Opens, Openable
  <1> QED  BY <1>6, <1>7, SoundMeans

\* A sound resource has a passphrase that opens it.
LEMMA SoundOpenable ==
    ASSUME NEW a, Sound(a)
    PROVE  Openable(a)
  BY SoundMeans DEF Opens, Openable

\* What a call finds or leaves is sound.
LEMMA SyncSound ==
    ASSUME Inv, NEW job \in Jobs, Sync(job)
    PROVE  Inv'
  <1>1. /\ job.operation \in {"sync", "leaf", "key"} /\ job.bundle \in Bundles
        /\ job.target = [kind |-> "id", id |-> Resource]
        /\ job.operation = "sync" => ValidBundle(job.bundle)
        /\ job.passphrase \in Passphrases \cup {Empty}
        /\ Resource \in CertificateIds
    BY RepeatedAssumption
  <1>2. job.target.kind = "id" /\ job.target.id = Resource
    BY <1>1
  <1>3. PICK p \in Plans(cfg, job) :
          cfg' = IF p.write THEN PatchIn(cfg, p.id, AttributesFromBundle(p.bundle)) ELSE cfg
    BY DEF Sync
  <1>4. PICK b \in DesiredBundles(cfg, job) :
          Replaceable(cfg, Resource, b) /\ p = Plan(cfg, job, Resource, b)
    BY <1>1, <1>2, <1>3 DEF Plans, SelectedIds
  <1>5. p.id = Resource /\ p.bundle = b /\ p.write = ~UpToDate(cfg, Resource, b)
    BY <1>2, <1>4 DEF Plan, NeedsNewCertificate
  <1>6. b \in Bundles
    BY <1>1, <1>4, DesiredType DEF Inv
  <1>7. ValidBundle(b)
    BY <1>1, <1>3, <1>5, PlansValid
  <1>8. CASE p.write
    <2> DEFINE sent == AttributesFromBundle(b)
    <2>1. sent \in Attributes /\ Sound(sent)
      BY <1>6, <1>7, AttributesType, BundleSound
    <2>2. Patched(Stored, sent) \in Attributes /\ Sound(Patched(Stored, sent))
      BY <2>1, PatchedType, PatchedSound DEF Inv
    <2>3. cfg' = PatchIn(cfg, Resource, sent)
      BY <1>3, <1>5, <1>8
    <2> HIDE DEF sent
    <2>4. cfg' \in Configurations /\ Stored' = Patched(Stored, sent)
      BY <1>1, <2>2, <2>3 DEF PatchIn, Configurations, Inv, Stored
    <2> QED  BY <2>2, <2>4, SoundOpenable DEF Inv, StoredIsSound
  <1>9. CASE ~p.write
    <2>1. cfg' = cfg
      BY <1>3, <1>9
    <2>2. ReadCertificate(cfg, Resource, b.key.passphrase) # {}
      BY <1>5, <1>9 DEF UpToDate
    <2>3. ManagedCertificateFromResource(Redacted(Stored), b.key.passphrase) # {}
      BY <2>2 DEF ReadCertificate, Stored
    <2>4. b.key.passphrase \in Passphrases \cup {Empty}
      BY <1>6 DEF Bundles, Keys
    <2>5. Sound(Stored)
      BY <2>3, <2>4, OpenedSound DEF Inv
    <2> QED  BY <2>1, <2>5 DEF Inv, StoredIsSound, Stored
  <1> QED  BY <1>8, <1>9

\* An update from files keeps what the Gateway can open: its key is not encrypted.
LEMMA UpdateKeeps ==
    ASSUME Inv, NEW files \in Files, UpdateFromFiles(files)
    PROVE  Inv'
  <1>1. files \in PEMFiles /\ files.key.encryption = Plain /\ Resource \in CertificateIds
    BY RepeatedAssumption
  <1>2. PICK a \in ReadSSLCertificateAttributes(files) :
          cfg' = [cfg EXCEPT !.certificates[Resource] = Updated(Stored, a)] /\ last' = None
    BY DEF UpdateFromFiles
  <1>3. files.cert # << >> /\ a.certType \in CertificateTypes
        /\ a = [certificate |-> Head(files.cert), privateKey |-> files.key,
                passphrase |-> Omitted, certificateChain |-> FileChain(files),
                rootCaCertificate |-> files.rootCA, certType |-> files.certType]
    BY <1>2 DEF ReadSSLCertificateAttributes, AttrsFromPEM
  <1>4. /\ Head(files.cert) \in Certificates /\ Tail(files.cert) \in Seq(Certificates)
        /\ files.key \in KeyPEMs /\ files.rootCA \in Certificates \cup {None}
        /\ files.chain \in Seq(Certificates) \cup {Omitted}
    BY <1>1, <1>3 DEF PEMFiles
  <1>5. FileChain(files) \in Seq(Certificates) \cup {Omitted}
    BY <1>4 DEF FileChain, ChainOf
  <1> DEFINE new == Updated(Stored, a)
  <1>6. new \in Attributes /\ new.privateKey = files.key
    <2>1. Stored \in Attributes
      BY DEF Inv
    <2>2. DOMAIN Stored = {"certificate", "privateKey", "passphrase", "certificateChain",
                           "rootCaCertificate", "certType"}
      BY <2>1 DEF Attributes
    <2>3. files.key # Omitted
      BY <1>4, OmittedAssumption
    <2>4. new = [certificate |-> new.certificate, privateKey |-> new.privateKey,
                 passphrase |-> new.passphrase, certificateChain |-> new.certificateChain,
                 rootCaCertificate |-> new.rootCaCertificate, certType |-> new.certType]
      BY <2>2 DEF Updated
    <2>5. /\ new.certificate \in {Stored.certificate, a.certificate}
          /\ new.privateKey = a.privateKey
          /\ new.passphrase = Stored.passphrase
          /\ new.certificateChain = (IF a.certificateChain = Omitted
                THEN Stored.certificateChain ELSE a.certificateChain)
          /\ new.rootCaCertificate \in {Stored.rootCaCertificate, a.rootCaCertificate}
          /\ new.certType \in {Stored.certType, a.certType}
      BY <1>3, <2>2, <2>3 DEF Updated
    <2> HIDE DEF new
    <2>6. new.certificateChain \in Seq(Certificates)
      BY <1>3, <1>5, <2>1, <2>5 DEF Attributes
    <2> QED  BY <1>3, <1>4, <2>1, <2>4, <2>5, <2>6 DEF Attributes
  <1> HIDE DEF new
  <1>7. cfg' \in Configurations /\ Stored' = new
    BY <1>1, <1>2, <1>6 DEF new, Configurations, Inv, Stored
  <1>8. Openable(new)
    BY <1>1, <1>6 DEF Openable
  <1> QED  BY <1>2, <1>6, <1>7, <1>8 DEF Inv, StoredIsSound

LEMMA InvInit == Init => Inv
  <1> SUFFICES ASSUME Init  PROVE  Inv
    OBVIOUS
  <1>1. PICK a \in InitialAttributes :
          cfg = [certificates |-> [i \in CertificateIds |-> IF i = Resource THEN a ELSE None],
                 bound |-> [v \in VirtualHosts |-> NoCertificate]]
    BY DEF Init
  <1>2. a \in Attributes /\ Openable(a) /\ Resource \in CertificateIds
    BY RepeatedAssumption
  <1>3. cfg \in Configurations /\ Stored = a
    BY <1>1, <1>2 DEF Configurations, Stored
  <1>4. StoredIsSound
    BY DEF Init, StoredIsSound
  <1> QED  BY <1>2, <1>3, <1>4 DEF Inv

LEMMA InvAlways == Spec => []Inv
  <1>1. Inv /\ [Next]_vars => Inv'
    <2>1. ASSUME Inv, NEW job \in Jobs, Sync(job)  PROVE  Inv'
      BY <2>1, SyncSound
    <2>2. ASSUME Inv, NEW files \in Files, UpdateFromFiles(files)  PROVE  Inv'
      BY <2>2, UpdateKeeps
    <2>3. Inv /\ UNCHANGED vars => Inv'
      BY DEF vars, Inv, StoredIsSound, Stored
    <2> QED  BY <2>1, <2>2, <2>3 DEF Next
  <1> QED  BY <1>1, InvInit, PTL DEF Spec

\* Whatever calls and updates there were before, a managed call that succeeds
\* leaves a resource that can be served, also when it finds nothing to write:
\* the key opens with the passphrase the Gateway has kept (sslCertificateAttributes,
\* omitempty), is the certificate's, and its chain holds.
THEOREM RepeatedSound == Spec => []StoredIsSound
  <1>1. Inv => StoredIsSound
    BY DEF Inv
  <1> QED  BY <1>1, InvAlways, PTL

\* What the decoded parts of a resource are.
LEMMA ManagedParts ==
    ASSUME NEW a \in Attributes, NEW passphrase,
           NEW m \in ManagedCertificateFromResource(Redacted(a), passphrase)
    PROVE  /\ m.certificate = a.certificate /\ m.key.pem = a.privateKey
           /\ m.chain = a.certificateChain /\ m.rootCA = a.rootCaCertificate
           /\ m.type = a.certType
  <1> DEFINE r == Redacted(a)
  <1>1. /\ r.certType = a.certType /\ r.certificate = a.certificate
        /\ r.privateKey = a.privateKey /\ r.certificateChain = a.certificateChain
        /\ r.rootCaCertificate = a.rootCaCertificate
        /\ TypeOrDefault(r.certType) = r.certType
    BY GivenType DEF Redacted, Attributes
  <1>2. m \in ManagedCertificateFromResource(r, passphrase)
    OBVIOUS
  <1> HIDE DEF r
  <1> DEFINE p == IF passphrase = Empty THEN r.passphrase ELSE passphrase
  <1>3. PICK k \in ParseEncryptedKey(r.privateKey, p) :
          m \in NewCertificateBundle(r.certType, r.certificate, k, r.certificateChain,
                                     r.rootCaCertificate)
    BY <1>2 DEF ManagedCertificateFromResource
  <1>4. k.pem = r.privateKey
    BY <1>3 DEF ParseEncryptedKey
  <1>5. /\ m.type = r.certType /\ m.certificate = r.certificate /\ m.key = k
        /\ m.chain = r.certificateChain /\ m.rootCA = r.rootCaCertificate
    BY <1>1, <1>3 DEF NewCertificateBundle
  <1> QED  BY <1>1, <1>4, <1>5

\* A call that replaces one half keeps the chain, the root CA, the type and the
\* other half of what is stored (SyncLeafCertificate, SyncKey), whatever files
\* the resource was made from.
THEOREM HalvesKept == Spec => OtherHalfIsKept
  <1> DEFINE Halves ==
        last' # None =>
          LET new == cfg'.certificates[Resource]
          IN  /\ last'.operation \in {"leaf", "key"} =>
                   /\ new.certificateChain = Stored.certificateChain
                   /\ new.rootCaCertificate = Stored.rootCaCertificate
                   /\ new.certType = Stored.certType
              /\ last'.operation = "leaf" => new.privateKey = Stored.privateKey
              /\ last'.operation = "key" => new.certificate = Stored.certificate
  <1>1. ASSUME Inv, NEW job \in Jobs, Sync(job)  PROVE  Halves
    <2>1. /\ job.operation \in {"sync", "leaf", "key"}
          /\ job.target = [kind |-> "id", id |-> Resource]
          /\ job.passphrase \in Passphrases \cup {Empty}
          /\ Resource \in CertificateIds
      BY RepeatedAssumption
    <2>2. job.target.kind = "id" /\ job.target.id = Resource
      BY <2>1
    <2>3. PICK p \in Plans(cfg, job) :
            /\ cfg' = IF p.write THEN PatchIn(cfg, p.id, AttributesFromBundle(p.bundle)) ELSE cfg
            /\ last' = job
      BY <1>1 DEF Sync
    <2>4. PICK b \in DesiredBundles(cfg, job) : p = Plan(cfg, job, Resource, b)
      BY <2>1, <2>2, <2>3 DEF Plans, SelectedIds
    <2>5. p.id = Resource /\ p.bundle = b
      BY <2>2, <2>4 DEF Plan, NeedsNewCertificate
    <2>6. SUFFICES ASSUME p.write, job.operation \in {"leaf", "key"}  PROVE  Halves
      BY <2>3 DEF Stored
    <2>7. PICK m \in ReadCertificate(cfg, Resource, job.passphrase) :
            b \in IF job.operation = "leaf" THEN Completed(job.bundle.certificate, m.key, m)
                  ELSE Completed(m.certificate, job.bundle.key, m)
      BY <2>2, <2>4, <2>6 DEF DesiredBundles, SelectedIds
    <2>8. /\ m.certificate = Stored.certificate /\ m.key.pem = Stored.privateKey
          /\ m.chain = Stored.certificateChain /\ m.rootCA = Stored.rootCaCertificate
          /\ m.type = Stored.certType
      BY <1>1, <2>7, ManagedParts DEF ReadCertificate, Inv, Stored
    <2>9. /\ b.chain = m.chain /\ b.rootCA = m.rootCA /\ b.type = m.type
          /\ job.operation = "leaf" => b.key = m.key
          /\ job.operation = "key" => b.certificate = m.certificate
      <3>1. m.type \in CertificateTypes
        BY <1>1, <2>8 DEF Inv, Attributes, Stored
      <3>2. TypeOrDefault(m.type) = m.type
        BY <3>1, GivenType
      <3> QED  BY <2>6, <2>7, <3>2 DEF Completed, NewCertificateBundle
    <2>10. cfg'.certificates[Resource] = Patched(Stored, AttributesFromBundle(b))
      BY <1>1, <2>1, <2>3, <2>5, <2>6 DEF PatchIn, Inv, Configurations, Stored
    <2>11. LET new == cfg'.certificates[Resource]
           IN  /\ new.certificate = b.certificate /\ new.privateKey = b.key.pem
               /\ new.certificateChain = b.chain /\ new.rootCaCertificate = b.rootCA
               /\ new.certType = b.type
      BY <2>10 DEF Patched, AttributesFromBundle
    <2> QED  BY <2>3, <2>8, <2>9, <2>11
  <1>2. ASSUME NEW files \in Files, UpdateFromFiles(files)  PROVE  Halves
    BY <1>2 DEF UpdateFromFiles
  <1>3. Inv /\ [Next]_vars => [Halves]_vars
    BY <1>1, <1>2 DEF Next
  <1> QED  BY <1>3, InvAlways, PTL DEF Spec, OtherHalfIsKept

\* attrs-from-pem and update: files leave a resource that can be served exactly if
\* they hold one, whatever it held; with a --chain without a CERTIFICATE block,
\* exactly if the chain stored before fits them.
THEOREM FilesServed == Spec => FilesLeaveServable
  <1> DEFINE chainAfter(files) == IF files.chain = << >> THEN Stored.certificateChain
                                  ELSE ChainOf(files)
  <1>1. ASSUME Inv, NEW files \in Files, UpdateFromFiles(files)
        PROVE  Sound(Stored') <=> ServableWith(files, chainAfter(files))
    <2>1. files \in PEMFiles /\ files.key.encryption = Plain /\ Resource \in CertificateIds
      BY RepeatedAssumption
    <2>2. PICK a \in ReadSSLCertificateAttributes(files) :
            cfg' = [cfg EXCEPT !.certificates[Resource] = Updated(Stored, a)]
      BY <1>1 DEF UpdateFromFiles
    <2>3. files.cert # << >> /\ a.certType \in CertificateTypes
          /\ a = [certificate |-> Head(files.cert), privateKey |-> files.key,
                  passphrase |-> Omitted, certificateChain |-> FileChain(files),
                  rootCaCertificate |-> files.rootCA, certType |-> files.certType]
      BY <2>2 DEF ReadSSLCertificateAttributes, AttrsFromPEM
    <2>4. /\ Head(files.cert) \in Certificates /\ Tail(files.cert) \in Seq(Certificates)
          /\ files.key \in KeyPEMs /\ files.rootCA \in Certificates \cup {None}
          /\ files.chain \in Seq(Certificates) \cup {Omitted}
      BY <2>1, <2>3 DEF PEMFiles
    <2>5. ChainOf(files) \in Seq(Certificates) /\ << >> \in Seq(Certificates)
      BY <2>4 DEF ChainOf
    <2>6. /\ files.chain = << >> => FileChain(files) = Omitted
          /\ files.chain # << >> => FileChain(files) = ChainOf(files) /\ FileChain(files) # Omitted
      BY <2>5, OmittedAssumption DEF FileChain
    <2>7. Stored' = Updated(Stored, a)
      BY <1>1, <2>1, <2>2 DEF Inv, Configurations, Stored
    <2>8. DOMAIN Stored = {"certificate", "privateKey", "passphrase", "certificateChain",
                           "rootCaCertificate", "certType"}
      BY <1>1 DEF Inv, Attributes
    <2>9. /\ a.certificate # Omitted /\ a.privateKey # Omitted
          /\ a.rootCaCertificate # Omitted /\ a.certType # Omitted
          /\ a.certificateChain = FileChain(files)
      BY <2>3, <2>4, OmittedAssumption
    <2>10. /\ (Stored').certificate = Head(files.cert) /\ (Stored').privateKey = files.key
           /\ (Stored').rootCaCertificate = files.rootCA /\ (Stored').certType = files.certType
           /\ (Stored').certificateChain = chainAfter(files)
      BY <2>3, <2>6, <2>7, <2>8, <2>9 DEF Updated
    <2> DEFINE chain == chainAfter(files)
               key == [pem |-> files.key, passphrase |-> Empty]
               bundles == NewCertificateBundle(files.certType, Head(files.cert), key, chain,
                                               files.rootCA)
    <2>11. (Stored').certificateChain = chain
      BY <2>10
    <2> HIDE DEF chain
    <2>12. ParseEncryptedKey(files.key, Empty) = {key}
      BY <2>1 DEF ParseEncryptedKey
    <2>13. ServableWith(files, chain) <=> bundles # {}
      BY <2>3, <2>12 DEF ServableWith
    <2>14. bundles # {} <=> /\ TypeOrDefault(files.certType) \in CertificateTypes
                            /\ KeyOf[Head(files.cert)] = files.key.key
                            /\ ValidCertificateChain(Head(files.cert), chain, files.rootCA)
      <3>1. CertificateMatchesKey(Head(files.cert), key) <=> KeyOf[Head(files.cert)] = files.key.key
        BY DEF CertificateMatchesKey
      <3> HIDE DEF key
      <3> QED  BY <3>1, BundleExists
    <2>15. Matching(Stored') <=> bundles # {}
      BY <2>10, <2>11, <2>14, Zenon DEF Matching
    <2>16. Opens((Stored').privateKey, (Stored').passphrase)
      BY <2>1, <2>10 DEF Opens
    <2>17. Sound(Stored') <=> ServableWith(files, chain)
      BY <2>13, <2>15, <2>16, SoundMeans, Zenon
    <2> QED  BY <2>17 DEF chain
  <1>2. Inv /\ [Next]_vars =>
          [\A files \in Files :
             UpdateFromFiles(files) =>
                (Sound(Stored') <=> ServableWith(files, chainAfter(files)))]_vars
    BY <1>1
  <1> QED  BY <1>2, InvAlways, PTL DEF Spec, FilesLeaveServable

(***************************************************************************)
(* The checksum, and the call that is repeated.                            *)
(***************************************************************************)
\* Two bundles with one checksum are one bundle: a resource that is taken to be
\* up to date has every part the caller wants.
THEOREM ChecksumIdentifies == Spec => []ChecksumIdentifiesBundle
  <1>1. ASSUME Inv,
               NEW m \in ManagedCertificateFromResource(Stored, Stored.passphrase),
               NEW j \in Jobs, j.operation = "sync", j.bundle.checksum = m.checksum
        PROVE  /\ j.bundle.certificate = m.certificate
               /\ j.bundle.key.pem.key = m.key.pem.key
               /\ j.bundle.chain = m.chain
               /\ j.bundle.rootCA = m.rootCA
               /\ j.bundle.type = m.type
    <2>1. j.bundle \in Bundles /\ ValidBundle(j.bundle)
      BY <1>1, RepeatedAssumption
    <2>2. m \in Bundles
      BY <1>1, ManagedType DEF Inv, Attributes
    <2>3. m.checksum = BundleChecksum(m.type, m.certificate, m.key, m.chain, m.rootCA)
      BY <1>1 DEF ManagedCertificateFromResource, NewCertificateBundle
    <2>4. j.bundle.checksum = BundleChecksum(j.bundle.type, j.bundle.certificate, j.bundle.key,
                                             j.bundle.chain, j.bundle.rootCA)
      BY <2>1 DEF ValidBundle, NewCertificateBundle
    <2>5. m.chain \in Seq(Certificates) /\ j.bundle.chain \in Seq(Certificates)
      BY <2>1, <2>2 DEF Bundles
    <2> QED  BY <1>1, <2>3, <2>4, <2>5, ChecksumInjective
  <1>2. Inv => ChecksumIdentifiesBundle
    BY <1>1 DEF ChecksumIdentifiesBundle
  <1> QED  BY <1>2, InvAlways, PTL

UpToDateInv ==
    (last # None /\ last.operation = "sync") =>
        last \in Jobs /\ UpToDate(cfg, Resource, last.bundle)

\* syncCertificateLocked: a complete synchronization that is repeated finds what
\* it has written, and nothing to do.
THEOREM SyncIdempotent == Spec => []SyncIsIdempotent
  <1>1. ASSUME Inv, NEW job \in Jobs, Sync(job)  PROVE  UpToDateInv'
    <2>1. SUFFICES ASSUME job.operation = "sync"
                   PROVE  UpToDate(cfg', Resource, job.bundle)
      BY <1>1 DEF UpToDateInv, Sync, UpToDate, ReadCertificate, Exists
    <2>2. /\ job.target = [kind |-> "id", id |-> Resource]
          /\ job.bundle \in Bundles /\ ValidBundle(job.bundle)
          /\ Resource \in CertificateIds
      BY <2>1, RepeatedAssumption
    <2>3. job.target.kind = "id" /\ job.target.id = Resource
      BY <2>2
    <2>4. PICK p \in Plans(cfg, job) :
            cfg' = IF p.write THEN PatchIn(cfg, p.id, AttributesFromBundle(p.bundle)) ELSE cfg
      BY <1>1 DEF Sync
    <2>5. p = Plan(cfg, job, Resource, job.bundle)
      BY <2>1, <2>3, <2>4 DEF Plans, SelectedIds, DesiredBundles
    <2>6. p.id = Resource /\ p.bundle = job.bundle /\ p.write = ~UpToDate(cfg, Resource, job.bundle)
      BY <2>3, <2>5 DEF Plan, NeedsNewCertificate
    <2>7. CASE ~p.write
      BY <2>4, <2>6, <2>7
    <2>8. CASE p.write
      <3> DEFINE a == Patched(Stored, AttributesFromBundle(job.bundle))
      <3>1. cfg'.certificates[Resource] = a
        BY <1>1, <2>2, <2>4, <2>6, <2>8 DEF PatchIn, Inv, Configurations, Stored
      <3>2. a \in Attributes
        BY <1>1, <2>2, AttributesType, PatchedType DEF Inv
      <3>3. \E m \in ManagedCertificateFromResource(Redacted(a), job.bundle.key.passphrase) :
                m.checksum = job.bundle.checksum
        BY <1>1, <2>2, WrittenUpToDate DEF Inv
      <3> HIDE DEF a
      <3>4. Exists(cfg', Resource)
        BY <2>2, <3>1, <3>2, ConfigurationAssumption DEF Exists
      <3> QED  BY <3>1, <3>3, <3>4 DEF UpToDate, ReadCertificate
    <2> QED  BY <2>7, <2>8
  <1>2. ASSUME NEW files \in Files, UpdateFromFiles(files)  PROVE  UpToDateInv'
    BY <1>2 DEF UpdateFromFiles, UpToDateInv
  <1>3. Inv /\ UpToDateInv /\ [Next]_vars => UpToDateInv'
    <2>1. UpToDateInv /\ UNCHANGED vars => UpToDateInv'
      BY DEF vars, UpToDateInv, UpToDate, ReadCertificate, Exists
    <2> QED  BY <1>1, <1>2, <2>1 DEF Next
  <1>4. Init => UpToDateInv
    BY DEF Init, UpToDateInv
  <1>5. Inv /\ UpToDateInv => SyncIsIdempotent
    <2> SUFFICES ASSUME Inv, UpToDateInv, last # None, last.operation = "sync"
                 PROVE  Satisfied(cfg, last)
      BY DEF SyncIsIdempotent
    <2>1. last \in Jobs /\ UpToDate(cfg, Resource, last.bundle)
      BY DEF UpToDateInv
    <2>2. /\ last.target = [kind |-> "id", id |-> Resource] /\ Resource \in CertificateIds
      BY <2>1, RepeatedAssumption
    <2>3. last.target.kind = "id" /\ last.target.id = Resource
      BY <2>2
    <2>4. Exists(cfg, Resource)
      BY <2>2, ConfigurationAssumption DEF Inv, Exists, Stored
    <2>5. Resolvable(cfg, last.target) /\ SelectedIds(cfg, last.target) = {Resource}
      BY <2>3, <2>4 DEF Resolvable, SelectedIds
    <2>6. Replaceable(cfg, Resource, last.bundle)
      BY <2>1 DEF Replaceable, UpToDate
    <2>7. DesiredBundles(cfg, last) = {last.bundle}
      BY DEF DesiredBundles
    <2>8. Plan(cfg, last, Resource, last.bundle) \in Plans(cfg, last)
      BY <2>5, <2>6, <2>7 DEF Plans
    <2>9. ~Plan(cfg, last, Resource, last.bundle).write
      BY <2>1 DEF Plan
    <2> QED  BY <2>8, <2>9 DEF Satisfied
  <1> QED  BY <1>3, <1>4, <1>5, InvAlways, PTL DEF Spec
=============================================================================
