---------------------- MODULE GatewayConfigurationProofs ----------------------
(***************************************************************************)
(* Lemmas about certificate material and Gateway configurations: what the  *)
(* operators of the two modules return.                                    *)
(***************************************************************************)
EXTENDS GatewayConfiguration, SequenceTheorems, FiniteSetTheorems, TLAPS

\* A type that is given is no default.
LEMMA GivenType ==
    ASSUME NEW type \in CertificateTypes
    PROVE  TypeOrDefault(type) = type
  BY MaterialAssumption DEF TypeOrDefault, CertificateTypes

\* NewCertificateBundle, of typed arguments, returns typed bundles.
LEMMA BundleType ==
    ASSUME NEW type, NEW certificate \in Certificates, NEW key \in Keys,
           NEW chain \in Seq(Certificates), NEW root \in Certificates \cup {None}
    PROVE  NewCertificateBundle(type, certificate, key, chain, root) \subseteq Bundles
<1> DEFINE given == TypeOrDefault(type)
<1> HIDE DEF given
<1> SUFFICES ASSUME given \in CertificateTypes
             PROVE  [type |-> given, certificate |-> certificate, key |-> key,
                     chain |-> chain, rootCA |-> root,
                     checksum |-> BundleChecksum(given, certificate, key, chain, root)] \in Bundles
  BY DEF NewCertificateBundle, given
<1> DEFINE Part == CertificateTypes \cup Certificates \cup PrivateKeys \cup {None}
<1>1. <<given, certificate, key.pem.key>> \in Seq(Part) /\ <<root>> \in Seq(Part)
  BY DEF Keys, KeyPEMs
<1>2. chain \in Seq(Part)
  BY SMT
<1>3. BundleChecksum(given, certificate, key, chain, root) \in Seq(Part)
  BY <1>1, <1>2, ConcatProperties, Zenon DEF BundleChecksum
<1> HIDE DEF Part
<1> QED
  BY <1>3 DEF Bundles, Part

\* ParseEncryptedKey returns typed keys.
LEMMA KeyType ==
    ASSUME NEW pem \in KeyPEMs, NEW passphrase \in Passphrases \cup {Empty}
    PROVE  ParseEncryptedKey(pem, passphrase) \subseteq Keys
  BY DEF ParseEncryptedKey, Keys

\* What a bundle is written as is typed.
LEMMA AttributesType ==
    ASSUME NEW b \in Bundles
    PROVE  AttributesFromBundle(b) \in Attributes
  BY DEF AttributesFromBundle, Attributes, Bundles, Keys

\* Whatever a resource decodes to is a typed bundle.
LEMMA ManagedType ==
    ASSUME NEW a \in Attributes, NEW passphrase \in Passphrases \cup {Empty}
    PROVE  ManagedCertificateFromResource(a, passphrase) \subseteq Bundles
<1> DEFINE p == IF passphrase = Empty THEN a.passphrase ELSE passphrase
<1>1. /\ a.privateKey \in KeyPEMs /\ p \in Passphrases \cup {Empty}
      /\ a.certificate \in Certificates /\ a.certificateChain \in Seq(Certificates)
      /\ a.rootCaCertificate \in Certificates \cup {None}
  BY DEF Attributes
<1>2. ParseEncryptedKey(a.privateKey, p) \subseteq Keys
  BY <1>1, KeyType
<1> HIDE DEF p
<1>3. ASSUME NEW k \in ParseEncryptedKey(a.privateKey, p)
      PROVE  NewCertificateBundle(a.certType, a.certificate, k, a.certificateChain,
                                  a.rootCaCertificate) \subseteq Bundles
  BY <1>1, <1>2, BundleType
<1> QED
  BY <1>3 DEF ManagedCertificateFromResource, p

\* A PATCH leaves typed attributes.
LEMMA PatchedType ==
    ASSUME NEW a \in Attributes, NEW sent \in Attributes
    PROVE  Patched(a, sent) \in Attributes
  BY DEF Patched, Attributes

\* The requests that write a resource of a working copy leave a configuration.
LEMMA CertificateEditType ==
    ASSUME NEW cfg \in Configurations, NEW id \in CertificateIds, NEW a \in Attributes
    PROVE  /\ CreateIn(cfg, id, a) \in Configurations
           /\ Exists(cfg, id) => PatchIn(cfg, id, a) \in Configurations
<1>1. Exists(cfg, id) => Patched(cfg.certificates[id], a) \in Attributes
  BY PatchedType DEF Exists, Configurations
<1> QED
  BY <1>1 DEF CreateIn, PatchIn, Configurations

\* The request that connects a virtual host leaves a configuration.
LEMMA ConnectType ==
    ASSUME NEW cfg \in Configurations, NEW id \in CertificateIds \cup {NoCertificate},
           NEW v \in VirtualHosts
    PROVE  ConnectIn(cfg, id, v) \in Configurations
  BY DEF ConnectIn, Configurations

\* What the Configuration Center makes of a configuration is one.
LEMMA EditsType ==
    ASSUME NEW cfg \in Configurations, NEW attributes \in SUBSET Attributes
    PROVE  Edits(cfg, attributes) \subseteq Configurations
<1>1. ASSUME NEW i \in CertificateIds, Exists(cfg, i), NEW a \in attributes
      PROVE  PatchIn(cfg, i, a) \in Configurations
  <2>1. Patched(cfg.certificates[i], a) \in Attributes
    BY <1>1, PatchedType DEF Exists, Configurations
  <2> QED
    BY <2>1 DEF PatchIn, Configurations
<1>2. ASSUME NEW i \in CertificateIds, NEW v \in VirtualHosts
      PROVE  ConnectIn(cfg, i, v) \in Configurations
  BY ConnectType
<1> QED
  BY <1>1, <1>2 DEF Edits

\* An activation makes a configuration of configurations.
LEMMA ActivatedType ==
    ASSUME NEW base \in Configurations, NEW mine \in Configurations,
           NEW active \in Configurations, NEW options, NEW outdated
    PROVE  Activated(options, outdated, base, mine, active) \subseteq Configurations
<1>1. Merged(base, mine, active) \in Configurations
  BY DEF Merged, Configurations
<1> QED
  BY <1>1 DEF Activated

\* Reading a resource of a configuration returns typed bundles.
LEMMA ReadType ==
    ASSUME NEW cfg \in Configurations, NEW id, NEW passphrase \in Passphrases \cup {Empty}
    PROVE  ReadCertificate(cfg, id, passphrase) \subseteq Bundles
<1>1. ASSUME Exists(cfg, id)
      PROVE  Redacted(cfg.certificates[id]) \in Attributes
  BY <1>1 DEF Exists, Configurations, Redacted, Attributes
<1> QED
  BY <1>1, ManagedType DEF ReadCertificate

\* Completing a new half with the retained half returns typed bundles.
LEMMA CompletedType ==
    ASSUME NEW certificate \in Certificates, NEW key \in Keys, NEW m \in Bundles
    PROVE  Completed(certificate, key, m) \subseteq Bundles
<1>1. m.chain \in Seq(Certificates) /\ m.rootCA \in Certificates \cup {None}
  BY DEF Bundles
<1> QED
  BY <1>1, BundleType DEF Completed

\* The bundles a call synchronizes are typed.
LEMMA DesiredType ==
    ASSUME NEW cfg \in Configurations, NEW job, job.bundle \in Bundles,
           job.passphrase \in Passphrases \cup {Empty}
    PROVE  DesiredBundles(cfg, job) \subseteq Bundles
<1> DEFINE managed == UNION {ReadCertificate(cfg, id, job.passphrase) :
                               id \in SelectedIds(cfg, job.target)}
<1>1. managed \subseteq Bundles
  BY ReadType
<1>2. ASSUME NEW m \in managed
      PROVE  /\ Completed(job.bundle.certificate, m.key, m) \subseteq Bundles
             /\ Completed(m.certificate, job.bundle.key, m) \subseteq Bundles
  <2>1. m \in Bundles /\ m.key \in Keys /\ m.certificate \in Certificates
    BY <1>1 DEF Bundles
  <2>2. job.bundle.certificate \in Certificates /\ job.bundle.key \in Keys
    BY DEF Bundles
  <2> QED
    BY <2>1, <2>2, CompletedType
<1> HIDE DEF managed
<1>3. UNION {Completed(job.bundle.certificate, m.key, m) : m \in managed} \subseteq Bundles
  BY <1>2
<1>4. UNION {Completed(m.certificate, job.bundle.key, m) : m \in managed} \subseteq Bundles
  BY <1>2
<1>5. CASE job.operation \in {"sync", "create"}
  BY <1>5 DEF DesiredBundles
<1>6. CASE job.operation = "leaf"
  BY <1>6, <1>3 DEF DesiredBundles, managed
<1>7. CASE job.operation = "key"
  BY <1>7, <1>4 DEF DesiredBundles, managed
<1>8. CASE job.operation \notin {"sync", "create", "leaf", "key"}
  BY <1>8 DEF DesiredBundles
<1> QED
  BY <1>5, <1>6, <1>7, <1>8

\* What a call plans is typed, writes a bundle the call may synchronize, and
\* patches only a resource that is there.
LEMMA PlansType ==
    ASSUME NEW cfg \in Configurations, NEW job, job.bundle \in Bundles,
           job.target \in Targets, job.passphrase \in Passphrases \cup {Empty},
           NEW p \in Plans(cfg, job)
    PROVE  /\ p \in PlanRecords
           /\ p.id = NoCertificate \/ Exists(cfg, p.id)
<1>1. VirtualHostsOf(job.target) \in SUBSET VirtualHosts
  BY DEF VirtualHostsOf
<1>2. CASE job.operation = "create"
  <2>1. p = Creation(job.bundle)
    BY <1>2 DEF Plans
  <2> QED
    BY <2>1 DEF Creation, PlanRecords, NoCertificate
<1>3. CASE job.operation # "create"
  <2>1. Resolvable(cfg, job.target)
    BY <1>3 DEF Plans
  <2>2. PICK id \in SelectedIds(cfg, job.target) :
               \E b \in DesiredBundles(cfg, job) : p = Plan(cfg, job, id, b)
    BY <1>3, <2>1 DEF Plans
  <2>3. PICK b \in DesiredBundles(cfg, job) : p = Plan(cfg, job, id, b)
    BY <2>2
  <2>4. b \in Bundles
    BY DesiredType
  <2>5. id = NoCertificate \/ Exists(cfg, id)
    BY <2>1 DEF Resolvable
  <2>6. /\ p.id = NoCertificate \/ p.id = id
        /\ p.hosts \in SUBSET VirtualHosts
        /\ p.bundle = b
        /\ p.write \in BOOLEAN
        /\ p = [write |-> p.write, id |-> p.id, hosts |-> p.hosts, bundle |-> p.bundle]
    BY <1>1, <2>3 DEF Plan
  <2>7. p.id \in CertificateIds \cup {NoCertificate}
    BY <2>5, <2>6 DEF Exists
  <2> QED
    BY <2>4, <2>5, <2>6, <2>7 DEF PlanRecords
<1> QED
  BY <1>2, <1>3

\* The parts of the bundle the constructor returns.
LEMMA BundleParts ==
    ASSUME NEW type, NEW certificate, NEW key, NEW chain, NEW root,
           NEW b \in NewCertificateBundle(type, certificate, key, chain, root)
    PROVE  /\ b.type = TypeOrDefault(type) /\ b.certificate = certificate /\ b.key = key
           /\ b.chain = chain /\ b.rootCA = root
<1> DEFINE given == TypeOrDefault(type)
           sum   == BundleChecksum(given, certificate, key, chain, root)
<1>1. b = [type |-> given, certificate |-> certificate, key |-> key, chain |-> chain,
           rootCA |-> root, checksum |-> sum]
  BY DEF NewCertificateBundle
<1> HIDE DEF given, sum
<1>2. /\ b.type = given /\ b.certificate = certificate /\ b.key = key
      /\ b.chain = chain /\ b.rootCA = root
  BY <1>1
<1> QED
  BY <1>2 DEF given

\* When the constructor returns a bundle.
LEMMA BundleExists ==
    ASSUME NEW type, NEW certificate, NEW key, NEW chain, NEW root
    PROVE  NewCertificateBundle(type, certificate, key, chain, root) # {} <=>
               /\ TypeOrDefault(type) \in CertificateTypes
               /\ CertificateMatchesKey(certificate, key)
               /\ ValidCertificateChain(certificate, chain, root)
<1> DEFINE given == TypeOrDefault(type)
           sum   == BundleChecksum(given, certificate, key, chain, root)
           made  == [type |-> given, certificate |-> certificate, key |-> key, chain |-> chain,
                     rootCA |-> root, checksum |-> sum]
           fits(b) == /\ b.type \in CertificateTypes
                      /\ CertificateMatchesKey(certificate, key)
                      /\ ValidCertificateChain(certificate, chain, root)
<1>1. NewCertificateBundle(type, certificate, key, chain, root) = {b \in {made} : fits(b)}
  BY DEF NewCertificateBundle
<1> HIDE DEF given, sum
<1>2. made.type = given
  OBVIOUS
<1> HIDE DEF made
<1>3. NewCertificateBundle(type, certificate, key, chain, root) # {} <=> fits(made)
  BY <1>1
<1> QED
  BY <1>2, <1>3 DEF given

\* What the constructor returns passes the check every call repeats.
LEMMA BundleValid ==
    ASSUME NEW type, NEW certificate, NEW key, NEW chain, NEW root,
           NEW b \in NewCertificateBundle(type, certificate, key, chain, root)
    PROVE  ValidBundle(b)
<1> DEFINE given == TypeOrDefault(type)
           made(t) == [type |-> t, certificate |-> certificate, key |-> key, chain |-> chain,
                       rootCA |-> root, checksum |-> BundleChecksum(t, certificate, key, chain, root)]
<1>1. b = made(given) /\ given \in CertificateTypes
  BY DEF NewCertificateBundle
<1>2. TypeOrDefault(given) = given
  BY <1>1, GivenType
<1>3. made(given) \in NewCertificateBundle(given, certificate, key, chain, root)
  BY <1>1, <1>2 DEF NewCertificateBundle
<1> HIDE DEF given
<1>4. /\ b.type = given /\ b.certificate = certificate /\ b.key = key
      /\ b.chain = chain /\ b.rootCA = root
      /\ b.checksum = BundleChecksum(given, certificate, key, chain, root)
  BY <1>1
<1> QED
  BY <1>3, <1>4 DEF ValidBundle

\* Whatever half of a resource a call completes, it plans a valid bundle.
LEMMA PlansValid ==
    ASSUME NEW cfg, NEW job,
           job.operation \in {"sync", "create"} => ValidBundle(job.bundle),
           NEW p \in Plans(cfg, job)
    PROVE  ValidBundle(p.bundle)
<1>1. CASE job.operation = "create"
  BY <1>1 DEF Plans, Creation
<1>2. CASE job.operation # "create"
  <2>1. PICK b, id : b \in DesiredBundles(cfg, job) /\ p = Plan(cfg, job, id, b)
    BY <1>2 DEF Plans
  <2>2. p.bundle = b
    BY <2>1 DEF Plan
  <2>3. CASE job.operation = "sync"
    BY <2>1, <2>2, <2>3 DEF DesiredBundles
  <2>4. CASE job.operation \in {"leaf", "key"}
    <3>1. PICK certificate, key, m : b \in Completed(certificate, key, m)
      BY <2>1, <2>4 DEF DesiredBundles
    <3> QED
      BY <2>2, <3>1, BundleValid DEF Completed
  <2>5. CASE job.operation \notin {"sync", "create", "leaf", "key"}
    BY <2>1, <2>5 DEF DesiredBundles
  <2> QED
    BY <1>2, <2>3, <2>4, <2>5
<1> QED
  BY <1>1, <1>2

(***************************************************************************)
(* What can be served.                                                     *)
(***************************************************************************)
\* A passphrase opens a PEM private key.
Opens(pem, passphrase) ==
    pem.encryption = Plain \/ (pem.encryption # Legacy /\ pem.encryption = passphrase)

\* The certificate, the key and the chain of attributes belong together.
Matching(a) ==
    /\ TypeOrDefault(a.certType) \in CertificateTypes
    /\ KeyOf[a.certificate] = a.privateKey.key
    /\ ValidCertificateChain(a.certificate, a.certificateChain, a.rootCaCertificate)

\* A resource is sound exactly if its parts match and its passphrase opens its key.
LEMMA SoundMeans ==
    ASSUME NEW a
    PROVE  Sound(a) <=> Matching(a) /\ Opens(a.privateKey, a.passphrase)
<1> DEFINE k == [pem |-> a.privateKey, passphrase |-> a.passphrase]
           bundles == NewCertificateBundle(a.certType, a.certificate, k, a.certificateChain,
                                           a.rootCaCertificate)
<1>1. ParseEncryptedKey(a.privateKey, a.passphrase) =
          IF Opens(a.privateKey, a.passphrase) THEN {k} ELSE {}
  BY DEF ParseEncryptedKey, Opens
<1>2. bundles # {} <=> Matching(a)
  BY BundleExists DEF Matching, CertificateMatchesKey
<1>3. ManagedCertificateFromResource(a, a.passphrase) =
          UNION {NewCertificateBundle(a.certType, a.certificate, key, a.certificateChain,
                                      a.rootCaCertificate) :
                   key \in ParseEncryptedKey(a.privateKey, a.passphrase)}
  BY DEF ManagedCertificateFromResource
<1> HIDE DEF k
<1>4. ManagedCertificateFromResource(a, a.passphrase) =
          IF Opens(a.privateKey, a.passphrase) THEN bundles ELSE {}
  BY <1>1, <1>3
<1> QED
  BY <1>2, <1>4 DEF Sound

\* A PATCH with sound attributes leaves a sound resource, whatever passphrase
\* the resource keeps when the request omits an empty one.
LEMMA PatchedSound ==
    ASSUME NEW stored \in Attributes, NEW sent \in Attributes, Sound(sent)
    PROVE  Sound(Patched(stored, sent))
<1> DEFINE new == Patched(stored, sent)
<1>1. /\ new.certType = sent.certType /\ new.certificate = sent.certificate
      /\ new.privateKey = sent.privateKey
      /\ new.certificateChain = sent.certificateChain
      /\ new.rootCaCertificate = sent.rootCaCertificate
      /\ new.passphrase = IF sent.passphrase = Empty THEN stored.passphrase
                          ELSE sent.passphrase
  BY DEF Patched, Attributes
<1>2. Matching(sent) /\ Opens(sent.privateKey, sent.passphrase)
  BY SoundMeans
<1>3. sent.privateKey.encryption \in Passphrases \cup {Plain, Legacy}
  BY DEF Attributes, KeyPEMs
<1>4. sent.passphrase = Empty => sent.privateKey.encryption = Plain
  BY <1>2, <1>3, MaterialAssumption DEF Opens
<1> HIDE DEF new
<1>5. Opens(new.privateKey, new.passphrase)
  BY <1>1, <1>2, <1>4 DEF Opens
<1>6. Matching(new)
  BY <1>1, <1>2, Zenon DEF Matching
<1>7. Sound(new)
  BY <1>5, <1>6, SoundMeans
<1> QED
  BY <1>7 DEF new

\* What a valid bundle is written as is sound: its key was parsed with the
\* passphrase it is sent with.
LEMMA BundleSound ==
    ASSUME NEW b \in Bundles, ValidBundle(b)
    PROVE  Sound(AttributesFromBundle(b))
<1> DEFINE a == AttributesFromBundle(b)
<1>1. /\ a.certType = b.type /\ a.certificate = b.certificate
      /\ a.privateKey = b.key.pem /\ a.passphrase = b.key.passphrase
      /\ a.certificateChain = b.chain /\ a.rootCaCertificate = b.rootCA
  BY DEF AttributesFromBundle
<1>2. b.key \in Keys
  BY DEF Bundles
<1>3. Opens(b.key.pem, b.key.passphrase)
  BY <1>2 DEF Keys, ParseEncryptedKey, Opens
<1>4. /\ TypeOrDefault(b.type) \in CertificateTypes /\ KeyOf[b.certificate] = b.key.pem.key
      /\ ValidCertificateChain(b.certificate, b.chain, b.rootCA)
  BY BundleExists DEF ValidBundle, CertificateMatchesKey
<1> HIDE DEF a
<1>5. Matching(a) /\ Opens(a.privateKey, a.passphrase)
  BY <1>1, <1>3, <1>4, Zenon DEF Matching
<1>6. Sound(a)
  BY <1>5, SoundMeans
<1> QED
  BY <1>6 DEF a

(***************************************************************************)
(* The checksum, and what is read back.                                    *)
(***************************************************************************)
\* What the places of a checksum hold.
HasParts(sum, type, certificate, key, chain, root) ==
    /\ Len(sum) = Len(chain) + 4
    /\ sum[1] = type /\ sum[2] = certificate /\ sum[3] = key.pem.key
    /\ \A i \in 1 .. Len(chain) : sum[i + 3] = chain[i]
    /\ sum[Len(chain) + 4] = root

LEMMA ChecksumParts ==
    ASSUME NEW type, NEW certificate, NEW key, NEW chain \in Seq(Certificates), NEW root
    PROVE  HasParts(BundleChecksum(type, certificate, key, chain, root),
                    type, certificate, key, chain, root)
<1> DEFINE S == {type, certificate, key.pem.key, root} \cup Certificates
           head == <<type, certificate, key.pem.key>>
           body == head \o chain
           sum == body \o <<root>>
<1>1. head \in Seq(S) /\ Len(head) = 3
      /\ head[1] = type /\ head[2] = certificate /\ head[3] = key.pem.key
  OBVIOUS
<1>2. chain \in Seq(S)
  OBVIOUS
<1> HIDE DEF head
<1> HIDE DEF S
<1>3. /\ body \in Seq(S)
      /\ Len(body) = Len(chain) + 3
      /\ \A i \in 1 .. 3 : body[i] = head[i]
      /\ \A i \in 1 .. Len(chain) : body[i + 3] = chain[i]
  <2>1. /\ body \in Seq(S) /\ Len(body) = Len(head) + Len(chain)
        /\ \A i \in 1 .. Len(head) + Len(chain) :
               body[i] = IF i <= Len(head) THEN head[i] ELSE chain[i - Len(head)]
    BY <1>1, <1>2, ConcatProperties
  <2>3. Len(chain) \in Nat
    BY <1>2
  <2> HIDE DEF body
  <2>4. ASSUME NEW i \in 1 .. 3  PROVE  body[i] = head[i]
    BY <1>1, <2>1, <2>3
  <2>5. ASSUME NEW i \in 1 .. Len(chain)  PROVE  body[i + 3] = chain[i]
    BY <1>1, <2>1, <2>3
  <2> QED  BY <1>1, <2>1, <2>4, <2>5
<1>4. <<root>> \in Seq(S)
  BY DEF S
<1> HIDE DEF body
<1>5. /\ Len(sum) = Len(body) + 1
      /\ \A i \in 1 .. Len(body) : sum[i] = body[i]
      /\ sum[Len(body) + 1] = root
  BY <1>3, <1>4, ConcatProperties
<1>6. BundleChecksum(type, certificate, key, chain, root) = sum
  BY DEF BundleChecksum, sum, body, head
<1>7. Len(chain) \in Nat
  OBVIOUS
<1> HIDE DEF sum
<1>8. HasParts(sum, type, certificate, key, chain, root)
  BY <1>1, <1>3, <1>5, <1>7 DEF HasParts
<1> QED  BY <1>6, <1>8

\* bundleChecksum: its parts can be told from it, however long the chain is.
LEMMA ChecksumInjective ==
    ASSUME NEW t1, NEW c1, NEW k1, NEW chain1 \in Seq(Certificates), NEW r1,
           NEW t2, NEW c2, NEW k2, NEW chain2 \in Seq(Certificates), NEW r2,
           BundleChecksum(t1, c1, k1, chain1, r1) = BundleChecksum(t2, c2, k2, chain2, r2)
    PROVE  /\ t1 = t2 /\ c1 = c2 /\ k1.pem.key = k2.pem.key
           /\ chain1 = chain2 /\ r1 = r2
<1> DEFINE sum  == BundleChecksum(t1, c1, k1, chain1, r1)
           sum2 == BundleChecksum(t2, c2, k2, chain2, r2)
<1>a. HasParts(sum, t1, c1, k1, chain1, r1) /\ HasParts(sum2, t2, c2, k2, chain2, r2)
  BY ChecksumParts, Zenon
<1>b. sum = sum2
  OBVIOUS
<1> HIDE DEF sum, sum2
<1>1. /\ Len(sum) = Len(chain1) + 4
      /\ sum[1] = t1 /\ sum[2] = c1 /\ sum[3] = k1.pem.key
      /\ \A i \in 1 .. Len(chain1) : sum[i + 3] = chain1[i]
      /\ sum[Len(chain1) + 4] = r1
  BY <1>a DEF HasParts
<1>2. /\ Len(sum) = Len(chain2) + 4
      /\ sum[1] = t2 /\ sum[2] = c2 /\ sum[3] = k2.pem.key
      /\ \A i \in 1 .. Len(chain2) : sum[i + 3] = chain2[i]
      /\ sum[Len(chain2) + 4] = r2
  BY <1>a, <1>b DEF HasParts
<1>3. Len(chain1) = Len(chain2)
  BY <1>1, <1>2
<1>4. \A i \in 1 .. Len(chain1) : chain1[i] = chain2[i]
  BY <1>1, <1>2, <1>3
<1>5. chain1 = chain2
  BY <1>3, <1>4
<1> QED  BY <1>1, <1>2, <1>3, <1>5

\* What a valid bundle was written as is read back as that bundle.
LEMMA WrittenUpToDate ==
    ASSUME NEW old \in Attributes, NEW b \in Bundles, ValidBundle(b)
    PROVE  LET r == Redacted(Patched(old, AttributesFromBundle(b)))
           IN  \E m \in ManagedCertificateFromResource(r, b.key.passphrase) :
                   m.checksum = b.checksum
<1> DEFINE a == Patched(old, AttributesFromBundle(b))
           r == Redacted(a)
           m == [type |-> b.type, certificate |-> b.certificate, key |-> b.key,
                 chain |-> b.chain, rootCA |-> b.rootCA,
                 checksum |-> BundleChecksum(b.type, b.certificate, b.key, b.chain, b.rootCA)]
           p == IF b.key.passphrase = Empty THEN r.passphrase ELSE b.key.passphrase
<1>1. a \in Attributes
  BY AttributesType, PatchedType
<1>2. /\ a.certType = b.type /\ a.certificate = b.certificate /\ a.privateKey = b.key.pem
      /\ a.certificateChain = b.chain /\ a.rootCaCertificate = b.rootCA
  BY DEF Patched, AttributesFromBundle
<1> HIDE DEF a
<1>3. /\ r.certType = b.type /\ r.certificate = b.certificate /\ r.privateKey = b.key.pem
      /\ r.certificateChain = b.chain /\ r.rootCaCertificate = b.rootCA /\ r.passphrase = Empty
  BY <1>1, <1>2 DEF Redacted, Attributes
<1> HIDE DEF r
<1>4. p = b.key.passphrase
  BY <1>3
<1>5. b.key \in ParseEncryptedKey(b.key.pem, b.key.passphrase)
  BY DEF Bundles, Keys
<1>6. m \in NewCertificateBundle(b.type, b.certificate, b.key, b.chain, b.rootCA)
      /\ m.checksum = b.checksum
  <2>1. TypeOrDefault(b.type) = b.type
    BY GivenType DEF Bundles
  <2> QED
    BY <2>1 DEF ValidBundle, NewCertificateBundle
<1> HIDE DEF m, p
<1>7. m \in NewCertificateBundle(r.certType, r.certificate, b.key, r.certificateChain,
                                 r.rootCaCertificate)
      /\ b.key \in ParseEncryptedKey(r.privateKey, p)
  BY <1>3, <1>4, <1>5, <1>6
<1>8. m \in ManagedCertificateFromResource(r, b.key.passphrase)
  BY <1>7 DEF ManagedCertificateFromResource, p
<1> QED  BY <1>6, <1>8 DEF r, a

(***************************************************************************)
(* What a call is for, and what is written for it.                         *)
(***************************************************************************)
\* A name that a plan rests on selects what its one virtual host is bound to.
LEMMA OneSelected ==
    ASSUME NEW cfg \in Configurations, NEW t \in Targets, Resolvable(cfg, t)
    PROVE  /\ t.kind = "virtualHost" =>
                 \E v \in VirtualHosts :
                     VirtualHostsOf(t) = {v} /\ SelectedIds(cfg, t) = {cfg.bound[v]}
           /\ t.kind = "id" => t.id \in CertificateIds /\ SelectedIds(cfg, t) = {t.id}
           /\ t.kind \in {"id", "virtualHost"}
           /\ \E id \in CertificateIds \cup {NoCertificate} : SelectedIds(cfg, t) = {id}
<1>1. CASE t.kind = "virtualHost"
  <2>1. VirtualHostsOf(t) \subseteq VirtualHosts
    BY DEF VirtualHostsOf
  <2>2. IsFiniteSet(VirtualHostsOf(t)) /\ Cardinality(VirtualHostsOf(t)) = 1
    BY <1>1, <2>1, FiniteAssumption, FS_Subset DEF Resolvable
  <2>3. PICK v : VirtualHostsOf(t) = {v}
    BY <2>2, FS_Singleton
  <2>4. v \in VirtualHosts
    BY <2>1, <2>3
  <2>5. SelectedIds(cfg, t) = {cfg.bound[v]}
    BY <1>1, <2>3 DEF SelectedIds
  <2>6. cfg.bound[v] \in CertificateIds \cup {NoCertificate}
    BY <2>4 DEF Configurations
  <2> QED
    BY <1>1, <2>3, <2>4, <2>5, <2>6
<1>2. CASE t.kind = "id"
  <2>1. SelectedIds(cfg, t) = {t.id}
    BY <1>2 DEF SelectedIds
  <2>2. t.id \in CertificateIds
    BY <1>2, <2>1 DEF Resolvable, Exists
  <2> QED
    BY <1>2, <2>1, <2>2
<1> QED
  BY <1>1, <1>2 DEF Targets

\* What a resource decodes to has its parts.
LEMMA ReadMeans ==
    ASSUME NEW cfg \in Configurations, NEW id, NEW passphrase \in Passphrases \cup {Empty},
           NEW m \in ReadCertificate(cfg, id, passphrase)
    PROVE  LET a == cfg.certificates[id]
           IN  /\ Exists(cfg, id)
               /\ m.type = a.certType /\ m.certificate = a.certificate
               /\ m.key.pem = a.privateKey /\ m.chain = a.certificateChain
               /\ m.rootCA = a.rootCaCertificate
               /\ TypeOrDefault(m.type) = m.type
               /\ m.checksum = BundleChecksum(m.type, m.certificate, m.key, m.chain, m.rootCA)
<1> DEFINE a == cfg.certificates[id]
           r == Redacted(a)
<1>1. Exists(cfg, id) /\ m \in ManagedCertificateFromResource(r, passphrase)
  BY DEF ReadCertificate
<1>2. a \in Attributes
  BY <1>1 DEF Exists, Configurations
<1> HIDE DEF a
<1>3. /\ r.certType = a.certType /\ r.certificate = a.certificate
      /\ r.privateKey = a.privateKey /\ r.certificateChain = a.certificateChain
      /\ r.rootCaCertificate = a.rootCaCertificate
      /\ TypeOrDefault(r.certType) = r.certType
  BY <1>2, GivenType DEF Redacted, Attributes
<1> HIDE DEF r
<1>4. PICK p : \E k \in ParseEncryptedKey(r.privateKey, p) :
          m \in NewCertificateBundle(r.certType, r.certificate, k, r.certificateChain,
                                     r.rootCaCertificate)
  BY <1>1, Zenon DEF ManagedCertificateFromResource
<1>5. PICK k \in ParseEncryptedKey(r.privateKey, p) :
          m \in NewCertificateBundle(r.certType, r.certificate, k, r.certificateChain,
                                     r.rootCaCertificate)
  BY <1>4
<1>6. k.pem = r.privateKey
  BY DEF ParseEncryptedKey
<1>7. /\ m.type = r.certType /\ m.certificate = r.certificate /\ m.key = k
      /\ m.chain = r.certificateChain /\ m.rootCA = r.rootCaCertificate
  BY <1>3, <1>5, BundleParts
<1>8. m.checksum = BundleChecksum(m.type, m.certificate, m.key, m.chain, m.rootCA)
  BY <1>3, <1>5 DEF NewCertificateBundle
<1> QED
  BY <1>1, <1>3, <1>6, <1>7, <1>8 DEF a

\* The parts of the attributes are those of the bundle.
Carries(a, b) ==
    /\ a.certificate = b.certificate /\ a.privateKey.key = b.key.pem.key
    /\ a.certificateChain = b.chain /\ a.rootCaCertificate = b.rootCA /\ a.certType = b.type

\* What Holds asks of the attributes `new', the target having selected `old'.
Wanted(new, old, job) ==
    LET rest(a) == <<a.certificateChain, a.rootCaCertificate, a.certType>>
        b       == job.bundle
    IN  CASE job.operation \in {"sync", "create"} ->
               /\ new.certificate = b.certificate /\ new.privateKey.key = b.key.pem.key
               /\ rest(new) = <<b.chain, b.rootCA, b.type>>
          [] job.operation = "leaf" ->
               /\ new.certificate = b.certificate
               /\ new.privateKey = old.privateKey /\ rest(new) = rest(old)
          [] job.operation = "key" ->
               /\ new.privateKey.key = b.key.pem.key
               /\ new.certificate = old.certificate /\ rest(new) = rest(old)
          [] job.operation = "get" -> FALSE

\* The resource the target selects in `base'.
Selected(base, job) == base.certificates[CHOOSE i \in SelectedIds(base, job.target) : TRUE]

\* Attributes that carry the bundle a call synchronizes are what it asks for, if
\* they keep the stored key as it is where the call retains it.
LEMMA DesiredWanted ==
    ASSUME NEW base \in Configurations, NEW job, job.passphrase \in Passphrases \cup {Empty},
           NEW id, job.operation # "create" => SelectedIds(base, job.target) = {id},
           NEW b \in DesiredBundles(base, job), NEW new, Carries(new, b),
           job.operation = "leaf" =>
              \/ new.privateKey = b.key.pem
              \/ new.privateKey = base.certificates[id].privateKey
    PROVE  Wanted(new, Selected(base, job), job)
<1> DEFINE old == Selected(base, job)
           managed == UNION {ReadCertificate(base, i, job.passphrase) :
                               i \in SelectedIds(base, job.target)}
<1>1. CASE job.operation \in {"sync", "create"}
  <2>1. b = job.bundle
    BY <1>1 DEF DesiredBundles
  <2> QED
    BY <1>1, <2>1 DEF Wanted, Carries
<1>2. ASSUME job.operation # "create", NEW m \in managed
      PROVE  /\ m.type = old.certType /\ m.certificate = old.certificate
             /\ m.key.pem = old.privateKey /\ m.chain = old.certificateChain
             /\ m.rootCA = old.rootCaCertificate /\ old = base.certificates[id]
             /\ TypeOrDefault(m.type) = m.type
  <2>1. m \in ReadCertificate(base, id, job.passphrase)
    BY <1>2
  <2>2. old = base.certificates[id]
    BY <1>2 DEF Selected
  <2> HIDE DEF old
  <2> QED
    BY <2>1, <2>2, ReadMeans
<1> HIDE DEF old
<1>3. CASE job.operation = "leaf"
  <2>1. PICK m \in managed : b \in Completed(job.bundle.certificate, m.key, m)
    BY <1>3 DEF DesiredBundles
  <2>5. TypeOrDefault(m.type) = m.type
    BY <1>2, <1>3
  <2>2. /\ b.certificate = job.bundle.certificate /\ b.key = m.key /\ b.type = m.type
        /\ b.chain = m.chain /\ b.rootCA = m.rootCA
    BY <2>1, <2>5, BundleParts DEF Completed
  <2>3. /\ b.type = old.certType /\ b.key.pem = old.privateKey
        /\ b.chain = old.certificateChain /\ b.rootCA = old.rootCaCertificate
        /\ new.privateKey = old.privateKey
    BY <1>2, <1>3, <2>2
  <2>4. Wanted(new, old, job)
    BY <1>3, <2>2, <2>3 DEF Wanted, Carries
  <2> QED
    BY <2>4 DEF old
<1>4. CASE job.operation = "key"
  <2>1. PICK m \in managed : b \in Completed(m.certificate, job.bundle.key, m)
    BY <1>4 DEF DesiredBundles
  <2>5. TypeOrDefault(m.type) = m.type
    BY <1>2, <1>4
  <2>2. /\ b.certificate = m.certificate /\ b.key = job.bundle.key /\ b.type = m.type
        /\ b.chain = m.chain /\ b.rootCA = m.rootCA
    BY <2>1, <2>5, BundleParts DEF Completed
  <2>3. /\ b.type = old.certType /\ b.certificate = old.certificate
        /\ b.chain = old.certificateChain /\ b.rootCA = old.rootCaCertificate
    BY <1>2, <1>4, <2>2
  <2>4. Wanted(new, old, job)
    BY <1>4, <2>2, <2>3 DEF Wanted, Carries
  <2> QED
    BY <2>4 DEF old
<1>5. CASE job.operation \notin {"sync", "create", "leaf", "key"}
  BY <1>5 DEF DesiredBundles
<1> QED
  BY <1>1, <1>3, <1>4, <1>5

\* The working copy has a resource `id' as the job asks for it, and `base' not.
Prepared(base, work, job, id) ==
    /\ id \in CertificateIds /\ work.certificates[id] \in Attributes
    /\ work.certificates[id] # base.certificates[id]
    /\ Wanted(work.certificates[id], Selected(base, job), job)

Selects(cfg, job, id) == job.operation = "create" \/ SelectedIds(cfg, job.target) = {id}

\* The working copy is what a call has to make of `base'.
Complete(base, work, job) ==
    \E id \in CertificateIds : Prepared(base, work, job, id) /\ Selects(work, job, id)

\* What a bundle is written as carries it, and so does what a PATCH leaves.
LEMMA WriteCarries ==
    ASSUME NEW b, NEW old
    PROVE  LET a == AttributesFromBundle(b)
           IN  /\ Carries(a, b) /\ a.privateKey = b.key.pem
               /\ Carries(Patched(old, a), b) /\ Patched(old, a).privateKey = b.key.pem
  BY DEF AttributesFromBundle, Patched, Carries

\* What is selected depends on the bindings alone.
LEMMA SameSelected ==
    ASSUME NEW a, NEW b, a.bound = b.bound, NEW t
    PROVE  SelectedIds(a, t) = SelectedIds(b, t)
  BY DEF SelectedIds

\* Binding its virtual host completes the call.
LEMMA BindCompletes ==
    ASSUME NEW base \in Configurations, NEW work \in Configurations, NEW job,
           NEW id \in CertificateIds, NEW v \in VirtualHosts,
           Prepared(base, work, job, id), job.target.kind = "virtualHost",
           VirtualHostsOf(job.target) = {v}
    PROVE  Complete(base, ConnectIn(work, id, v), job)
<1> DEFINE new == ConnectIn(work, id, v)
<1>1. new.certificates = work.certificates /\ new.bound[v] = id
  BY DEF ConnectIn, Configurations
<1> HIDE DEF new
<1>2. SelectedIds(new, job.target) = {id}
  BY <1>1 DEF SelectedIds
<1>3. Complete(base, new, job)
  BY <1>1, <1>2 DEF Complete, Prepared, Selects
<1> QED
  BY <1>3 DEF new
=============================================================================
