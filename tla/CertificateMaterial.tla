------------------------- MODULE CertificateMaterial -------------------------
(***************************************************************************)
(* The typed certificate material of pkg/airlock: parsed certificates,     *)
(* private keys and the bundle that is written to one ssl-certificate      *)
(* resource, with the checks its constructors make, the checksum that      *)
(* decides whether a resource has to be written, and the JSON attributes   *)
(* a resource is written as and read back from.                            *)
(*                                                                         *)
(* An X.509 certificate and a private key are values without structure.    *)
(* A constructor that can fail is a set: empty for its error, a singleton  *)
(* for its result.                                                         *)
(***************************************************************************)
EXTENDS Sequences, Integers

CONSTANTS
    Certificates,  \* the certificates a PEM block can hold
    PrivateKeys,   \* the private keys, independent of their encoding
    Passphrases,   \* the passphrases in use
    KeyOf,         \* the private key whose public half a certificate carries
    CAs,           \* the certificates with IsCA
    Signed,        \* <<c, i>> when CheckSignatureFrom(c, i) succeeds
    None,          \* no certificate: a missing root CA, a missing resource
    Empty,         \* the empty passphrase, the type that is not given
    Plain,         \* a private key that is not encrypted
    Legacy         \* RFC 1423 encryption (Proc-Type or DEK-Info headers)

ASSUME MaterialAssumption ==
    /\ KeyOf \in [Certificates -> PrivateKeys]
    /\ CAs \subseteq Certificates
    /\ Signed \subseteq Certificates \X Certificates
    /\ None \notin Certificates
    /\ {Empty, Plain, Legacy} \cap Passphrases = {}
    /\ Empty \notin {"SERVER_CERT", "CLIENT_CERT"}
    /\ Plain # Legacy

CertificateTypes == {"SERVER_CERT", "CLIENT_CERT"}

\* A PEM private key: the key and how it is encrypted.
KeyPEMs == [key : PrivateKeys, encryption : Passphrases \cup {Plain, Legacy}]

(***************************************************************************)
(* Parsing a private key.                                                  *)
(***************************************************************************)
ParseEncryptedKey(pem, passphrase) ==
    {k \in {[pem |-> pem, passphrase |-> passphrase]} :
        \/ pem.encryption = Plain
        \/ /\ pem.encryption # Legacy
           /\ pem.encryption = passphrase}

\* A parsed key keeps the PEM and the passphrase it was given. Its fields are
\* not exported: there are no other keys.
Keys ==
    {k \in [pem : KeyPEMs, passphrase : Passphrases \cup {Empty}] :
        k \in ParseEncryptedKey(k.pem, k.passphrase)}

EncryptedPrivateKeyPEM(pem) == pem.encryption # Plain

(***************************************************************************)
(* The bundle and its checksum.                                            *)
(***************************************************************************)
RootPart(root) == IF root = None THEN << >> ELSE <<root>>

\* Mutant: a missing root CA adds no part.
BundleChecksumWithoutEmptyPart(type, certificate, key, chain, root) ==
    <<type, certificate, key.pem.key>> \o chain \o RootPart(root)

\* The hash covers its parts in order; a missing root CA is an empty part.
\* SHA-256 is taken to be injective.
BundleChecksum(type, certificate, key, chain, root) ==
    <<type, certificate, key.pem.key>> \o chain \o <<root>>

CertificateMatchesKey(certificate, key) == KeyOf[certificate] = key.pem.key

\* Every issuer is a CA and signs the certificate before it, the root CA last.
ValidCertificateChain(leaf, chain, root) ==
    LET path == <<leaf>> \o chain \o RootPart(root)
    IN  \A i \in 2 .. Len(path) :
            /\ path[i] \in CAs
            /\ <<path[i - 1], path[i]>> \in Signed

Bundles ==
    [type : CertificateTypes, certificate : Certificates, key : Keys,
     chain : Seq(Certificates), rootCA : Certificates \cup {None},
     checksum : Seq(CertificateTypes \cup Certificates \cup PrivateKeys \cup {None})]

TypeOrDefault(type) == IF type = Empty THEN "SERVER_CERT" ELSE type

NewCertificateBundle(type, certificate, key, chain, root) ==
    {b \in {[type |-> TypeOrDefault(type), certificate |-> certificate, key |-> key,
             chain |-> chain, rootCA |-> root,
             checksum |-> BundleChecksum(TypeOrDefault(type), certificate, key, chain, root)]} :
        /\ b.type \in CertificateTypes
        /\ CertificateMatchesKey(certificate, key)
        /\ ValidCertificateChain(certificate, chain, root)}

\* A caller can edit the exported fields of a bundle: validate() runs the
\* constructor again and compares the stored checksum with a fresh one.
ValidBundle(b) ==
    /\ NewCertificateBundle(b.type, b.certificate, b.key, b.chain, b.rootCA) # {}
    /\ b.checksum = BundleChecksum(b.type, b.certificate, b.key, b.chain, b.rootCA)

(***************************************************************************)
(* The ssl-certificate attributes of the REST API.                         *)
(***************************************************************************)
Attributes ==
    [certificate : Certificates, privateKey : KeyPEMs,
     passphrase : Passphrases \cup {Empty}, certificateChain : Seq(Certificates),
     rootCaCertificate : Certificates \cup {None}, certType : CertificateTypes]

\* Mutant: the passphrase is kept back with the caller.
AttributesWithoutPassphrase(b) ==
    [certificate |-> b.certificate, privateKey |-> b.key.pem,
     passphrase |-> Empty, certificateChain |-> b.chain,
     rootCaCertificate |-> b.rootCA, certType |-> b.type]

AttributesFromBundle(b) ==
    [certificate |-> b.certificate, privateKey |-> b.key.pem,
     passphrase |-> b.key.passphrase, certificateChain |-> b.chain,
     rootCaCertificate |-> b.rootCA, certType |-> b.type]

\* PATCH: the request omits an empty passphrase (omitempty), and an attribute
\* the request omits keeps its value; the other five are always in it.
Patched(stored, sent) ==
    [sent EXCEPT !.passphrase = IF @ = Empty THEN stored.passphrase ELSE @]

\* GET never returns the passphrase of a resource.
Redacted(stored) == [stored EXCEPT !.passphrase = Empty]

\* Mutant: the chain of a resource is not read back.
ManagedCertificateWithoutChain(a, passphrase) ==
    UNION {NewCertificateBundle(a.certType, a.certificate, k, << >>, a.rootCaCertificate) :
             k \in ParseEncryptedKey(a.privateKey,
                       IF passphrase = Empty THEN a.passphrase ELSE passphrase)}

\* Reading a resource back: the bundle it decodes to with a passphrase, an
\* empty one standing for the passphrase in the resource itself.
ManagedCertificateFromResource(a, passphrase) ==
    UNION {NewCertificateBundle(a.certType, a.certificate, k,
                                a.certificateChain, a.rootCaCertificate) :
             k \in ParseEncryptedKey(a.privateKey,
                       IF passphrase = Empty THEN a.passphrase ELSE passphrase)}

\* What the Gateway needs to serve a resource: it can open the key with the
\* passphrase it stores, the key is the certificate's, and the chain holds.
Sound(stored) == ManagedCertificateFromResource(stored, stored.passphrase) # {}
=============================================================================
