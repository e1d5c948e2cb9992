--------------------------- MODULE AttributeFiles ---------------------------
(***************************************************************************)
(* The attribute files of airlock-certctl: what attrs-from-pem makes of    *)
(* the PEM files it reads, what a command that takes --attrs reads back,   *)
(* and what a PATCH with them leaves in a resource. A file of certificates *)
(* is the sequence of its CERTIFICATE blocks, one of a key the key.        *)
(***************************************************************************)
EXTENDS CertificateMaterial

CONSTANT Omitted  \* a flag that is not given, an attribute that is left out

ASSUME OmittedAssumption ==
    Omitted \notin Certificates \cup KeyPEMs \cup CertificateTypes \cup Seq(Certificates) \cup {None}

\* The files behind --cert, --key, --chain and --root-ca, and --cert-type.
PEMFiles ==
    [cert : Seq(Certificates), key : KeyPEMs, chain : Seq(Certificates) \cup {Omitted},
     rootCA : Certificates \cup {None}, certType : CertificateTypes \cup {"OTHER"}]

\* The first certificate is the leaf, the others are its chain unless there is
\* a --chain.
ChainOf(files) == IF files.chain = Omitted THEN Tail(files.cert) ELSE files.chain

\* Mutant: an empty chain is left out.
FileChainIfAny(files) == IF ChainOf(files) = << >> THEN Omitted ELSE ChainOf(files)

\* certs[1:] is empty, never nil, and is written as []. A --chain without a
\* CERTIFICATE block leaves a nil slice, written as null: no attribute.
FileChain(files) == IF files.chain = << >> THEN Omitted ELSE ChainOf(files)

\* Without a certificate there is no file.
AttrsFromPEM(files) ==
    IF files.cert = << >> THEN {}
    ELSE {[certificate |-> Head(files.cert),
           privateKey |-> files.key,
           passphrase |-> Omitted,
           certificateChain |-> FileChain(files),
           rootCaCertificate |-> files.rootCA,
           certType |-> files.certType]}

\* attrs-from-pem takes any --cert-type, the commands that read the file do not.
ReadSSLCertificateAttributes(files) ==
    {a \in AttrsFromPEM(files) : a.certType \in CertificateTypes}

\* UpdateSSLCertificate: what is omitted keeps its value; an empty chain or an
\* empty root CA is sent, and clears it.
Updated(stored, sent) ==
    [f \in DOMAIN stored |-> IF sent[f] = Omitted THEN stored[f] ELSE sent[f]]

\* The certificate in the files can be served with this chain: the key is its own,
\* and the chain holds.
ServableWith(files, chain) ==
    /\ files.cert # << >>
    /\ \E k \in ParseEncryptedKey(files.key, Empty) :
          NewCertificateBundle(files.certType, Head(files.cert), k, chain, files.rootCA) # {}
=============================================================================
