-------------------------- MODULE CertificateSearch --------------------------
(***************************************************************************)
(* find-domain of airlock-certctl: which of the resources the Gateway      *)
(* lists have a certificate for a DNS name or an IP address. A name is the *)
(* sequence of its labels as they are spelled, perhaps with white space    *)
(* around it or a final dot; no label is empty. A resource's PEM text is   *)
(* the sequence of its blocks.                                             *)
(***************************************************************************)
EXTENDS Naturals, Sequences

CONSTANTS
    Spellings,   \* the labels a name can have, "*" perhaps among them
    LowerCase,   \* each of them in lower case
    AddressOf,   \* the address of every name that spells one
    NoPEM        \* a resource without a PEM text, a block that cannot be parsed

HostNames == [labels : Seq(Spellings), padded : BOOLEAN, dot : BOOLEAN]

X509Certificates ==
    [commonName : HostNames, dnsNames : SUBSET HostNames,
     ipAddresses : SUBSET {AddressOf[n] : n \in DOMAIN AddressOf}]

PEMBlocks == [type : {"CERTIFICATE", "other"}, content : X509Certificates \cup {NoPEM}]

ASSUME SearchAssumption ==
    /\ LowerCase \in [Spellings -> Spellings]
    /\ \A l \in Spellings : LowerCase[LowerCase[l]] = LowerCase[l]
    /\ DOMAIN AddressOf \subseteq Seq(Spellings)
    /\ NoPEM \notin Seq(PEMBlocks) \cup X509Certificates

ToLower(labels) == [i \in DOMAIN labels |-> LowerCase[labels[i]]]

NormalizeHostForMatch(name) ==
    [labels |-> ToLower(name.labels), padded |-> FALSE, dot |-> FALSE]

\* The labels of `host' end with those of `suffix', and there are more.
EndsWith(host, suffix) ==
    /\ Len(host) > Len(suffix)
    /\ SubSeq(host, Len(host) - Len(suffix) + 1, Len(host)) = suffix

IsWildcard(labels) == Len(labels) > 1 /\ labels[1] = "*"

HostnameMatchesPattern(pattern, host) ==
    LET p == NormalizeHostForMatch(pattern).labels
        h == NormalizeHostForMatch(host).labels
    IN  /\ p # << >> /\ h # << >>
        /\ \/ p = h
           \/ /\ IsWildcard(p)
              /\ EndsWith(h, Tail(p))
              /\ Len(h) = Len(Tail(p)) + 1

\* An address is looked for among the addresses only, a name also in the
\* common name.
CertificateMatchesDomain(certificate, domain) ==
    LET target == NormalizeHostForMatch(domain)
    IN  /\ target.labels # << >>
        /\ IF target.labels \in DOMAIN AddressOf
           THEN AddressOf[target.labels] \in certificate.ipAddresses
           ELSE \E name \in certificate.dnsNames \cup {certificate.commonName} :
                    HostnameMatchesPattern(name, target)

\* The first CERTIFICATE block counts, whatever precedes or follows it. Empty
\* when there is none, or when it cannot be parsed.
FirstCertificateFromPEM(pem) ==
    {pem[i].content : i \in {j \in DOMAIN pem :
        /\ pem[j].type = "CERTIFICATE"
        /\ \A k \in 1 .. j - 1 : pem[k].type # "CERTIFICATE"}} \ {NoPEM}

\* Whether a resource with this PEM text is listed for the domain.
Found(pem, domain) ==
    /\ pem # NoPEM
    /\ \E certificate \in FirstCertificateFromPEM(pem) :
          CertificateMatchesDomain(certificate, domain)

(***************************************************************************)
(* Correctness.                                                            *)
(***************************************************************************)
\* The hosts a name in a certificate stands for: itself, or, if it is a
\* wildcard, what any one label makes of it in place of the "*".
StandsFor(name, host) ==
    \/ host = name
    \/ IsWildcard(name) /\ \E l \in Spellings : host = <<l>> \o Tail(name)

Serves(certificate, domain) ==
    LET host == ToLower(domain.labels)
    IN  IF host \in DOMAIN AddressOf
        THEN AddressOf[host] \in certificate.ipAddresses
        ELSE \E name \in certificate.dnsNames \cup {certificate.commonName} :
                 name.labels # << >> /\ StandsFor(ToLower(name.labels), host)

\* CERTIFICATE_ROTATION.md: find-domain lists "every match", from which the
\* certificate to be replaced is chosen. A resource is listed exactly if its
\* leaf, which is the first of its certificates, serves the domain: no wildcard
\* reaches one label too far, and no spelling hides a certificate.
FindsServing(pem, domain) ==
    Found(pem, domain) <=>
        \E i \in DOMAIN pem :
            /\ pem[i].type = "CERTIFICATE" /\ pem[i].content # NoPEM
            /\ \A k \in 1 .. i - 1 : pem[k].type # "CERTIFICATE"
            /\ domain.labels # << >>
            /\ Serves(pem[i].content, domain)
=============================================================================
