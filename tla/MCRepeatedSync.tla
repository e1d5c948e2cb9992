--------------------------- MODULE MCRepeatedSync ---------------------------
(***************************************************************************)
(* Two leaves with a key each, an intermediate and a root CA, three ways   *)
(* to encode a key, every valid bundle of them; a resource that starts     *)
(* with any pair, whether or not it matches.                               *)
(***************************************************************************)
EXTENDS RepeatedSync

CONSTANTS leaf1, leaf2, intermediate, root, key1, key2, key3, secret1, secret2

MCKeyOf == [c \in {leaf1, leaf2, intermediate, root} |->
    IF c = leaf1 THEN key1 ELSE IF c = leaf2 THEN key2 ELSE key3]

MCSigned ==
    {<<leaf1, intermediate>>, <<leaf2, intermediate>>, <<intermediate, root>>, <<root, root>>}

MCCertificateIds == {1}
MCNameOf == [v \in {"shop"} |-> "shop"]

MCKeys == UNION {ParseEncryptedKey([key |-> k, encryption |-> e], p) :
    k \in {key1, key2}, e \in {Plain, secret1, secret2}, p \in {Empty, secret1, secret2}}

\* Their type is left to the default.
MCBundles == UNION {NewCertificateBundle(Empty, c, k, chain, r) :
    c \in {leaf1, leaf2}, k \in MCKeys,
    chain \in {<< >>, <<intermediate>>, <<intermediate, root>>, <<root>>},
    r \in {None, intermediate, root}}

\* Any certificate beside any key the Gateway can open, also one the client
\* cannot.
MCInitialAttributes ==
    {a \in [certificate : {leaf1, leaf2},
            privateKey : [key : {key1, key2}, encryption : {Plain, Legacy, secret1}],
            passphrase : {Empty, secret1}, certificateChain : {<< >>, <<intermediate>>},
            rootCaCertificate : {None, root}, certType : {"SERVER_CERT"}] : Openable(a)}

Job(operation, bundle, passphrase) ==
    [operation |-> operation, target |-> [kind |-> "id", id |-> 1], bundle |-> bundle,
     passphrase |-> passphrase, policy |-> ""]

\* One bundle stands for all with its certificate, and with its key.
Unchained == {b \in MCBundles : b.chain = << >> /\ b.rootCA = None}
Leaves == {b \in Unchained : b.key.pem.encryption = Plain /\ b.key.passphrase = Empty}

MCJobs ==
    {Job("sync", b, Empty) : b \in MCBundles}
        \cup {Job("leaf", b, p) : b \in Leaves, p \in {Empty, secret1, secret2}}
        \cup {Job("key", b, p) : b \in Unchained, p \in {Empty, secret1, secret2}}

\* Full chains and separate files, a key of the leaf or of another.
MCFiles ==
    [cert : {<< >>, <<leaf1>>, <<leaf2, intermediate>>},
     key : [key : {key1, key2}, encryption : {Plain}],
     chain : {Omitted, << >>, <<intermediate>>, <<intermediate, root>>},
     rootCA : {None, intermediate, root}, certType : {"SERVER_CERT", "OTHER"}]
=============================================================================
