--------------------------- MODULE MCCommandSession ---------------------------
(***************************************************************************)
(* Two invocations beside the Configuration Center. The certificate 1 is   *)
(* used by a virtual host, a back-end group and two nodes; the certificate *)
(* 2 by another virtual host, and by one of the nodes. What find-domain    *)
(* makes of names is checked over names of up to three labels.             *)
(***************************************************************************)
EXTENDS CommandSession, CertificateSearch

MCTargets == {"vh1", "vh2", "group", "node1", "node2", "default"}
MCRelationshipOf ==
    [t \in MCTargets |->
        CASE t \in {"vh1", "vh2"}              -> "virtual-hosts"
          [] t = "group"                       -> "back-end-groups"
          [] t \in {"node1", "node2", "default"} -> "nodes"]

MCFields == {"pair", "chain"}
Attributes(pair, chain) == [f \in MCFields |-> IF f = "pair" THEN pair ELSE chain]

MCCertificateIds == 1 .. 4

Delivered(links) ==
    [certificates |-> [i \in MCCertificateIds |->
        IF i \in {1, 2} THEN Attributes("old", "ca") ELSE None],
     linked |-> links]

CommonLinks ==
    {<<1, "vh1">>, <<1, "group">>, <<1, "node1">>, <<1, "node2">>,
     <<2, "vh2">>, <<2, "node2">>}

\* In the second one a built-in node uses the certificate 2.
MCInitial == {Delivered(CommonLinks), Delivered(CommonLinks \cup {<<2, "default">>})}

Command(name, id, targets, load, save, activate) ==
    [name |-> name, id |-> id, attributes |-> Attributes("new", Omitted),
     targets |-> targets, deleteOld |-> TRUE, load |-> load,
     save |-> save, activate |-> activate]

FirstCommands ==
    {Command("replace", 1, {}, FALSE, FALSE, TRUE),
     [Command("replace", 2, {}, FALSE, FALSE, TRUE) EXCEPT !.deleteOld = FALSE],
     Command("create", 0, {}, FALSE, TRUE, FALSE),
     Command("update", 1, {}, FALSE, FALSE, FALSE),
     Command("delete", 2, {}, FALSE, FALSE, TRUE)}

SecondCommands ==
    {Command("update", 2, {}, TRUE, TRUE, TRUE),
     Command("connect", 2, {"vh1"}, FALSE, FALSE, TRUE),
     Command("disconnect", 1, {"node1", "node2"}, FALSE, TRUE, TRUE),
     Command("save", 0, {}, FALSE, TRUE, FALSE),
     Command("activate", 0, {}, FALSE, FALSE, TRUE),
     Command("list", 0, {}, FALSE, FALSE, FALSE),
     Command("get", 1, {}, FALSE, FALSE, FALSE),
     Command("validate", 0, {}, FALSE, FALSE, FALSE),
     Command("verify-version", 0, {}, FALSE, FALSE, FALSE)}

MCCommandsOf ==
    [s \in {"first", "second"} |-> IF s = "first" THEN FirstCommands ELSE SecondCommands]

(***************************************************************************)
(* find-domain.                                                            *)
(***************************************************************************)
MCSpellings == {"www", "WWW", "api", "*", "::1", "0:0:0:0:0:0:0:1"}
MCLowerCase == [l \in MCSpellings |-> IF l = "WWW" THEN "www" ELSE l]

\* Two spellings of one address.
MCAddressOf == [n \in {<<"::1">>, <<"0:0:0:0:0:0:0:1">>} |-> "::1"]

HostName(labels, padded, dot) == [labels |-> labels, padded |-> padded, dot |-> dot]

LabelSequences ==
    {<< >>, <<"www">>, <<"::1">>, <<"*">>, <<"WWW", "api">>, <<"*", "api">>, <<"www", "api">>,
     <<"api", "api">>, <<"www", "www", "api">>, <<"*", "www", "api">>, <<"*", "WWW">>}

Domains ==
    {HostName(labels, padded, dot) : labels \in LabelSequences \cup {<<"0:0:0:0:0:0:0:1">>},
                                     padded \in BOOLEAN, dot \in BOOLEAN}

X509(commonName, dnsNames, ipAddresses) ==
    [commonName |-> HostName(commonName, FALSE, FALSE),
     dnsNames |-> {HostName(labels, FALSE, FALSE) : labels \in dnsNames},
     ipAddresses |-> ipAddresses]

SearchedCertificates ==
    {X509(commonName, dnsNames, ipAddresses) :
        commonName \in LabelSequences,
        dnsNames \in {{}, {<<"*", "api">>}, {<<"www", "api">>, <<"*", "WWW", "api">>}},
        ipAddresses \in {{}, {"::1"}}}

Block(type, content) == [type |-> type, content |-> content]

\* One certificate, alone or after and before blocks of other types and
\* certificates; one that cannot be parsed; none.
PEMTexts ==
    {<<Block("CERTIFICATE", c)>> : c \in SearchedCertificates}
        \cup {<<Block("other", NoPEM), Block("CERTIFICATE", c),
                Block("CERTIFICATE", X509(<<"api", "api">>, {}, {}))>> :
                   c \in {X509(<<"www">>, {<<"*", "api">>}, {"::1"}), NoPEM}}
        \cup {<<Block("other", NoPEM)>>, << >>}

\* What is proved for every name and text, evaluated on these.
ASSUME SearchOfThese == \A pem \in PEMTexts : \A domain \in Domains : FindsServing(pem, domain)
=============================================================================
