------------------------- MODULE MCManagedLifecycle -------------------------
(***************************************************************************)
(* Small instances of ManagedLifecycle for TLC: two certificates of one    *)
(* key, a certificate of another, one CA; two virtual hosts with names of  *)
(* their own, one bound to the built-in certificate -1 and one to the      *)
(* resource 1.                                                             *)
(***************************************************************************)
EXTENDS ManagedLifecycle

CONSTANTS oldCert, newCert, other, ca, key1, key2, secret

MCKeyOf == [c \in {oldCert, newCert, other, ca} |-> IF c \in {oldCert, newCert} THEN key1 ELSE key2]
MCSigned == {oldCert, newCert, other} \X {ca}
MCCertificateIds == {-1, 1, 2, 3, 4}
MCNameOf == [v \in {"portal", "shop"} |-> v]

Key(k, encryption, passphrase) ==
    [pem |-> [key |-> k, encryption |-> encryption], passphrase |-> passphrase]

Bundle(certificate, key, chain) ==
    CHOOSE b \in NewCertificateBundle("SERVER_CERT", certificate, key, chain, None) : TRUE

OldBundle == Bundle(oldCert, Key(key1, Plain, Empty), << >>)
NewBundle == Bundle(newCert, Key(key1, Plain, Empty), <<ca>>)
EncryptedBundle == Bundle(newCert, Key(key1, secret, secret), <<ca>>)
Key2Bundle == Bundle(other, Key(key2, Plain, Empty), << >>)
OtherBundle == Bundle(other, Key(key2, secret, secret), <<ca>>)

\* The caller has changed an exported field of a bundle.
EditedBundle == [NewBundle EXCEPT !.certificate = oldCert]

Portal == [kind |-> "virtualHost", name |-> "portal"]
Shop == [kind |-> "virtualHost", name |-> "shop"]
Id(i) == [kind |-> "id", id |-> i]

Job(operation, target, bundle, passphrase, policy) ==
    [operation |-> operation, target |-> target, bundle |-> bundle,
     passphrase |-> passphrase, policy |-> policy]

\* portal has the built-in certificate, shop the resource 1 with the old one.
Delivered(shopBundle) ==
    [certificates |-> [i \in MCCertificateIds |->
        CASE i = -1 -> AttributesFromBundle(OtherBundle)
          [] i = 1  -> AttributesFromBundle(shopBundle)
          [] OTHER  -> None],
     bound |-> [v \in {"portal", "shop"} |-> IF v = "portal" THEN -1 ELSE 1]]

MCInitial == {Delivered(OldBundle), Delivered(EncryptedBundle)}
MCPlainInitial == {Delivered(OldBundle)}
MCAdminAttributes == {AttributesFromBundle(OtherBundle)}

(***************************************************************************)
(* One client, two calls at a time. Four virtual hosts: portal and twin2   *)
(* share the built-in certificate, shop and twin1 the resource 1, twin1    *)
(* and twin2 a name.                                                       *)
(***************************************************************************)
MCOneClientOf == [s \in {"first", "second"} |-> "client"]

MCSharing == {"portal", "shop", "twin1", "twin2"}
MCSharedNameOf == [v \in MCSharing |-> IF v \in {"twin1", "twin2"} THEN "twin" ELSE v]
Twin == [kind |-> "virtualHost", name |-> "twin"]

MCSharedInitial ==
    {[certificates |-> Delivered(b).certificates,
      bound |-> [v \in MCSharing |-> IF v \in {"portal", "twin2"} THEN -1 ELSE 1]] :
        b \in {OldBundle, EncryptedBundle}}

FirstJobs ==
    {Job("sync", Portal, NewBundle, Empty, "overwrite"),
     Job("leaf", Shop, NewBundle, secret, ""),
     Job("key", Portal, Key2Bundle, secret, "unsupported"),
     Job("key", Portal, Key2Bundle, secret, "reject"),
     Job("sync", Id(-1), NewBundle, Empty, "reject"),
     Job("create", Id(1), EncryptedBundle, Empty, "merge")}

SecondJobs ==
    {Job("sync", Shop, NewBundle, Empty, "overwrite"),
     Job("key", Shop, EncryptedBundle, Empty, "reject"),
     Job("sync", Shop, EditedBundle, Empty, "reject"),
     Job("get", Shop, NewBundle, Empty, ""),
     Job("sync", Twin, EncryptedBundle, Empty, "overwrite")}

MCOneClientJobs ==
    [s \in {"first", "second"} |-> IF s = "first" THEN FirstJobs ELSE SecondJobs]

(***************************************************************************)
(* Two clients and the Configuration Center.                               *)
(***************************************************************************)
MCTwoClientsOf == [s \in {"first", "second"} |-> s]

MCTwoClientsJobs ==
    [s \in {"first", "second"} |->
        IF s = "first"
        THEN {Job("sync", Portal, NewBundle, Empty, "merge"),
              Job("sync", Portal, NewBundle, Empty, "")}
        ELSE {Job("sync", Shop, EncryptedBundle, Empty, ""),
              Job("leaf", Shop, NewBundle, Empty, "merge"),
              Job("sync", Portal, EncryptedBundle, Empty, "")}]

(***************************************************************************)
(* A transaction its caller drives, beside a managed call.                 *)
(***************************************************************************)
MCOwnedJobs ==
    [s \in {"owned", "managed"} |->
        IF s = "owned"
        THEN {Job("sync", Portal, NewBundle, Empty, ""),
              Job("sync", Shop, EncryptedBundle, Empty, ""),
              Job("get", Shop, NewBundle, Empty, "")}
        ELSE {Job("sync", Shop, NewBundle, Empty, "merge")}]
MCOwnedClientOf == [s \in {"owned", "managed"} |-> "client"]
=============================================================================
