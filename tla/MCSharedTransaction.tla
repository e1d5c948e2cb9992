------------------------ MODULE MCSharedTransaction ------------------------
(***************************************************************************)
(* Small instances of SharedTransaction: the virtual host portal has the   *)
(* built-in certificate -1, shop the resource 1. Two goroutines stage, a   *)
(* third commits, aborts or reads whenever it gets t.mu.                   *)
(***************************************************************************)
EXTENDS SharedTransaction

CONSTANTS oldCert, newCert, other, ca, key1, key2, secret

MCKeyOf == [c \in {oldCert, newCert, other, ca} |-> IF c \in {oldCert, newCert} THEN key1 ELSE key2]
MCSigned == {oldCert, newCert, other} \X {ca}
MCCertificateIds == {-1, 1, 2, 3}
MCNameOf == [v \in {"portal", "shop"} |-> v]

Key(k, encryption, passphrase) ==
    [pem |-> [key |-> k, encryption |-> encryption], passphrase |-> passphrase]

Bundle(certificate, key, chain) ==
    CHOOSE b \in NewCertificateBundle("SERVER_CERT", certificate, key, chain, None) : TRUE

OldBundle == Bundle(oldCert, Key(key1, Plain, Empty), << >>)
NewBundle == Bundle(newCert, Key(key1, Plain, Empty), <<ca>>)
EncryptedBundle == Bundle(newCert, Key(key1, secret, secret), <<ca>>)
OtherBundle == Bundle(other, Key(key2, secret, secret), <<ca>>)
EditedBundle == [NewBundle EXCEPT !.certificate = oldCert]

Portal == [kind |-> "virtualHost", name |-> "portal"]
Shop == [kind |-> "virtualHost", name |-> "shop"]
Id(i) == [kind |-> "id", id |-> i]

MCLoaded ==
    {[certificates |-> [i \in MCCertificateIds |->
        CASE i = -1 -> AttributesFromBundle(OtherBundle)
          [] i = 1  -> AttributesFromBundle(OldBundle)
          [] OTHER  -> None],
     bound |-> [v \in {"portal", "shop"} |-> IF v = "portal" THEN -1 ELSE 1]]}

TransactionCall(operation, target, bundle) ==
    [operation |-> operation, target |-> target, bundle |-> bundle, passphrase |-> secret]

MCCalls ==
    [g \in {"first", "second", "owner"} |->
        CASE g = "first" ->
                {TransactionCall("sync", Portal, NewBundle),
                 TransactionCall("leaf", Shop, NewBundle),
                 TransactionCall("create", Portal, OtherBundle)}
          [] g = "second" ->
                {TransactionCall("sync", Portal, OtherBundle),
                 TransactionCall("sync", Portal, EncryptedBundle),
                 TransactionCall("key", Shop, EncryptedBundle),
                 TransactionCall("sync", Shop, EditedBundle),
                 TransactionCall("sync", Id(-1), NewBundle)}
          [] g = "owner" ->
                {TransactionCall("commit", Portal, OldBundle),
                 TransactionCall("abort", Portal, OldBundle),
                 TransactionCall("get", Portal, OldBundle),
                 TransactionCall("get", Shop, OldBundle)}]
=============================================================================
