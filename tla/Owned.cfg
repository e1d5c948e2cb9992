\* A transaction its caller drives, beside a managed call of one client.
SPECIFICATION Spec
CONSTANTS
    oldCert = oldCert
    newCert = newCert
    other = other
    ca = ca
    key1 = key1
    key2 = key2
    secret = secret
    Certificates = {oldCert, newCert, other, ca}
    PrivateKeys = {key1, key2}
    Passphrases = {secret}
    KeyOf <- MCKeyOf
    CAs = {ca}
    Signed <- MCSigned
    None = None
    Empty = Empty
    Plain = Plain
    Legacy = Legacy
    CertificateIds <- MCCertificateIds
    VirtualHosts = {"portal", "shop"}
    Names = {"portal", "shop"}
    NameOf <- MCNameOf
    Transactions = {"owned", "managed"}
    Owned = {"owned"}
    Clients = {"client"}
    ClientOf <- MCOwnedClientOf
    JobsOf <- MCOwnedJobs
    CommitPolicies = {"", "merge", "overwrite"}
    InitialConfigurations <- MCInitial
    AdminAttributes <- MCAdminAttributes
    FirstId = 2
    MaxStages = 2
    MaxFaults = 2
    MaxRevisions = 1
INVARIANTS
    NoLostUpdate
    AtMostOneActivation
    SessionsTerminated
