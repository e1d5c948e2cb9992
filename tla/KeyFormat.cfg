\* SyncKey succeeds without storing the key in the form it was given.
SPECIFICATION Spec
CONSTANTS
    oldCert = oldCert
    newCert = newCert
    other = other
    ca = ca
    key1 = key1
    key2 = key2
    secret = secret
    Certificates = {oldCert, newCert, other, ca}
    PrivateKeys = {key1, key2}
    Passphrases = {secret}
    KeyOf <- MCKeyOf
    CAs = {ca}
    Signed <- MCSigned
    None = None
    Empty = Empty
    Plain = Plain
    Legacy = Legacy
    CertificateIds <- MCCertificateIds
    VirtualHosts = {"portal", "shop", "twin1", "twin2"}
    Names = {"portal", "shop", "twin"}
    NameOf <- MCSharedNameOf
    Transactions = {"first", "second"}
    Owned = {}
    Clients = {"client"}
    ClientOf <- MCOneClientOf
    JobsOf <- MCOneClientJobs
    CommitPolicies = {}
    InitialConfigurations <- MCSharedInitial
    AdminAttributes <- MCAdminAttributes
    FirstId = 2
    MaxStages = 0
    MaxFaults = 2
    MaxRevisions = 1
INVARIANTS
    KeyStoredAsSupplied
