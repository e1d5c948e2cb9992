\* Two clients and the Configuration Center, on one Gateway.
SPECIFICATION Spec
CONSTANTS
    oldCert = oldCert
    newCert = newCert
    other = other
    ca = ca
    key1 = key1
    key2 = key2
    secret = secret
    Certificates = {oldCert, newCert, other, ca}
    PrivateKeys = {key1, key2}
    Passphrases = {secret}
    KeyOf <- MCKeyOf
    CAs = {ca}
    Signed <- MCSigned
    None = None
    Empty = Empty
    Plain = Plain
    Legacy = Legacy
    CertificateIds <- MCCertificateIds
    VirtualHosts = {"portal", "shop"}
    Names = {"portal", "shop"}
    NameOf <- MCNameOf
    Transactions = {"first", "second"}
    Owned = {}
    Clients = {"first", "second"}
    ClientOf <- MCTwoClientsOf
    JobsOf <- MCTwoClientsJobs
    CommitPolicies = {}
    InitialConfigurations <- MCPlainInitial
    AdminAttributes <- MCAdminAttributes
    FirstId = 2
    MaxStages = 0
    MaxFaults = 1
    MaxRevisions = 3
INVARIANTS
    NoLostUpdate
    AllOrNothing
    SuccessIsInstalled
    NoMismatchedPair
PROPERTIES
    RotatesAtomically
