\* Two goroutines that stage and one that commits, aborts or reads.
SPECIFICATION FairSpec
CONSTANTS
    oldCert = oldCert
    newCert = newCert
    other = other
    ca = ca
    key1 = key1
    key2 = key2
    secret = secret
    Certificates = {oldCert, newCert, other, ca}
    PrivateKeys = {key1, key2}
    Passphrases = {secret}
    KeyOf <- MCKeyOf
    CAs = {ca}
    Signed <- MCSigned
    None = None
    Empty = Empty
    Plain = Plain
    Legacy = Legacy
    CertificateIds <- MCCertificateIds
    VirtualHosts = {"portal", "shop"}
    Names = {"portal", "shop"}
    NameOf <- MCNameOf
    Goroutines = {"first", "second", "owner"}
    CallsOf <- MCCalls
    Loaded <- MCLoaded
    FirstId = 2
    MaxFaults = 2
INVARIANTS
    TypeOK
    OneAtATime
    BoundOnce
    StagedIsActive
PROPERTIES
    CallsAreSequential
    CallsReturn
