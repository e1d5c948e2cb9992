\* One resource synchronized again and again.
SPECIFICATION Spec
CONSTANTS
    leaf1 = leaf1
    leaf2 = leaf2
    intermediate = intermediate
    root = root
    key1 = key1
    key2 = key2
    key3 = key3
    secret1 = secret1
    secret2 = secret2
    Certificates = {leaf1, leaf2, intermediate, root}
    PrivateKeys = {key1, key2, key3}
    Passphrases = {secret1, secret2}
    KeyOf <- MCKeyOf
    CAs = {intermediate, root}
    Signed <- MCSigned
    None = None
    Empty = Empty
    Plain = Plain
    Legacy = Legacy
    CertificateIds <- MCCertificateIds
    VirtualHosts = {"shop"}
    Names = {"shop"}
    NameOf <- MCNameOf
    Resource = 1
    InitialAttributes <- MCInitialAttributes
    Jobs <- MCJobs
    Omitted = Omitted
    Files <- MCFiles
INVARIANTS
    StoredIsSound
    SyncIsIdempotent
    ChecksumIdentifiesBundle
PROPERTIES
    OtherHalfIsKept
    FilesLeaveServable
