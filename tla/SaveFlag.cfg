\* An invocation with both flags is not saved.
SPECIFICATION Spec
CONSTANTS
    Invocations = {"first", "second"}
    CommandsOf <- MCCommandsOf
    CertificateIds <- MCCertificateIds
    Fields <- MCFields
    Values = {"old", "new", "ca"}
    Omitted = Omitted
    Unset = Unset
    Targets <- MCTargets
    RelationshipOf <- MCRelationshipOf
    ToOne = {"vh1", "vh2", "group"}
    BuiltIn = {"default"}
    None = None
    InitialConfigurations <- MCInitial
    FirstId = 3
    MaxFaults = 2
    MaxRevisions = 2
    Spellings <- MCSpellings
    LowerCase <- MCLowerCase
    AddressOf <- MCAddressOf
    NoPEM = NoPEM
INVARIANTS
    SavedAsRequested
