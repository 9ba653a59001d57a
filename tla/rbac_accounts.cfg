SPECIFICATION FairSpec
CONSTANTS
    Namespaces <- TwoNamespaces
    Ignored <- Platform
    Account = "pipeline"
    Others <- OneUser
    NoBinding <- NoSubjects
    Limits <- OneOfEach
INVARIANTS
    TypeOK
    IInv
    NoForgottenNamespace
PROPERTIES
    FollowsAccess
    EventuallyProvisioned
