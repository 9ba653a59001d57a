SPECIFICATION Spec
CONSTANTS
    Resources <- Shipped
    External <- Monitoring
    Targets <- TwoTargets
    Deployments <- Started
    MaxUid = 2
    Keys <- KeysOf
INVARIANTS
    TypeOK
    LatestOwner
    NoResidue
    NoCollision
    ReferencesResolve
    PipelinesRun
    OverridesHonoured
