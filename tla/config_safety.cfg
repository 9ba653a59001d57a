SPECIFICATION Spec
CONSTANTS
    Builds <- TwoBuilds
    NoBuild = "none"
    VersionOf <- SameVersion
    UUIDOf <- OwnUUID
    Upgrades <- FirstToSecond
    Incompatible <- FirstToSecond
    Namespaces <- OneNamespace
    DefaultNamespace = "pipelines"
    RawNamespace = "pipelines"
    AutoInstall = FALSE
    CatalogWanted = FALSE
    Limits <- Recreate
CHECK_DEADLOCK FALSE
INVARIANTS
    TypeOK
    IInv
    ManifestInPlace
    NoTeardownOfLiveInstall
PROPERTIES
    OwnedWhenRecorded
    FollowsLifecycle
