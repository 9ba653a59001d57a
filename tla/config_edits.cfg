SPECIFICATION Spec
CONSTANTS
    Builds <- OneBuild
    NoBuild = "none"
    VersionOf <- MCVersionOf
    UUIDOf <- MCUUIDOf
    Upgrades <- NoPairs
    Incompatible <- NoPairs
    Namespaces <- TwoNamespaces
    DefaultNamespace = "pipelines"
    RawNamespace = "other"
    AutoInstall = FALSE
    CatalogWanted = FALSE
    Limits <- FaultEditDelete
CHECK_DEADLOCK FALSE
PROPERTIES
    OwnedWhenRecorded
    FollowsLifecycle
