SPECIFICATION FairSpec
CONSTANTS
    Builds <- OneBuild
    NoBuild = "none"
    VersionOf <- MCVersionOf
    UUIDOf <- MCUUIDOf
    Upgrades <- NoPairs
    Incompatible <- NoPairs
    Namespaces <- TwoNamespaces
    DefaultNamespace = "pipelines"
    RawNamespace = "other"
    AutoInstall = FALSE
    CatalogWanted = TRUE
    Limits <- FaultCrashDelete
CHECK_DEADLOCK FALSE
PROPERTIES
    SeenDeletionCleansUp
