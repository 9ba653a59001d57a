SPECIFICATION FairSpec
CONSTANTS
    Builds <- OneBuild
    NoBuild = "none"
    VersionOf <- MCVersionOf
    UUIDOf <- MCUUIDOf
    Upgrades <- NoPairs
    Incompatible <- NoPairs
    Namespaces <- OneNamespace
    DefaultNamespace = "pipelines"
    RawNamespace = "pipelines"
    AutoInstall = FALSE
    CatalogWanted = FALSE
    Limits <- CrashAndDelete
CHECK_DEADLOCK FALSE
PROPERTIES
    DeletionCleansUp
