SPECIFICATION FairSpec
CONSTANTS
    Builds <- TwoBuilds
    NoBuild = "none"
    VersionOf <- MCVersionOf
    UUIDOf <- MCUUIDOf
    Upgrades <- FirstToSecond
    Incompatible <- FirstToSecond
    Namespaces <- OneNamespace
    DefaultNamespace = "pipelines"
    RawNamespace = "pipelines"
    AutoInstall = TRUE
    CatalogWanted = TRUE
    Limits <- FaultStallCrash
CHECK_DEADLOCK FALSE
PROPERTIES
    EventuallyInstalled
    EventuallyQuiet
