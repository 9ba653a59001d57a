SPECIFICATION Spec
CONSTANTS
    Builds <- TwoBuilds
    NoBuild = "none"
    VersionOf <- MCVersionOf
    UUIDOf <- MCUUIDOf
    Upgrades <- FirstToSecond
    Incompatible <- NoPairs
    Namespaces <- OneNamespace
    DefaultNamespace = "pipelines"
    RawNamespace = "pipelines"
    AutoInstall = TRUE
    CatalogWanted = FALSE
    Limits <- Nothing
CHECK_DEADLOCK FALSE
INVARIANTS
    InstalledVersionDeployed
