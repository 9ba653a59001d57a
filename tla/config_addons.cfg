SPECIFICATION Spec
CONSTANTS
    Builds <- OneBuild
    NoBuild = "none"
    VersionOf <- MCVersionOf
    UUIDOf <- MCUUIDOf
    Upgrades <- NoPairs
    Incompatible <- NoPairs
    Namespaces <- OneNamespace
    DefaultNamespace = "pipelines"
    RawNamespace = "pipelines"
    AutoInstall = TRUE
    CatalogWanted = FALSE
    Limits <- OneFault
CHECK_DEADLOCK FALSE
INVARIANTS
    InstalledHasAddons
