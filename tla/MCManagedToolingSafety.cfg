SPECIFICATION FairSpec
CONSTANTS
    Manifests <- MCManifests
    Malformed <- MCMalformed
    Bundles <- MCBundles
    Versions <- MCVersions
    Content <- MCContent
    Ids <- MCIds
    Managed <- MCManaged
    MatcherOf <- MCMatcherOf
    Values <- MCValues
    None = None
    Mine = Mine
    Absent = Absent
    Corrupt = Corrupt
    NotUpdated = NotUpdated
    NoManifest = NoManifest
    InitialFiles <- MCInitialFiles
    MaxPublishes = 2
    MaxEdits = 1
    MaxCrashes = 1
INVARIANTS
    TypeOK
    RollbackRestores
    SuccessInstalls
    RegistryOwns
PROPERTY ChangesAreHandled
CHECK_DEADLOCK FALSE
