SPECIFICATION FairSpec
CONSTANTS
    Manifests <- MCManifests
    Malformed <- MCMalformed
    Bundles <- MCBundles
    Versions <- MCVersions
    Content <- MCContent
    Ids <- MCIds
    Managed <- MCManaged
    MatcherOf <- MCMatcherOf
    Values <- MCValues
    None = None
    Mine = Mine
    Absent = Absent
    Corrupt = Corrupt
    NotUpdated = NotUpdated
    NoManifest = NoManifest
    InitialFiles <- MCInitialFiles
    MaxPublishes = 1
    MaxEdits = 0
    MaxCrashes = 0
PROPERTY RevokedEntriesGo
CHECK_DEADLOCK FALSE
