\* One edit during the build, at most one import.
SPECIFICATION Spec
CONSTANTS
    app = app
    util = util
    core = core
    prelude = prelude
    Ids <- MCIds
    StdIds <- MCStdIds
    StdManifest <- MCStdManifest
    PreludeId = prelude
    Manifests <- MCManifests
    Entry = app
    MaxSources = 2
    Edits = 1
    MaxImports = 1
    NoInterface = NoInterface
INVARIANTS
    SortExact
    LayersSound
    ImportsFresh
    HashCascades
    ImportsLinked
PROPERTY
    BuildEnds
CHECK_DEADLOCK FALSE
