CONSTANTS
    t1 = t1
    t2 = t2
    ps1 = ps1
    ps2 = ps2
    None = None
    NoThread = NoThread
    Threads <- MCOneThread
    PSpaces <- MCPSpaces
    LabeledVolume <- MCLabeledVolume
    SearchVolume <- MCSearchVolume
    ReprVolume <- MCReprVolume
    Unit <- MCUnit
    MaxUpdates = 2
    Serialize = TRUE
SPECIFICATION Spec
\* Every thread ends after its finalize call, so the run stops by design.
CHECK_DEADLOCK FALSE
INVARIANT SnapshotConsistent
