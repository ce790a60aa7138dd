CONSTANTS
    Nodes <- MCNodes
    Sons <- MCSons
    Root = "root"
    MaxRuns = 1
    RemovalMayFail = TRUE
    PopenMayRaise = TRUE
SPECIFICATION Spec
INVARIANT TypeOK
INVARIANT CompletionMeansInstalled
PROPERTY ProgressMatchesOps
PROPERTY ImplementsInstallerSpec
\* The wizard stops once the outcome is shown and waits for the user.
CHECK_DEADLOCK FALSE
