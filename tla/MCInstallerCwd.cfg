CONSTANTS
    Nodes <- MCNodes
    Sons <- MCSons
    Root = "root"
    MaxRuns = 2
    RemovalMayFail = FALSE
    PopenMayRaise = FALSE
SPECIFICATION Spec
PROPERTY CommandsRunInOwnDir
\* The wizard stops once the outcome is shown and waits for the user.
CHECK_DEADLOCK FALSE
