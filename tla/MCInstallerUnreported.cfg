\* A failed removal of an old directory, or Popen raising at make install.
CONSTANTS
    Nodes <- MCNodes
    Sons <- MCSons
    Root = "root"
    MaxRuns = 1
    RemovalMayFail = TRUE
    PopenMayRaise = TRUE
SPECIFICATION Spec
PROPERTY OutcomeReported
\* The wizard stops once the outcome is shown and waits for the user.
CHECK_DEADLOCK FALSE
