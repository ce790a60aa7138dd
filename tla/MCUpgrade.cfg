\* Upgrade planner: setAction against its rule, findPacks keeping the
\* greatest version, and the directories Installer will chdir into.
CONSTANTS
    Nodes    <- MCNodes
    Sons     <- MCSons
    Root     = "root"
    PackName <- MCPackName
    Labels   <- MCLabels
    Comps    <- MCComps
    None     = None
    Bad      = Bad
SPECIFICATION Spec
INVARIANT SetActionMatchesRule
INVARIANT KeptIsGreatest
INVARIANT SourcesPresent
