\* The directories deletePackages leaves behind.
CONSTANTS
    Nodes    <- MCNodes
    Sons     <- MCSons
    Root     = "root"
    PackName <- MCPackName
    Labels   <- MCLabels
    Comps    <- MCComps
    None     = None
    Bad      = Bad
SPECIFICATION Spec
INVARIANT CleanupRemovesOlder
