\* A second check after an upgrade from 1.9 to 1.10.
CONSTANTS
    Nodes    <- MCNodes
    Sons     <- MCSons
    Root     = "root"
    PackName <- MCPackName
    Labels   <- MCLabels
    Comps    <- MCComps
    None     = None
    Bad      = Bad
SPECIFICATION Spec
INVARIANT UpgradeConverges
