\* A remote page that does not list a package.
CONSTANTS
    Nodes    <- MCNodes
    Sons     <- MCSons
    Root     = "root"
    PackName <- MCPackName
    Labels   <- MCLabels
    Comps    <- MCComps
    None     = None
    Bad      = Bad
SPECIFICATION Spec
INVARIANT PageGoesOn
