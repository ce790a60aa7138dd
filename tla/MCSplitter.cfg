\* The splitters over a directory an earlier run left, and the digit
\* conversion and version order of Versions.
CONSTANTS
    Scripts     = {"dot", "svg"}
    FileSystems <- MCFileSystems
    Patterns    <- MCPatterns
    Bad         = Bad
SPECIFICATION MCSpec
INVARIANT DigitsAreDecimal
INVARIANT IsGreaterIsLexOrder
INVARIANT SplitFaithful
\* The scripts end: "done" has no successor.
CHECK_DEADLOCK FALSE
