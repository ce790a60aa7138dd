\* Three downloads in groups of two, two blocks each; a server may send a
\* zero Content-Length and a transfer may fail.
CONSTANTS
    N          = 3
    GroupSize  = 2
    Blocks     = 2
    Headers    = {"len", "zero"}
    NetMayFail = TRUE
SPECIFICATION Spec
\* Once every transfer has ended the page waits for the user.
CHECK_DEADLOCK FALSE
INVARIANT TypeOK
INVARIANT GroupBound
INVARIANT NextMeansDownloaded
PROPERTY OutcomeReported
