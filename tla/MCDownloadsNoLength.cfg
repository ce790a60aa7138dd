\* A server that sends no Content-Length; transfers do not fail.
CONSTANTS
    N          = 3
    GroupSize  = 2
    Blocks     = 2
    Headers    = {"len", "none"}
    NetMayFail = FALSE
SPECIFICATION Spec
\* Once every transfer has ended the page waits for the user.
CHECK_DEADLOCK FALSE
PROPERTY OutcomeReported
