CONSTANTS
    Manifests <- Ordered
    PageSets <- MCPageSets
    MaxLen = 5
    None = None
    NetMayFail = TRUE
SPECIFICATION WizardSpec
INVARIANT WizardTypeOK
INVARIANT ManifestFaithful
INVARIANT VersionsFromOwnRow
INVARIANT InstallPageReady
INVARIANT NoRestartDuringWork
PROPERTY FetchAnswered
\* The window is closed at the end, and a slot that raised leaves the
\* modal ProgressDialog open: the wizard may stop.
CHECK_DEADLOCK FALSE
