------------------------------ MODULE Wizard ------------------------------
(***************************************************************************)
(* The wizard (ui/MainWindow.py and its pages) composed with the thread   *)
(* that builds the package tree (Catalog).  MainWindow.list holds the     *)
(* pages FirstWid, DownloadWid, InstallWid, BashWid and LastWid; a button *)
(* of a page calls moveTo.  DownloadWid.start parses the manifest into a  *)
(* new Tree in the GUI thread and starts a NetworkManager, whose queued   *)
(* signal runs the slot of the chosen action; the slot closes the modal   *)
(* ProgressDialog with the action that decides what the page offers next. *)
(*                                                                         *)
(* What the slots derive from the source directory (whether getOldNodes   *)
(* raises, and whether it finds packages to upgrade) is an input here;    *)
(* Upgrade computes it from the directory listing.  The downloads         *)
(* (Downloads) and the build (Installer) are reduced to their outcome     *)
(* signals.  Every dialog but the ProgressDialog and the UpgradeDialog is *)
(* a message box shown inside the slot that opens it.                     *)
(***************************************************************************)
EXTENDS Catalog

\* MainWindow.INSTALL, UPGRADE and REBUILD.
Modes   == {"INSTALL", "UPGRADE", "REBUILD"}
\* MainWindow.list, in order.
Widgets == <<"first", "download", "install", "bash", "last">>

VARIABLES page,      \* MainWindow.mainWidget, or "closed"
          action,    \* MainWindow.action
          backBtn,   \* DownloadWid.backButton enabled
          startBtn,  \* DownloadWid.startButton enabled
          nextBtn,   \* DownloadWid.nextButton enabled
          progress,  \* DownloadWid.progress: "none", "open", "asking", "closed"
          upList,    \* the list the UpgradeDialog shows is not empty
          nm,        \* the NetworkManager: "idle", "running", "done"
          treeMode,  \* MainWindow.tree: None, or the action it was planned for
          srcSet,    \* MainWindow.sourceDir has been set
          down,      \* DownTableWidget: "idle", "running", "done", "failed"
          inst,      \* InstallWid: "ready", "running", "done"
          okBtn      \* BashWid.okButton enabled

wvars == <<page, action, backBtn, startBtn, nextBtn, progress, upList, nm,
           treeMode, srcSet, down, inst, okBtn>>
all   == <<vars, wvars>>

WizardTypeOK ==
    /\ TypeOK
    /\ page \in Range(Widgets) \cup {"closed"}
    /\ action \in Modes \cup {None} /\ treeMode \in Modes \cup {None}
    /\ {backBtn, startBtn, nextBtn, upList, srcSet, okBtn} \subseteq BOOLEAN
    /\ progress \in {"none", "open", "asking", "closed"}
    /\ nm \in {"idle", "running", "done"}
    /\ down \in {"idle", "running", "done", "failed"}
    /\ inst \in {"ready", "running", "done"}

\* MainWindow.__init__ shows FirstWid; DownloadWid.setupUi disables Next.
WizardInit ==
    /\ Init
    /\ page = "first" /\ action = None /\ treeMode = None /\ srcSet = FALSE
    /\ backBtn = TRUE /\ startBtn = TRUE /\ nextBtn = FALSE
    /\ progress = "none" /\ upList = FALSE /\ nm = "idle"
    /\ down = "idle" /\ inst = "ready" /\ okBtn = TRUE

\* moveTo(offset) and switch: the page offset places after the current one.
MoveTo(offset) ==
    page' = Widgets[(CHOOSE k \in DOMAIN Widgets : Widgets[k] = page) + offset]

\* The ProgressDialog and the UpgradeDialog are modal.
Free == progress \notin {"open", "asking"}

\* closeEvent with ProgressDialog.ERROR: Back and Start enabled again and a
\* message box shown.
ErrorClose == backBtn' = TRUE /\ startBtn' = TRUE /\ progress' = "closed"

-----------------------------------------------------------------------------
(* The user *)

\* DownloadWid.showEvent, on the show switch makes: the source line
\* emptied, Start enabled, Next disabled, the texts of the action set.
Shown == startBtn' = TRUE /\ nextBtn' = FALSE

\* FirstWid.install, upgrade or rebuild: the action is set and the
\* DownloadWid shown.
Choose(m) ==
    /\ page = "first" /\ action' = m /\ MoveTo(1) /\ Shown
    /\ UNCHANGED <<vars, backBtn, progress, upList, nm, treeMode, srcSet,
                   down, inst, okBtn>>

\* Tree(CONFIG_FILE) and NetworkManager(tree): the state Fresh describes,
\* for the same manifest and pages.
NewTree ==
    /\ pos' = 1 /\ repos' = 0 /\ root' = 0 /\ node' = 0
    /\ sons' = [i \in Pos |-> <<>>] /\ status' = "parsing"
    /\ pg' = 1 /\ tok' = 0 /\ packId' = None /\ match' = FALSE
    /\ names' = <<>> /\ vers' = <<>> /\ version' = [i \in Pos |-> None]
    /\ UNCHANGED <<manifest, pages>>

\* DownloadWid.start with a source directory: the modal ProgressDialog,
\* Back and Start disabled, Tree(CONFIG_FILE) and a NetworkManager.  An
\* empty source line only shows a message box.
StartFetch ==
    /\ page = "download" /\ Free /\ startBtn
    /\ progress' = "open" /\ backBtn' = FALSE /\ startBtn' = FALSE
    /\ nm' = "running" /\ NewTree
    /\ UNCHANGED <<page, action, nextBtn, upList, treeMode, srcSet, down, inst, okBtn>>

\* DownloadWid.prev and next.
Back ==
    /\ page = "download" /\ Free /\ backBtn /\ MoveTo(-1)
    /\ UNCHANGED <<vars, action, backBtn, startBtn, nextBtn, progress, upList,
                   nm, treeMode, srcSet, down, inst, okBtn>>
NextPage ==
    /\ page = "download" /\ Free /\ nextBtn /\ MoveTo(1)
    /\ UNCHANGED <<vars, action, backBtn, startBtn, nextBtn, progress, upList,
                   nm, treeMode, srcSet, down, inst, okBtn>>

\* showDialog: UpgradeDialog.exec_ runs inside closeEvent.  Upgrade is
\* disabled on an empty list; accepting starts the downloads, cancelling
\* enables Start and Back.  closeEvent then closes the ProgressDialog.
\* Variants for mutation checks: accepting also enables Next (the line
\* left commented out in showDialog), or also enables Start and Back.
AcceptEnablesNext ==
    /\ progress = "asking" /\ upList
    /\ srcSet' = TRUE /\ down' = "running" /\ progress' = "closed" /\ nextBtn' = TRUE
    /\ UNCHANGED <<vars, page, action, backBtn, startBtn, upList, nm, treeMode,
                   inst, okBtn>>
AcceptReenables ==
    /\ progress = "asking" /\ upList
    /\ srcSet' = TRUE /\ down' = "running" /\ progress' = "closed"
    /\ backBtn' = TRUE /\ startBtn' = TRUE
    /\ UNCHANGED <<vars, page, action, nextBtn, upList, nm, treeMode, inst, okBtn>>

Accept ==
    /\ progress = "asking" /\ upList
    /\ srcSet' = TRUE /\ down' = "running" /\ progress' = "closed"
    /\ UNCHANGED <<vars, page, action, backBtn, startBtn, nextBtn, upList, nm,
                   treeMode, inst, okBtn>>
Reject ==
    /\ progress = "asking"
    /\ backBtn' = TRUE /\ startBtn' = TRUE /\ progress' = "closed"
    /\ UNCHANGED <<vars, page, action, nextBtn, upList, nm, treeMode, srcSet,
                   down, inst, okBtn>>

-----------------------------------------------------------------------------
(* The slots the NetworkManager's signals run in the GUI thread *)

\* The thread: the manifest parse inside start, then NetworkManager.run.
Thread == nm = "running" /\ (Parse \/ Fetch) /\ UNCHANGED wvars

Answered(s) == nm = "running" /\ status = s /\ nm' = "done"

\* Tree() raised in start, or run emitted connectionError
\* (manageConnectionError): an ERROR close.
ParseFailed ==
    /\ Answered("parseError") /\ ErrorClose
    /\ UNCHANGED <<vars, page, action, nextBtn, upList, treeMode, srcSet, down,
                   inst, okBtn>>
\* Variant for mutation checks: connectionError reaches no slot.
ConnectionErrorUnconnected ==
    /\ Answered("connError")
    /\ UNCHANGED <<vars, page, action, backBtn, startBtn, nextBtn, progress, upList,
                   treeMode, srcSet, down, inst, okBtn>>
ConnectionError ==
    /\ Answered("connError") /\ ErrorClose
    /\ UNCHANGED <<vars, page, action, nextBtn, upList, treeMode, srcSet, down,
                   inst, okBtn>>

\* A node of the tree has no version: the concatenations in check and in
\* DownTableWidget.myAddRow raise.
SomeNone == \E i \in Reach(root) : version[i] = None

\* startDownload: the tree and the source directory are handed to
\* MainWindow, and closeEvent with START_DOWN starts the downloads of the
\* INSTALL nodes, every node of a fresh Tree.  When myAddRow raises, the
\* ProgressDialog is never closed.
StartDownload ==
    /\ Answered("complete") /\ action = "INSTALL"
    /\ treeMode' = "INSTALL" /\ srcSet' = TRUE
    /\ IF SomeNone THEN UNCHANGED <<progress, down>>
                    ELSE progress' = "closed" /\ down' = "running"
    /\ UNCHANGED <<vars, page, action, backBtn, startBtn, nextBtn, upList, inst, okBtn>>

\* check: getOldNodes raising on the source directory is an ERROR close;
\* else the tree is planned and handed over, and closeEvent with CHECK
\* shows the UpgradeDialog.  A node without a version is always outdated,
\* and its concatenation raises before the dialog is shown.
Check ==
    /\ Answered("complete") /\ action = "UPGRADE"
    /\ \E srcOk \in BOOLEAN, outdated \in IF SomeNone THEN {TRUE} ELSE BOOLEAN :
          IF ~srcOk
          THEN ErrorClose /\ UNCHANGED <<treeMode, upList>>
          ELSE /\ treeMode' = "UPGRADE" /\ upList' = outdated
               /\ IF SomeNone THEN UNCHANGED <<backBtn, startBtn, progress>>
                              ELSE progress' = "asking" /\ UNCHANGED <<backBtn, startBtn>>
    /\ UNCHANGED <<vars, page, action, nextBtn, srcSet, down, inst, okBtn>>

\* checkForRebuild: an ERROR close when getOldNodes raises or finds an
\* outdated package (after the tree was handed over); else the source
\* directory is handed over and closeEvent with REBUILD enables Next.
CheckForRebuild ==
    /\ Answered("complete") /\ action = "REBUILD"
    /\ \E srcOk \in BOOLEAN, outdated \in IF SomeNone THEN {TRUE} ELSE BOOLEAN :
          /\ treeMode' = IF srcOk THEN "REBUILD" ELSE treeMode
          /\ IF ~srcOk \/ outdated
             THEN ErrorClose /\ UNCHANGED <<nextBtn, srcSet>>
             ELSE /\ srcSet' = TRUE /\ nextBtn' = TRUE /\ progress' = "closed"
                  /\ UNCHANGED <<backBtn, startBtn>>
    /\ UNCHANGED <<vars, page, action, upList, down, inst, okBtn>>

Slot == ParseFailed \/ ConnectionError \/ StartDownload \/ Check \/ CheckForRebuild

-----------------------------------------------------------------------------
(* Downloads, build, and the last pages *)

\* DownTableWidget.manageCompletion counts the last downloadCompleted and
\* enables Next; manageDownError only shows a message box.
DownloadsDone ==
    /\ down = "running" /\ down' = "done" /\ nextBtn' = TRUE
    /\ UNCHANGED <<vars, page, action, backBtn, startBtn, progress, upList, nm,
                   treeMode, srcSet, inst, okBtn>>
DownloadFailed ==
    /\ down = "running" /\ down' = "failed"
    /\ UNCHANGED <<vars, page, action, backBtn, startBtn, nextBtn, progress,
                   upList, nm, treeMode, srcSet, inst, okBtn>>

\* InstallWid.start with a directory given starts the Installer;
\* completion enables Next, and manageError, once its dialog is closed,
\* enables Start again.
InstallStart ==
    /\ page = "install" /\ inst = "ready" /\ inst' = "running"
    /\ UNCHANGED <<vars, page, action, backBtn, startBtn, nextBtn, progress,
                   upList, nm, treeMode, srcSet, down, okBtn>>
InstallEnd ==
    /\ inst = "running" /\ inst' \in {"done", "ready"}
    /\ UNCHANGED <<vars, page, action, backBtn, startBtn, nextBtn, progress,
                   upList, nm, treeMode, srcSet, down, okBtn>>

\* BashWid.showEvent reads ~/.bashrc, if it can, and shows the lines it
\* would add; when it cannot, OK is disabled.
BashShown == okBtn' \in BOOLEAN

\* InstallWid.next: BashWid after an installation, LastWid otherwise.
InstallNext ==
    /\ page = "install" /\ inst = "done"
    /\ IF action = "INSTALL" THEN MoveTo(1) /\ BashShown
                              ELSE MoveTo(2) /\ UNCHANGED okBtn
    /\ UNCHANGED <<vars, action, backBtn, startBtn, nextBtn, progress, upList,
                   nm, treeMode, srcSet, down, inst>>

\* BashWid.write appends the lines and moves on, or disables OK when
\* ~/.bashrc cannot be opened for appending; Cancel (next) moves on.
BashOk ==
    /\ page = "bash" /\ okBtn
    /\ \/ MoveTo(1) /\ UNCHANGED okBtn
       \/ okBtn' = FALSE /\ UNCHANGED page
    /\ UNCHANGED <<vars, action, backBtn, startBtn, nextBtn, progress, upList,
                   nm, treeMode, srcSet, down, inst>>
BashCancel ==
    /\ page = "bash" /\ MoveTo(1)
    /\ UNCHANGED <<vars, action, backBtn, startBtn, nextBtn, progress, upList,
                   nm, treeMode, srcSet, down, inst, okBtn>>

\* LastWid's Finish closes the main window.
Finish ==
    /\ page = "last" /\ page' = "closed"
    /\ UNCHANGED <<vars, action, backBtn, startBtn, nextBtn, progress, upList,
                   nm, treeMode, srcSet, down, inst, okBtn>>

-----------------------------------------------------------------------------
User == \/ \E m \in Modes : Choose(m)
        \/ StartFetch \/ Back \/ NextPage \/ Accept \/ Reject
        \/ InstallStart \/ InstallNext \/ BashOk \/ BashCancel \/ Finish

WizardNext == User \/ Thread \/ Slot \/ DownloadsDone \/ DownloadFailed \/ InstallEnd

\* The thread and Qt's event loop never stop while they have work; the
\* user, the transfers and the build are not forced.
WizardSpec == WizardInit /\ [][WizardNext]_all /\ WF_all(Thread) /\ WF_all(Slot)
-----------------------------------------------------------------------------
\* InstallWid.start builds parent.tree in parent.sourceDir.  Whatever the
\* user did on the earlier pages (Back, another action, another Start),
\* the install page and those after it are reached only with the tree the
\* slot of the action chosen last planned, a source directory, and, unless
\* the action is a rebuild, every download finished.
InstallPageReady ==
    page \in {"install", "bash", "last", "closed"} =>
        /\ treeMode = action /\ srcSet
        /\ action # "REBUILD" => down = "done"

\* DownloadWid offers Start or Back only when no NetworkManager of an
\* earlier Start runs, none of its dialogs is open, and DownTableWidget has
\* not started: its downloaders list and its counter are never reset, so a
\* second startDownload would run and count the first one's transfers.
NoRestartDuringWork ==
    page = "download" /\ (startBtn \/ backBtn) =>
        nm # "running" /\ Free /\ down = "idle"

\* The pages of the manifest's repositories list every package.
NRepos    == Cardinality({i \in DOMAIN manifest : manifest[i].kind = "repository"})
AllListed == \A i \in Packages : Listed(Name(i), NRepos) # None

\* When every package is listed, the ProgressDialog Start opens is closed
\* by the thread's signal and its slot, or gives way to the UpgradeDialog:
\* the modal dialog never blocks the wizard.
FetchAnswered == (progress = "open" /\ AllListed) ~> (progress # "open")
====
