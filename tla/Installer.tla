----------------------------- MODULE Installer -----------------------------
(***************************************************************************)
(* The build of the package tree: the Installer QThread of               *)
(* logic/Installer.py (traverseAndInstall, install, deletePackages) and   *)
(* the InstallWid slots of ui/InstallWid.py that receive its signals      *)
(* through queued connections (start, increaseValue, subtreeCompleted,    *)
(* manageError, completion).                                              *)
(*                                                                         *)
(* Every click on Start creates a new Installer thread; the GUI thread    *)
(* runs the slots one queued signal at a time, and runs deletePackages    *)
(* synchronously inside the subtreeCompleted slot.  External commands     *)
(* (tar, configure, make, rm) are steps whose outcome is chosen freely.   *)
(***************************************************************************)
EXTENDS Naturals, Sequences, SequencesExt, Planner

CONSTANTS MaxRuns,         \* how many times the user may press Start
          RemovalMayFail,  \* rm -rf of an old source directory may fail
          PopenMayRaise    \* Popen itself may raise (fork or exec failure)

ASSUME MaxRuns \in Nat \ {0} /\ RemovalMayFail \in BOOLEAN /\ PopenMayRaise \in BOOLEAN

Runs   == 1..MaxRuns
NoNode == "none"

VARIABLES
    mode,          \* MainWindow.action
    action,        \* Node.action of every node
    archives,      \* downloaded tar files present in sourceDir
    dirs,          \* nodes whose directory packName-version exists in sourceDir
    installed,     \* nodes whose "make install" has succeeded
    cwd,           \* the process-wide working directory set by os.chdir
    rstate,        \* per Installer thread: "idle", "running", "finished", "dead"
    stack,         \* per thread: nodes still to traverse (the recursion of traverseAndInstall)
    cur,           \* per thread: the node inside install(), or NoNode
    step,          \* per thread: position of install() in Plan[action[cur]]
    list,          \* per thread: Installer.list, the INSTALL nodes visited
    inst,          \* InstallWid.inst: the number of the latest thread (0: none yet)
    events,        \* queued signals not yet delivered to the GUI thread
    index,         \* InstallWid.index
    progress,      \* progressBar.value()
    startEnabled,  \* startButton enabled
    nextEnabled,   \* nextButton enabled
    dialogs,       \* open (nested) ErrorDialogs of manageError
    gpc,           \* GUI thread: "loop" (event loop) or inside deletePackages: "tar", "olddirs"
    cpos,          \* deletePackages: position in inst.list
    completed,     \* the completion slot has run
    errShown       \* an ErrorDialog has been shown

threadVars == <<rstate, stack, cur, step, list>>
guiVars    == <<inst, index, progress, startEnabled, nextEnabled, dialogs, gpc, cpos,
                completed, errShown>>
vars == <<mode, action, archives, dirs, installed, cwd, events>> \o threadVars \o guiVars

-----------------------------------------------------------------------------
(* The steps of install() for each action, in the order of the code: the *)
(* guards "action == INSTALL" (unpack), "INSTALL or REBUILD" (configure), *)
(* "UPGRADE or REBUILD" (make clean), "not UPGRADE" (make) and the        *)
(* unconditional chdir and make install.                                  *)
Plan == [INSTALL |-> <<"unpack", "chdir", "configure", "make", "install">>,
         UPGRADE |-> <<"chdir", "clean", "install">>,
         REBUILD |-> <<"chdir", "configure", "clean", "make", "install">>]

\* Steps that emit increaseValue when they succeed.
Counted == {"unpack", "configure", "clean", "make", "install"}

Step(r) == Plan[action[cur[r]]][step[r]]

\* InstallWid.computeOpNumber
OpNumber ==
    LET count(a) == Cardinality({n \in Nodes : action[n] = a})
    IN  count("UPGRADE") * 2 + count("INSTALL") * 6 + count("REBUILD") * 4

\* InstallWid.start: self.leafs = tree.getLeafsNumber(tree.root)
Leafs == LeafsNumber(Root)

\* QProgressBar.setValue ignores a value outside [0, maximum].
Bump(v) == IF v + 1 <= OpNumber THEN v + 1 ELSE v

Signals == {"increaseValue", "subtreeCompleted", "error", "completion"}

TypeOK ==
    /\ mode \in Modes
    /\ action \in [Nodes -> Actions]
    /\ archives \subseteq Nodes /\ dirs \subseteq Nodes /\ installed \subseteq Nodes
    /\ cwd \in Nodes \cup {NoNode}
    /\ rstate \in [Runs -> {"idle", "running", "finished", "dead"}]
    /\ stack \in [Runs -> Seq(Nodes)]
    /\ cur \in [Runs -> Nodes \cup {NoNode}]
    /\ step \in [Runs -> Nat]
    /\ list \in [Runs -> Seq(Nodes)]
    /\ inst \in 0..MaxRuns
    /\ events \in Seq(Signals)
    /\ index \in Nat /\ progress \in Nat /\ dialogs \in Nat /\ cpos \in Nat
    /\ {startEnabled, nextEnabled, completed, errShown} \subseteq BOOLEAN
    /\ gpc \in {"loop", "tar", "olddirs"}

-----------------------------------------------------------------------------
(* Initial state: the tree as the download widget leaves it.  INSTALL:   *)
(* every node keeps the default action INSTALL.  UPGRADE: setAction with  *)
(* a non-empty list of outdated nodes (UpgradeDialog disables its button  *)
(* on an empty list).  REBUILD: setAction in rebuild mode.  Every INSTALL *)
(* node's archive has been downloaded; every other node's directory for   *)
(* its catalog version is present, since it is not outdated.              *)
Init ==
    /\ mode \in Modes
    /\ \E toUpgrade \in SUBSET Nodes :
          /\ mode = "UPGRADE" => toUpgrade # {}
          /\ action = IF mode = "INSTALL" THEN [n \in Nodes |-> "INSTALL"]
                      ELSE SetAction(Root, FALSE, toUpgrade, mode)
    /\ archives = {n \in Nodes : action[n] = "INSTALL"}
    /\ dirs \in {d \in SUBSET Nodes : \A n \in Nodes \ archives : n \in d}
    /\ installed = {}
    /\ cwd = NoNode
    /\ rstate = [r \in Runs |-> "idle"]
    /\ stack = [r \in Runs |-> <<>>]
    /\ cur = [r \in Runs |-> NoNode]
    /\ step = [r \in Runs |-> 0]
    /\ list = [r \in Runs |-> <<>>]
    /\ inst = 0
    /\ events = <<>>
    /\ index = 0 /\ progress = 0 /\ dialogs = 0 /\ cpos = 0
    /\ startEnabled = TRUE /\ nextEnabled = FALSE
    /\ gpc = "loop"
    /\ completed = FALSE /\ errShown = FALSE

-----------------------------------------------------------------------------
(* Installer thread r.                                                     *)

\* traverseAndInstall after install(n) returned true: a leaf emits
\* subtreeCompleted, otherwise the sons are traversed next, in order.
Descend(r, n, rest, sigs) ==
    IF IsLeaf(n)
    THEN /\ stack' = [stack EXCEPT ![r] = rest]
         /\ events' = events \o sigs \o <<"subtreeCompleted">>
    ELSE /\ stack' = [stack EXCEPT ![r] = Sons[n] \o rest]
         /\ events' = events \o sigs

\* traverseAndInstall(n) entering install(n).  A NONE node returns true at
\* once; an INSTALL node is appended to Installer.list before unpacking.
Visit(r) ==
    /\ rstate[r] = "running" /\ cur[r] = NoNode /\ stack[r] # <<>>
    /\ LET n == Head(stack[r]) IN
       IF action[n] = "NONE"
       THEN /\ Descend(r, n, Tail(stack[r]), <<>>)
            /\ UNCHANGED <<cur, step, list>>
       ELSE /\ cur' = [cur EXCEPT ![r] = n]
            /\ step' = [step EXCEPT ![r] = 1]
            /\ stack' = [stack EXCEPT ![r] = Tail(@)]
            /\ list' = IF action[n] = "INSTALL" THEN [list EXCEPT ![r] = Append(@, n)]
                       ELSE list
            /\ UNCHANGED events
    /\ UNCHANGED <<mode, action, archives, dirs, installed, cwd, rstate>> /\ UNCHANGED guiVars

\* The current step of install(n) succeeds: tar extracts the package
\* directory, os.chdir enters it, a command exits with 0.  After make
\* install, install(n) returns true.
StepOk(r) ==
    /\ rstate[r] = "running" /\ cur[r] # NoNode
    /\ LET n    == cur[r]
           s    == Step(r)
           sigs == IF s \in Counted THEN <<"increaseValue">> ELSE <<>>
       IN /\ s = "unpack" => n \in archives
          /\ s = "chdir" => n \in dirs
          /\ dirs' = IF s = "unpack" THEN dirs \cup {n} ELSE dirs
          /\ cwd' = IF s = "chdir" THEN n ELSE cwd
          /\ installed' = IF s = "install" THEN installed \cup {n} ELSE installed
          /\ IF s = "install"
             THEN /\ cur' = [cur EXCEPT ![r] = NoNode]
                  /\ step' = [step EXCEPT ![r] = 0]
                  /\ Descend(r, n, stack[r], sigs)
             ELSE /\ step' = [step EXCEPT ![r] = @ + 1]
                  /\ events' = events \o sigs
                  /\ UNCHANGED <<cur, stack>>
    /\ UNCHANGED <<mode, action, archives, rstate, list>> /\ UNCHANGED guiVars

\* Variant for mutation checks: the traversal ignores install's result and
\* goes on to the sons of a failed node.
StepFailDescend(r) ==
    /\ rstate[r] = "running" /\ cur[r] # NoNode
    /\ LET n == cur[r]
           s == Step(r)
       IN /\ s = "chdir" => n \notin dirs
          /\ dirs' \in IF s = "unpack" THEN {dirs, dirs \cup {n}} ELSE {dirs}
          /\ stack' = [stack EXCEPT ![r] = Sons[n] \o @]
    /\ events' = Append(events, "error")
    /\ cur' = [cur EXCEPT ![r] = NoNode]
    /\ step' = [step EXCEPT ![r] = 0]
    /\ UNCHANGED <<mode, action, archives, installed, cwd, rstate, list>>
    /\ UNCHANGED guiVars

\* The current step fails: tar writes to stderr, the directory is missing,
\* or a command exits non-zero (or Popen raises, caught by the handler).
\* install(n) emits "error" and returns false (None after tar): the sons of
\* n are skipped, the rest of the traversal goes on.  A failed tar may
\* leave the directory behind.
StepFail(r) ==
    /\ rstate[r] = "running" /\ cur[r] # NoNode
    /\ LET n == cur[r]
           s == Step(r)
       IN /\ s = "chdir" => n \notin dirs
          /\ dirs' \in IF s = "unpack" THEN {dirs, dirs \cup {n}} ELSE {dirs}
    /\ events' = Append(events, "error")
    /\ cur' = [cur EXCEPT ![r] = NoNode]
    /\ step' = [step EXCEPT ![r] = 0]
    /\ UNCHANGED <<mode, action, archives, installed, cwd, rstate, stack, list>>
    /\ UNCHANGED guiVars

\* Popen of "make install" raises: its handler evaluates str(es), an
\* undefined name, so a NameError ends the thread without any signal.
StepRaise(r) ==
    /\ PopenMayRaise
    /\ rstate[r] = "running" /\ cur[r] # NoNode
    /\ Step(r) = "install"
    /\ rstate' = [rstate EXCEPT ![r] = "dead"]
    /\ UNCHANGED <<mode, action, archives, dirs, installed, cwd, events>>
    /\ UNCHANGED <<stack, cur, step, list>> /\ UNCHANGED guiVars

\* Installer.run returns: the traversal is over.
Exit(r) ==
    /\ rstate[r] = "running" /\ cur[r] = NoNode /\ stack[r] = <<>>
    /\ rstate' = [rstate EXCEPT ![r] = "finished"]
    /\ UNCHANGED <<mode, action, archives, dirs, installed, cwd, events>>
    /\ UNCHANGED <<stack, cur, step, list>> /\ UNCHANGED guiVars

-----------------------------------------------------------------------------
(* GUI thread.                                                             *)

\* InstallWid.start: a new Installer on the root; index is not reset.
Start ==
    /\ startEnabled /\ dialogs = 0 /\ gpc = "loop" /\ inst < MaxRuns
    /\ inst' = inst + 1
    /\ rstate' = [rstate EXCEPT ![inst + 1] = "running"]
    /\ stack' = [stack EXCEPT ![inst + 1] = <<Root>>]
    /\ list' = [list EXCEPT ![inst + 1] = <<>>]
    /\ startEnabled' = FALSE
    /\ UNCHANGED <<mode, action, archives, dirs, installed, cwd, events, cur, step>>
    /\ UNCHANGED <<index, progress, nextEnabled, dialogs, gpc, cpos, completed, errShown>>

\* Delivery of the signal at the head of the queue to its slot.
Deliver(sig) ==
    /\ gpc = "loop" /\ events # <<>> /\ Head(events) = sig
    /\ events' = Tail(events)

OnIncreaseValue ==
    /\ Deliver("increaseValue")
    /\ progress' = Bump(progress)
    /\ UNCHANGED <<mode, action, archives, dirs, installed, cwd>> /\ UNCHANGED threadVars
    /\ UNCHANGED <<inst, index, startEnabled, nextEnabled, dialogs, gpc, cpos, completed, errShown>>

\* Variant for mutation checks: the leaf count compared off by one.
OnSubtreeCompletedEarly ==
    /\ Deliver("subtreeCompleted")
    /\ index' = index + 1
    /\ IF index + 1 = Leafs - 1 THEN gpc' = "tar" /\ cpos' = 1
                                ELSE UNCHANGED <<gpc, cpos>>
    /\ UNCHANGED <<mode, action, archives, dirs, installed, cwd>> /\ UNCHANGED threadVars
    /\ UNCHANGED <<inst, progress, startEnabled, nextEnabled, dialogs, completed, errShown>>

\* InstallWid.subtreeCompleted: when index reaches leafs, deletePackages
\* of the latest Installer runs here, in the GUI thread.
OnSubtreeCompleted ==
    /\ Deliver("subtreeCompleted")
    /\ index' = index + 1
    /\ IF index + 1 = Leafs THEN gpc' = "tar" /\ cpos' = 1
                            ELSE UNCHANGED <<gpc, cpos>>
    /\ UNCHANGED <<mode, action, archives, dirs, installed, cwd>> /\ UNCHANGED threadVars
    /\ UNCHANGED <<inst, progress, startEnabled, nextEnabled, dialogs, completed, errShown>>

\* InstallWid.manageError opens a modal ErrorDialog; signals keep being
\* delivered by the dialog's own event loop until the user closes it.
OnError ==
    /\ Deliver("error")
    /\ dialogs' = dialogs + 1
    /\ errShown' = TRUE
    /\ UNCHANGED <<mode, action, archives, dirs, installed, cwd>> /\ UNCHANGED threadVars
    /\ UNCHANGED <<inst, index, progress, startEnabled, nextEnabled, gpc, cpos, completed>>

\* Variant for mutation checks: manageError's tail without an open dialog.
DismissUnguarded ==
    /\ gpc = "loop"
    /\ dialogs' = dialogs - 1
    /\ progress' = 0
    /\ startEnabled' = TRUE
    /\ UNCHANGED <<mode, action, archives, dirs, installed, cwd, events>> /\ UNCHANGED threadVars
    /\ UNCHANGED <<inst, index, nextEnabled, gpc, cpos, completed, errShown>>

\* The user closes the innermost ErrorDialog; the rest of manageError
\* resets the progress bar and enables Start again.
Dismiss ==
    /\ dialogs > 0 /\ gpc = "loop"
    /\ dialogs' = dialogs - 1
    /\ progress' = 0
    /\ startEnabled' = TRUE
    /\ UNCHANGED <<mode, action, archives, dirs, installed, cwd, events>> /\ UNCHANGED threadVars
    /\ UNCHANGED <<inst, index, nextEnabled, gpc, cpos, completed, errShown>>

\* InstallWid.completion
OnCompletion ==
    /\ Deliver("completion")
    /\ progress' = OpNumber
    /\ nextEnabled' = TRUE
    /\ completed' = TRUE
    /\ UNCHANGED <<mode, action, archives, dirs, installed, cwd>> /\ UNCHANGED threadVars
    /\ UNCHANGED <<inst, index, startEnabled, dialogs, gpc, cpos, errShown>>

-----------------------------------------------------------------------------
(* Installer.deletePackages, run by the GUI thread over inst.list, which   *)
(* the latest Installer thread may still be appending to.                  *)

Cleaning == list[inst]

\* The loop over self.list ends: "completion" is emitted.
CleanupDone ==
    /\ gpc = "tar" /\ cpos > Len(Cleaning)
    /\ events' = Append(events, "completion")
    /\ gpc' = "loop"
    /\ UNCHANGED <<mode, action, archives, dirs, installed, cwd>> /\ UNCHANGED threadVars
    /\ UNCHANGED <<inst, index, progress, startEnabled, nextEnabled, dialogs, cpos, completed, errShown>>

\* rm -f of the node's tar file: success emits increaseValue; output on
\* stderr emits "error" and returns; Popen raising hits str(e) on an
\* undefined e, and the slot ends by a NameError with nothing emitted.
RemoveTar ==
    /\ gpc = "tar" /\ cpos <= Len(Cleaning)
    /\ \/ /\ archives' = archives \ {Cleaning[cpos]}
          /\ events' = Append(events, "increaseValue")
          /\ gpc' = "olddirs"
       \/ /\ events' = Append(events, "error")
          /\ gpc' = "loop"
          /\ UNCHANGED archives
       \/ /\ PopenMayRaise
          /\ gpc' = "loop"
          /\ UNCHANGED <<archives, events>>
    /\ UNCHANGED <<mode, action, dirs, installed, cwd>> /\ UNCHANGED threadVars
    /\ UNCHANGED <<inst, index, progress, startEnabled, nextEnabled, dialogs, cpos, completed, errShown>>

\* Variant for mutation checks: increaseValue emitted only inside the loop
\* over old directories, so not for a package without one.
RemoveOldDirsSilent ==
    /\ gpc = "olddirs"
    /\ \/ /\ cpos' = cpos + 1
          /\ gpc' = "tar"
          /\ UNCHANGED events
       \/ /\ RemovalMayFail \/ PopenMayRaise
          /\ gpc' = "loop"
          /\ UNCHANGED <<events, cpos>>
    /\ UNCHANGED <<mode, action, archives, dirs, installed, cwd>> /\ UNCHANGED threadVars
    /\ UNCHANGED <<inst, index, progress, startEnabled, nextEnabled, dialogs, completed, errShown>>

\* rm -rf of every older directory of the package, then increaseValue.
\* A failure emits "removalError", which InstallWid never connects, and
\* returns.
RemoveOldDirs ==
    /\ gpc = "olddirs"
    /\ \/ /\ events' = Append(events, "increaseValue")
          /\ cpos' = cpos + 1
          /\ gpc' = "tar"
       \/ /\ RemovalMayFail \/ PopenMayRaise
          /\ gpc' = "loop"
          /\ UNCHANGED <<events, cpos>>
    /\ UNCHANGED <<mode, action, archives, dirs, installed, cwd>> /\ UNCHANGED threadVars
    /\ UNCHANGED <<inst, index, progress, startEnabled, nextEnabled, dialogs, completed, errShown>>

-----------------------------------------------------------------------------
ThreadStep(r) == Visit(r) \/ StepOk(r) \/ StepFail(r) \/ StepRaise(r) \/ Exit(r)

GuiStep == OnIncreaseValue \/ OnSubtreeCompleted \/ OnError \/ OnCompletion
           \/ CleanupDone \/ RemoveTar \/ RemoveOldDirs

User == Start \/ Dismiss

Next == (\E r \in Runs : ThreadStep(r)) \/ GuiStep \/ User

\* The Installer threads and the GUI event loop are scheduled by the OS and
\* Qt and never stop while they have work; the user is under no obligation.
Spec == Init /\ [][Next]_vars
        /\ \A r \in Runs : WF_vars(ThreadStep(r))
        /\ WF_vars(GuiStep)

-----------------------------------------------------------------------------
(* Properties.                                                             *)

\* The completion message (InstallWid.completion, reached through
\* subtreeCompleted counting to leafs and deletePackages) is shown only
\* when every node with a build action has been installed.
CompletionMeansInstalled ==
    completed => \A n \in Nodes : action[n] # "NONE" => n \in installed

\* When the completion slot runs, the increaseValue signals of install()
\* and deletePackages have brought the bar exactly to computeOpNumber.
ProgressMatchesOps ==
    [][~completed /\ completed' => progress = OpNumber]_vars

\* Once Start is pressed, the user is eventually told the outcome: the
\* completion message or an ErrorDialog.
OutcomeReported == inst >= 1 ~> (completed \/ errShown)

\* configure, make clean, make and make install of a node run in that
\* node's directory, the one its os.chdir entered.
CommandsRunInOwnDir ==
    [][\A r \in Runs :
         /\ rstate[r] = "running" /\ cur[r] # NoNode
         /\ Step(r) \in {"configure", "clean", "make", "install"}
         /\ <<cur[r], step[r]>> # <<cur'[r], step'[r]>>
         => cwd = cur[r]]_vars

-----------------------------------------------------------------------------
(* Refinement: the build implements InstallerSpec, its node actions,       *)
(* installed set, archives and completion message being the abstract ones. *)
Abstract == INSTANCE InstallerSpec WITH Act <- action, Installed <- installed,
                                        Archives <- archives, Done <- completed

\* Every step of the Installer threads and of the GUI thread's slots is a
\* step of InstallerSpec or leaves its state alone: traverseAndInstall
\* installs a package only below installed ones, deletePackages removes
\* only installed packages' archives, and the completion slot runs only
\* after every package is installed and every archive removed.
ImplementsInstallerSpec == Abstract!Spec
=============================================================================
