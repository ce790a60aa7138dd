# TLA+ models of the ILDJIT installer (AIKA)

These modules model the installer wizard under `src/ILDJIT_tools/Installer/GUI`.
The wizard reads a package manifest into a tree, learns each package's current
version from a remote page, decides what to do with every package, downloads the
archives, and builds each package with tar, configure, make and make install.
The two standalone scripts `dotSplitter.py` and `svgSplitter.py` beside it are
modelled as well. The models are written from the Python source. The spec (`spec.md`) is used only
to say what the code is meant to do.

## 1. Inventory

### Components and their state

| Component | Source | State | Operations |
|---|---|---|---|
| VersionComparator | `config/ConfigManager.py` `Tree.getDigits`, `Tree.isGreater` | none (pure) | split a version on dots, explode each component into its decimal digits, compare the digit lists |
| PackageTree | `config/ConfigManager.py` `Node`, `Tree`, `ConfigParser` | `Tree.root`; `Node.sons`, `version`, `action`; `Tree.url`, `Tree.versionUrl`; the scratch fields `Tree.node`, `Tree.list`, `Tree.leafs` | `startElement` (build from XML), `addNode`, `getNode`, `getNodeFromPack`, `getNodes`, `getLeafsNumber`, `getVersions`, `getUrl` |
| RemoteVersions | `config/ConfigManager.py` `NetworkManager`, `config/TableParser.py` | parser fields `packId`, `match`, `names`, `vers` | `start_a`, `end_a`, `handle_data`, `setTreeVersions` on a background QThread |
| UpgradePlanner | `ui/DownloadWid.py` | the `sourceDir` listing, `Node.action` | `findPacks`, `getOldNodes`, `setAction`, `check`, `checkForRebuild` |
| Downloads | `ui/DownTableWidget.py`, `logic/Downloader.py`, `logic/DownloaderThread.py` | `downloaders`, `index`, `number`, the progress bars | `startDownload`, `myAddRow`, one `Downloader` thread per file, batches of 9 |
| BuildExecutor | `logic/Installer.py`, `ui/InstallWid.py` | `Installer.list`, the process working directory, `InstallWid.index`, `leafs`, `inst`, the progress bar, the buttons | `traverseAndInstall`, `install`, `deletePackages`; the slots `increaseValue`, `subtreeCompleted`, `manageError`, `completion`; `start` |
| Wizard | `ui/MainWindow.py`, `FirstWid`, `LastWid`, `BashWid`, `ProgressDialog` | `MainWindow.action`, `mainWidget`, `tree`, `sourceDir` | `moveTo`, `switch`, `ProgressDialog.closeEvent` |
| Dialogs | `ErrorDialog`, `UpgradeDialog`, `PackDialog`, `About*`, `ClickLineEdit`, `ReqPackParser` | none that others read | presentation |
| Splitters | `dotSplitter.py`, `svgSplitter.py` | the working directory's files, `inFile`, `outFile`, `fileCount` | standalone scripts: split each input file at every line that starts a document |

### How the components interact

- **Threads and queued signals.** `NetworkManager`, every `Downloader` and
  `DownloaderThread`, and `Installer` are QThreads. They reach the GUI only
  through signals wired with `Qt.QueuedConnection`. Each signal is posted to
  the GUI thread's event queue, and its slots run one at a time in posting
  order.
- **Shared state.** The tree (`MainWindow.tree`) and every `Node.action` are
  written by the GUI thread before a thread starts, and read by the thread.
  `Installer.list` is appended to by the Installer thread and iterated by
  `deletePackages`. `deletePackages` is called from the `subtreeCompleted`
  slot, so it runs in the GUI thread while the Installer thread may still be
  running. The working directory is process-wide, and `install` changes it
  with `os.chdir`.
- **Counters as completion detection.** `InstallWid.index` counts
  `subtreeCompleted` signals up to the number of leaves.
  `DownTableWidget.index` counts `downloadCompleted` signals up to the number
  of files. Neither counter is ever reset.
- **Modal dialogs.** `ErrorDialog.exec_()` runs a nested event loop, so
  queued signals keep being delivered while the error is on screen. When the
  dialog closes, Start is enabled again. A new `Installer` can therefore start
  while the old one still builds other branches.

### What is hard

- The interleaving of the Installer thread, the GUI thread's slots, and the
  user pressing Start again after an error.
- Partial failure. Any of tar, configure, make clean, make, make install and
  rm can fail. Some exception handlers raise a second exception themselves:
  `str(es)` at `Installer.py:139` and `str(e)` at lines 158, 177 and 219.
- Signals that are emitted but not connected (`removalError`), or emitted more
  than once (`downloadCompleted`).
- Stale scratch state: `Tree.node` in `addNode` and the two `index` counters.
- The unusual digit-by-digit version order.
- The splitters' output names: `dotSplitter` takes its inputs from one
  `glob` and then writes files whose names (`g1.dot`) may be on that list.

### Properties that make each component correct

- VersionComparator: `isGreater` is the
  lexicographic order of the digit lists, and `getDigits` produces decimal
  digits.
- PackageTree: every manifest package ends up under the father it declares.
  There is one root. `getNodes` lists every node once.
- RemoteVersions: each package receives the version listed for it.
- UpgradePlanner: a package is INSTALL exactly when it is outdated.
  UPGRADE and REBUILD go only to packages whose directory for the catalog
  version exists. The kept local version is the greatest one.
- Wizard: the install page is reached only with the tree of the last
  chosen action and, unless rebuilding, every download finished. Start and
  Back are offered only when nothing of an earlier Start still runs. The
  modal progress dialog is always answered.
- Downloads: Next is enabled only when every archive is on disk.
- Splitters: every line of the file being split goes, in order, to
  Errors.txt or to the numbered output of its own document.
- BuildExecutor: completion is shown only when every package with an action
  has been installed. Each command runs in its package's directory. The user is always
  told the outcome. The progress bar ends at `computeOpNumber`.

## 2. Plan

The modules are written in this order, most important behaviour first:

1. `PackageTree`, `Planner` (done): the tree as constants and `setAction`.
2. `Installer` (done): the build thread and the GUI slots, with retries.
   This is the core; `MCInstaller` checks it.
3. `Versions` (done): `getDigits` and `isGreater`, checked against a
   reference order (in `MCSplitter`, see item 9).
4. `Upgrade` (done): `findPacks`, `getOldNodes`, `getVersions`,
   `getNodeFromPack`, the three slots connected to `completion`, and the
   directories a completed installation leaves (`MCUpgrade`). It checks the
   directory assumption of `Installer`'s Init (`SourcesPresent`), so the two
   are composed assume-guarantee: folding every planner input into
   `Installer`'s Init would multiply its state space by the 34 992 planner
   inputs for no new interleaving.
5. `Catalog` (done): `ConfigParser.startElement` over a sequence of manifest
   elements, with `addNode` and the stale `Tree.node`, then `TableParser`
   over the remote pages (items 5 and 7 of the first plan, composed as
   `NetworkManager.run` composes them).
6. `Downloads` (done): `Downloader` threads started in groups by
   `DownloaderThread`, the report hook for three kinds of server header,
   transfer failure, and the `DownTableWidget` counter.
7. `InstallerSpec` (done): the abstract build, refined by `Installer`.
8. `Wizard` (done): the pages and `moveTo`, composed with `Catalog`,
   which every Start restarts (`MCWizard`).
9. `Splitter` (done): both splitter scripts over a small working
   directory (`MCSplitter`). Their `str(fileCount)` is the digit
   conversion of `Versions`, so the version checks run there too.

## 3. Modules

### `PackageTree.tla`
This module models `Node.sons`, `getNodes` (pre-order) and `getLeafsNumber`
as operators over the constants `Nodes`, `Root` and `Sons`.
`ASSUME TreeShape` requires a tree: every non-root node is a son exactly once.

### `Planner.tla`
This module models the `Node` and `MainWindow` action numbering.
`SetAction` is `DownloadWid.setAction` as a RECURSIVE operator. It returns the
actions of a subtree, built by folding over the sons.

### `Installer.tla`
State: one set of thread variables per Installer thread `r ∈ 1..MaxRuns`:
`rstate`, `stack`, `cur`, `step` and `list`. The `stack` replaces the
recursion of `traverseAndInstall`. The GUI side has the signal queue `events`,
`index`, `progress`, the buttons, nested `dialogs`, and `gpc`/`cpos` for the
position inside `deletePackages`. The environment has `archives`, `dirs`,
`installed` and `cwd`.

Actions:

| Action | Code |
|---|---|
| `Visit(r)` | `install(n)` entry: a NONE node returns true; an INSTALL node is appended to `self.list` |
| `StepOk(r)`, `StepFail(r)` | one step of `install`, in the order `Plan[action]` (unpack, chdir, configure, make clean, make, make install); success emits `increaseValue`, failure emits `error` and abandons the subtree |
| `Descend` | the rest of `traverseAndInstall`: leaf, `subtreeCompleted`; else the sons |
| `StepRaise(r)` | Popen raising at make install; the handler's `str(es)` ends the thread |
| `Exit(r)` | `run` returns |
| `Start` | `InstallWid.start`: a new thread; `index` is not reset |
| `OnIncreaseValue`, `OnSubtreeCompleted`, `OnError`, `OnCompletion` | the slots; `OnSubtreeCompleted` enters `deletePackages` when `index` reaches `leafs` |
| `Dismiss` | the user closes an ErrorDialog; the tail of `manageError` resets the bar and enables Start |
| `RemoveTar`, `RemoveOldDirs`, `CleanupDone` | `deletePackages` over the live `inst.list` |

Init takes the action of every node from the three wizard modes. In INSTALL
mode every node is INSTALL. In UPGRADE mode the actions come from `SetAction`
with any non-empty outdated set. In REBUILD mode every node is REBUILD. The
archive of every INSTALL node is present. The directory of every other node is
present, and the directory of an INSTALL node may or may not be.

Fairness: weak fairness for each Installer thread and for the GUI event loop.
Both are scheduled by the OS and by Qt and never stop while they have work.
There is no fairness for the user, who may never press Start or close a
dialog.

### `InstallerSpec.tla` and the refinement
`InstallerSpec` says what the build promises, with no threads, signals,
steps or working directory. `Install(n)` installs one package whose every
ancestor with an action is already installed. `RemoveArchive(n)` removes the
archive of an installed package. `Complete` announces completion once every
package with an action is installed and no archive is left. A failure is not
a step: a failed package is one that is never installed.

`Installer.tla` ends with
`Abstract == INSTANCE InstallerSpec WITH Act <- action, Installed <- installed, Archives <- archives, Done <- completed`,
and the `install` run checks `ImplementsInstallerSpec == Abstract!Spec` as a
PROPERTY. Every other `Installer` step (a visit, a configure or make step,
a signal delivered, a slot run, an old directory removed) leaves the four
mapped variables unchanged and is a stuttering step of the abstract spec.
The property fails if a thread installs below a package whose build failed,
removes an archive before its install, or shows completion too early.

### `Catalog.tla`
This module models `NetworkManager.run`: `parseXML` builds the tree, then
`TableParser.addVersions` reads one page per repository.

Parse state: the manifest `manifest` (a sequence of repository and package
elements), the cursor `pos`, the repository count `repos`, `root` (0 for
None), `sons` and the `Tree.node` cursor `node`. Fetch state: the pages
`pages`, page and token cursors `pg` and `tok`, and the parser fields
`packId`, `match`, `names` and `vers`; `version` holds the node versions.
`status` is the phase: parsing, fetching, complete, or one of the two errors
the thread reports.

| Action | Code |
|---|---|
| `Repository`, `RootPackage`, `ChildPackage` | `ConfigParser.startElement`; a package before any repository, or one whose father is not found, raises (`parseError`) |
| `GetNode`, `AddNodeFather` | `Tree.__getNode` (the last match wins; no descent below a match; `node` is kept when nothing matches) and `Tree.addNode` |
| `ParseEnd` | end of `parseXML` |
| `OpenPage`, `OpenFail` | `urlopen` of the next page; a failure is `connectionError` |
| `StartName`, `StartRelease`, `EndAnchor`, `HandleData` | `start_a`, `end_a`, `handle_data` on one token |
| `PageDone` (with `ZipDict`, `Reach`) | `setTreeVersions` at the end of each page: `dict(zip(names, vers))` applied to every node reachable from the root |

A page is a sequence of rows (name, id, release version). Each row is the
tokens of its name link and its release link, with the text chunk between
them. `names` and `vers` are never reset, as in the code, so the pairs of a
later page depend on the earlier ones.

Fairness: weak fairness on the parse and on the fetch. The thread runs to
completion once started. `OpenFail` is not forced.

### `Wizard.tla`
This module models the wizard (`ui/MainWindow.py` and its pages) composed
with the thread of `Catalog`. It EXTENDS `Catalog`, and `WizardSpec` runs
the Catalog steps as the action `Thread` while a NetworkManager runs.
`StartFetch` (`DownloadWid.start`) opens the modal ProgressDialog and sets
the Catalog state back to a fresh `Tree` (`NewTree`, the state `Fresh`
describes). So every Back, new action and new Start builds the tree again
from the same manifest and pages.

State: `page` (`MainWindow.mainWidget`), `action`, DownloadWid's
`backBtn`, `startBtn` and `nextBtn`, `progress` (none, open, asking while
the UpgradeDialog runs inside `closeEvent`, closed), `upList`, `nm`, and
MainWindow's `tree` as `treeMode`, the action it was planned for. It also
has `srcSet` for `sourceDir`, `down` for DownTableWidget, `inst` for
InstallWid, and BashWid's `okBtn`.

| Action | Code |
|---|---|
| `Choose(m)` | `FirstWid.install`/`upgrade`/`rebuild`, `moveTo(1)`, `DownloadWid.showEvent` (`Shown`) |
| `StartFetch`, `Back`, `NextPage` | `DownloadWid.start`, `prev`, `next` |
| `ParseFailed`, `ConnectionError` | the `except` of `start`, `manageConnectionError`: an ERROR close (`ErrorClose`) |
| `StartDownload`, `Check`, `CheckForRebuild` | the `completion` slot of the action, with the `closeEvent` branch it requests |
| `Accept`, `Reject` | the UpgradeDialog's answer inside `showDialog` |
| `DownloadsDone`, `DownloadFailed` | `manageCompletion` reaching `number`, `manageDownError` |
| `InstallStart`, `InstallEnd`, `InstallNext` | `InstallWid.start`, `completion` or `manageError`, `next` (BashWid only after INSTALL) |
| `BashOk`, `BashCancel`, `Finish` | `BashWid.write`, `next`, LastWid's Finish |

A slot whose concatenation raises on a node without a version
(`SomeNone`) leaves the dialog open, as in the code. What `getOldNodes`
finds in the source directory is chosen by `\E`. `Upgrade` derives it from
the listing. A node without a version is always outdated, so that choice is
TRUE then. The downloads and the build are reduced to their end signals;
`Downloads` and `Installer` check them in detail.

Fairness: weak fairness on `Thread` (the tree build and the NetworkManager
thread) and on `Slot` (Qt's event loop delivering the queued signal). The
user, the transfers and the build are not forced.

### `Versions.tla`
A version string is modelled as the sequence of its dot-separated
components. A component that `int()` rejects is the model value `Bad`.
`Digits`, `GetDigits` and `IsGreater` follow `getDigits` and `isGreater`
line by line. `MCSplitter` checks them over every pair of 8 versions (the
third version of transitivity is quantified).

### `Splitter.tla`
`dotSplitter.py` and `svgSplitter.py` are one loop: open an input, open
Errors.txt with `"w"`, then copy each line to `outFile`, and at a line that
starts a document open the next numbered output with `"w"` first. The
variable `tool` says which script runs; `fs` maps each file name of the
working directory to its lines. A file name is a record of its stem (a
sequence of one-character strings) and its extension, so `splitext` is
exact; a line is the pair of its first word and last non-blank character,
which is all that `startswith` and `rstrip().endswith` read.

| Definition | Code |
|---|---|
| `StartsDocument` | the two tests (`digraph ... {` for dot, `<?xml` for svg) |
| `Base`, `Str`, `OutName` | `outFileBaseName` (spaces made `_` by dot), `str(fileCount)`, the output name with `.dot` or the input's extension |
| `Glob` | `glob(argv[1])` for patterns `prefix*ext`, inputs in any listing order |
| `Init` | the argument checks: no argument, no match, no such file leave nothing to split |
| `OpenInput` | `open(inFileName)`, `fileCount=0`, `open("Errors.txt", "w")` |
| `CopyLine` | one pass of `for line in inFile` |
| `EndInput`, `Exit` | `outFile.close()` and the next input; the closing messages |

The input is read as it is on disk when each line is read. This is
exact here because no output of a file is that file, and Errors.txt, when
it is itself an input, is emptied before its first line is read.

### `Upgrade.tla`
Pure operators over the inputs of the download page. A directory is the pair
`<<prefix, label>>` of the text around its last `-`. A version is a label (a
string), and `Comps[label]` is its components as `Versions` reads them, so
`!=` on strings and `isGreater` on components stay apart as in the code.

| Operator | Code |
|---|---|
| `NodeFromPack` | `getNodeFromPack`: last match of a depth-first walk, not below a match |
| `GetVersions` | `getVersions`: packName to version, a later node overwriting |
| `FindPacks` | `findPacks`: one pass in listdir order, first parsable version kept, replaced when `isGreater` |
| `GetOldNodes` | `getOldNodes`: packages with no directory, or whose kept version string differs |
| `Action` | INSTALL mode keeps `Node`'s default INSTALL; `check`/`checkForRebuild` call `setAction` |
| `Outcome` | the slot: `startDownload` ("download", or "stuck" when `myAddRow` raises on a None version), `check` ("confirm", or "stuck" on a None version), `checkForRebuild` ("outdated" or "rebuild"), "error" when listdir raises |
| `PageOutcome` | `DownloadWid.start`: "error" when the manifest does not parse or `NetworkManager.run` emits `connectionError`, else `Outcome` |
| `Offers` | `ProgressDialog.closeEvent`: what the page offers after the slot (downloads, Next, or Back and Start); nothing after "stuck" |
| `AfterInstall` | unpacking every INSTALL archive, then `deletePackages` removing directories whose prefix equals `node.name` and whose version is below |

`MCUpgrade` makes every input a state (`Next` stutters): whether the
remote pages were read, the mode, the version
each of three nodes (chain root→a→c) got from the remote pages (1.9, 1.10 or
None), and each package's directories in listdir order from six choices,
including an unparsable `1` and the pair 1.10/1.9 that `isGreater` orders
against the numbers. A directory of no package is always present.

### `Downloads.tla`
State: per file, the server's `header` ("len", "zero" or "none"), the
Downloader's `dstate` and the blocks `read`; `DownloaderThread.run`'s loop as
`dtCount`, `dtPhase` and `dtPos`; the GUI's signal queue `events`, `number`,
`index`, `nextEnabled` and `errShown`.

| Action | Code |
|---|---|
| `StartDownload` | `DownTableWidget.startDownload`: `number`, a Downloader per INSTALL node (`myAddRow`), `dt.start()`, or Next at once when there is none |
| `DtStart`, `DtWait`, `DtNext` | `DownloaderThread.run`: `start()` and then `wait()` over each slice of `groupSize`, for `count` in `range(len/groupSize + 1)` |
| `Begin(f)` | the hook before the first block: `downloadingError` on totalSize 0 |
| `ReadBlock(f)` | a block written, then the hook; `downloadCompleted` when the capped percent is 100 |
| `Fail(f)` | `urlretrieve` raising: `downloadingError` |
| `OnCompleted`, `OnDownError` | `manageCompletion` (Next when `index` reaches `number`), `manageDownError` |

Fairness: weak fairness for the GUI thread, the DownloaderThread and each
Downloader's progress (`Begin`, `ReadBlock`); a transfer failure is possible
but never forced. Bounds: 3 downloads in groups of 2 (a full group and a
partial one), 2 blocks per file, so a hook runs before, between and after
blocks.

## 4. Runs

| Run | cfg | Bounds | Result |
|---|---|---|---|
| `install` | `MCInstaller.cfg` | 4 packages (root→{a→{c}, b}), 1 Start, every build step may fail, old-dir removal may fail, Popen may raise | pass: `TypeOK`, `CompletionMeansInstalled`, `ProgressMatchesOps`, `ImplementsInstallerSpec` |
| `wizard` | `MCWizard.cfg` | 5 manifests (chain, fork, fork with a grandson, two repositories, a package before any repository); 2 pages of up to 3 rows with a repeated name; page opening may fail; any number of Back, action changes and Starts | pass: `WizardTypeOK`, `ManifestFaithful`, `VersionsFromOwnRow`, `InstallPageReady`, `NoRestartDuringWork`, `FetchAnswered` |
| `retry_completes_early` | `MCInstallerRetry.cfg` | 2 Starts | violation of `CompletionMeansInstalled` |
| `retry_shares_cwd` | `MCInstallerCwd.cfg` | 2 Starts | violation of `CommandsRunInOwnDir` |
| `fault_unreported` | `MCInstallerUnreported.cfg` | old-dir removal may fail, Popen may raise | violation of `OutcomeReported` |
| `upgrade_plan` | `MCUpgrade.cfg` | 3 packages, all 34 992 inputs | pass: `SetActionMatchesRule`, `KeptIsGreatest`, `SourcesPresent` |
| `missing_version_hangs` | `MCUpgradeMissing.cfg` | as above | violation of `PageGoesOn` |
| `cleanup_keeps_old` | `MCUpgradeCleanup.cfg` | as above | violation of `CleanupRemovesOlder` |
| `upgrade_never_settles` | `MCUpgradeConverge.cfg` | as above | violation of `UpgradeConverges` |
| `downloads` | `MCDownloads.cfg` | 3 files, groups of 2, 2 blocks, zero Content-Length and failures possible | pass: `TypeOK`, `GroupBound`, `NextMeansDownloaded`, `OutcomeReported` |
| `download_no_length_hangs` | `MCDownloadsNoLength.cfg` | as above, no Content-Length possible | violation of `OutcomeReported` |
| `splitters` | `MCSplitter.cfg` | both scripts; one directory of g.dot, g1.dot (left by an earlier run, edited since), "g h.dot", p.svg and Errors.txt; patterns `*`, `*.dot`, `g*` in every listing order; every pair of 8 versions | pass: `DigitsAreDecimal`, `IsGreaterIsLexOrder`, `SplitFaithful` |

**Why these bounds are enough.** The tree has a node with one son, a node with
two sons, and leaves at depths 1 and 2. These are all the shapes that
`traverseAndInstall` and `getLeafsNumber` tell apart. Two Starts are enough for
a second thread to overlap the first and for `index` to carry over. The
version set covers a two-digit component (1.10 against 1.9), equal digit lists
from different strings (1.10 against 1.1.0), a bare number, and an unparsable
component.

In `wizard`, some page sets leave c, or b, unlisted. So `FetchAnswered`
is checked both with its condition and without it, and the stuck slot of
`missing_version_hangs` appears in the run's behaviours. The state space is
finite although the user may loop through Back and Start forever: each
Start returns the Catalog state to `Fresh`.

The catalog pages list a package twice across pages and within the manifest
order, so the last-wins rule of `dict(zip(...))` and the accumulation of
`names` and `vers` across pages both matter. The two-repository manifest
reads two pages.

In `splitters` the directory is the one a second run meets: Errors.txt
already holds a line, g1.dot is both an input and the first output of g.dot,
and Errors.txt is an input under `*`. g.dot has leading lines, two graphs
and a graph whose brace is on the next line; "g h.dot" exercises the space
rule, and p.svg has two XML documents. Every order of the globbed files is
enumerated.

`OutcomeReported` is not part of `install`: with faults on it is violated,
which is the `fault_unreported` run.

`CHECK_DEADLOCK FALSE`: once the outcome is shown, the wizard waits for the
user to press Next or close the window, and that is outside the model.
In `wizard` the window is closed by Finish, or a slot that raised leaves the
modal dialog open for good; both are final states. In `splitters` the
script has ended.

### What the violations show
- **retry_completes_early.** A build fails after one leaf completed. The user
  closes the error and presses Start. The new thread's first leaf brings the
  stale `index` to `leafs`. `deletePackages` and "Installation Completed"
  follow while a package is still not installed.
- **retry_shares_cwd.** The first thread is still building a sibling branch
  when the second thread's `os.chdir` moves the process, so make runs in
  another package's directory.
- **fault_unreported.** TLC's counterexample: Popen raises at make install,
  the handler's `str(es)` raises a NameError and the thread dies silently.
  The same run also covers the other silent path: a failed `rm -rf` emits
  `removalError`, which has no receiver, and cleanup stops with nothing
  shown.
- **missing_version_hangs.** A package no remote page lists keeps version
  None. `myAddRow` (install) or `check` (upgrade) concatenates it and raises
  before the progress dialog is closed; the dialog is modal and has no cancel
  button.
- **cleanup_keeps_old.** `deletePackages` compares a directory's prefix, a
  packName, with `node.name`; since the two differ, no old directory is ever
  removed.
- **download_no_length_hangs.** Without a Content-Length, `urlretrieve`
  passes totalSize -1; the percent is never 100, so neither
  `downloadCompleted` nor `downloadingError` is emitted and the page waits
  with every button disabled.
- **upgrade_never_settles.** Catalog 1.10, local 1.9: the upgrade unpacks
  1.10 beside 1.9, the next `findPacks` keeps 1.9 (greater by digits), and
  `getOldNodes` plans the same install again.

## 5. Not modelled, and why
- InstallWid's directory fields and BashWid's lines only build strings for
  the environment and `.bashrc`. `InstallWid.start` accepts one blank field
  of the two (`and`, line 133), which the wizard model does not tell apart;
  a blank installation directory then gives configure an empty `--prefix`.
- `MainWindow.showPackDialog` and the About dialogs only show text.
- Manifests that list a son before its father, or two roots, are outside the
  format the spec gives and are not in `MCCatalog`. With a son first,
  `<<repository, r, a(r), b(c), c(a)>>`, TLC finds b hung under r through
  the stale `Tree.node` (`ConfigManager.py:127`).
- Page rows with no release link, or with extra text between the links, are
  not enumerated: the real page layout is not in the repository. Such rows
  would shift the `zip` pairs (`TableParser.py:49`).
- Which of two versions `isGreater` ties (1.10, 1.1.0) `findPacks` keeps
  depends on listdir order; `MCUpgrade` uses no tied versions.
- Dialog layout, texts, icons, `.bashrc` editing (`BashWid`) and
  `ReqPackParser` are presentation or file I/O; no property depends on them.
- A second run of `dotSplitter "*.dot"` in the same directory destroys a
  file it was asked to split. TLC finds this for the action property "no
  step changes a file still on the glob list" in four steps: g.dot's first
  graph opens g1.dot with `"w"` before g1.dot is read
  (`dotSplitter.py:35`). The runs keep to the installer's own violations,
  so this one is not among them.
  `SplitFaithful` holds all the same: each file is split as it is read.
- Two behaviours of `dotSplitter` are not stated as properties. Errors.txt
  is reopened with `"w"` for every input, so only the last file's leading
  lines survive (line 30). A graph whose `{` is on the next line does not
  start a new output (line 32). No comment says what either should do.
- "A tar file is removed only once its package is installed" is not a
  checked property. With one Start, every unpack comes before the last
  `subtreeCompleted`, so it cannot fail there. With two Starts, TLC breaks it
  in 17 states: run 1 counts leaf c, b fails, the error is dismissed and
  Start is pressed again; run 2's leaf c brings the stale `index` to `leafs`,
  and `deletePackages` removes b's tar file before run 2 unpacks b
  (`Installer.py:146`). The cause is the stale index that
  `retry_completes_early` already reports.
- The environment strings in `Installer.__init__` only concatenate paths. No
  step of the model depends on their value.
