------------------------------ MODULE Upgrade ------------------------------
(***************************************************************************)
(* The upgrade planner of the wizard's download page (ui/DownloadWid.py):  *)
(* findPacks scans the source directory, getOldNodes diffs what it finds  *)
(* against the catalog versions the remote pages gave the tree, setAction *)
(* (module Planner) assigns the actions, and the slot connected to         *)
(* NetworkManager's "completion" (startDownload, check or checkForRebuild) *)
(* decides how the page goes on.  Also the effect on the source directory *)
(* of an installation that completed: the archives unpacked by            *)
(* Installer.traverseAndInstall and the directories removed by            *)
(* Installer.deletePackages (logic/Installer.py).                          *)
(*                                                                         *)
(* A directory of the source directory is the pair <<prefix, label>> of   *)
(* the text before and after its last '-'.  A version is a label, a       *)
(* string; Comps[label] is its dot-separated components as Versions reads *)
(* them.  Two labels with the same components are still different        *)
(* strings ("1.01" and "1.1"), which matters where the code compares      *)
(* them with != .                                                          *)
(***************************************************************************)
EXTENDS Planner, Versions

CONSTANTS PackName,  \* Node.packName of every node
          Labels,    \* the version strings that occur
          Comps,     \* Comps[l]: the components of label l
          None       \* Node.version of a node no remote page listed

ASSUME /\ PackName \in [Nodes -> STRING]
       /\ Comps \in [Labels -> Seq(Nat \cup {Bad})]
       /\ None \notin Labels

Packs == {PackName[n] : n \in Nodes}

\* Node.getDirectoryName: the directory an archive unpacks into.
DirectoryName(n, ver) == <<PackName[n], ver[n]>>

\* getNodeFromPack(node, name): the last node of a depth-first walk whose
\* packName is name; the walk does not go below a match, and found is the
\* stale self.node the search starts from.
RECURSIVE NodeFromPack(_, _, _)
NodeFromPack(node, name, found) ==
    IF PackName[node] = name THEN node
    ELSE FoldLeft(LAMBDA f, s : NodeFromPack(s, name, f), found, Sons[node])

\* getVersions: packName |-> version over getNodes(root), a later node
\* overwriting an earlier one of the same packName.
GetVersions(ver) ==
    FoldLeft(LAMBDA d, x : (PackName[x] :> ver[x]) @@ d,
             [p \in {} |-> None], GetNodes(Root))

\* Variant for mutation checks: isGreater called with its arguments swapped.
FindPacksSwapped(listing, new) ==
    LET Scan(old, d) ==
          IF d[1] \notin DOMAIN new THEN old
          ELSE IF d[1] \in DOMAIN old
          THEN IF IsGreater(Comps[old[d[1]]], Comps[d[2]])
               THEN [old EXCEPT ![d[1]] = d[2]] ELSE old
          ELSE IF Parses(Comps[d[2]]) THEN (d[1] :> d[2]) @@ old ELSE old
    IN FoldLeft(Scan, [p \in {} |-> None], listing)

\* findPacks: one pass over the directories in listdir order.  A directory
\* of a package of the tree is kept when it is the first of that package
\* whose version getDigits accepts, and replaces the kept one when
\* isGreater says it is greater.  (A name with no '-' makes rsplit raise
\* and is skipped; no prefix of it is a packName.)
FindPacks(listing, new) ==
    LET Scan(old, d) ==
          IF d[1] \notin DOMAIN new THEN old
          ELSE IF d[1] \in DOMAIN old
          THEN IF IsGreater(Comps[d[2]], Comps[old[d[1]]])
               THEN [old EXCEPT ![d[1]] = d[2]] ELSE old
          ELSE IF Parses(Comps[d[2]]) THEN (d[1] :> d[2]) @@ old ELSE old
    IN FoldLeft(Scan, [p \in {} |-> None], listing)

\* Variant for mutation checks: only a catalog version greater than the
\* local one counts as outdated.
GetOldNodesNewerOnly(listing, ver) ==
    LET new == GetVersions(ver)
        old == FindPacks(listing, new)
        out == {p \in DOMAIN new :
                  p \notin DOMAIN old
                  \/ (new[p] # None /\ IsGreater(Comps[new[p]], Comps[old[p]]))}
    IN {NodeFromPack(Root, p, None) : p \in out}

\* getOldNodes: the nodes whose package has no directory, or whose kept
\* directory's version string differs from the catalog's.
GetOldNodes(listing, ver) ==
    LET new == GetVersions(ver)
        old == FindPacks(listing, new)
        out == {p \in DOMAIN new : p \notin DOMAIN old \/ new[p] # old[p]}
    IN {NodeFromPack(Root, p, None) : p \in out}

\* The actions the page leaves on the tree: an INSTALL leaves Node's
\* default action INSTALL; check and checkForRebuild call setAction.
Action(mode, listing, ver) ==
    IF mode = "INSTALL" THEN [n \in Nodes |-> "INSTALL"]
    ELSE SetAction(Root, FALSE, GetOldNodes(listing, ver), mode)

\* The slot connected to "completion":
\*  - startDownload closes the progress dialog with START_DOWN, whose
\*    closeEvent calls DownTableWidget.startDownload; myAddRow builds
\*    packName+'-'+version and raises on a None version before the dialog
\*    is marked closed, so the modal dialog with no cancel button stays;
\*  - check and checkForRebuild report "Check your source directory" when
\*    listdir raises;
\*  - check builds name+" - "+version for every outdated node, raising on
\*    None, then closes with CHECK (the dialog listing the upgrades);
\*  - checkForRebuild reports "Updates Found!" unless nothing is outdated.
Outcome(mode, listing, ver, srcOk) ==
    LET toUpgrade == GetOldNodes(listing, ver)
    IN IF mode = "INSTALL"
       THEN IF \E n \in Nodes : ver[n] = None THEN "stuck" ELSE "download"
       ELSE IF ~srcOk THEN "error"
       ELSE IF mode = "UPGRADE"
       THEN IF \E n \in toUpgrade : ver[n] = None THEN "stuck" ELSE "confirm"
       ELSE IF toUpgrade # {} THEN "outdated" ELSE "rebuild"

\* DownloadWid.start: the manifest is parsed into a Tree and a
\* NetworkManager started; "Parsing Error" if the manifest raises, and
\* NetworkManager.run emits connectionError (manageConnectionError) when
\* addVersions raises, else completion to the slot of the mode.
PageOutcome(fetched, mode, listing, ver, srcOk) ==
    IF ~fetched THEN "error" ELSE Outcome(mode, listing, ver, srcOk)

\* ProgressDialog.closeEvent on the close the slot requests: ERROR enables
\* Back and Start with a message box; START_DOWN hands over to
\* DownTableWidget.startDownload; CHECK runs showDialog, whose accept starts
\* the downloads and whose cancel enables Start and Back; REBUILD enables
\* Next.  A slot that raised never requests the close, and the dialog
\* ignores the user's.
Offers(out) ==
    CASE out \in {"error", "outdated"} -> {"back", "start"}
      [] out = "download"             -> {"downloads"}
      [] out = "confirm"              -> {"downloads", "back", "start"}
      [] out = "rebuild"              -> {"next"}
      [] out = "stuck"                -> {}

\* The directories after an installation that completed: every INSTALL
\* node's archive unpacked into its directory, then deletePackages removing,
\* for every INSTALL node, each directory whose prefix equals the node's
\* name and whose version isGreater puts below the node's.
AfterInstall(src, action, ver) ==
    LET inst     == {n \in Nodes : action[n] = "INSTALL"}
        unpacked == src \cup {DirectoryName(n, ver) : n \in inst}
    IN {d \in unpacked :
          ~\E n \in inst : d[1] = n /\ IsGreater(Comps[ver[n]], Comps[d[2]])}
=============================================================================
