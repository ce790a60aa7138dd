------------------------------ MODULE Planner ------------------------------
(***************************************************************************)
(* Assignment of an action to every node of the package tree:            *)
(* DownloadWid.setAction (ui/DownloadWid.py) and the action numbering of  *)
(* Node (config/ConfigManager.py) and MainWindow (ui/MainWindow.py).      *)
(***************************************************************************)
EXTENDS PackageTree

\* Node.INSTALL, Node.UPGRADE, Node.NONE, Node.REBUILD
Actions == {"INSTALL", "UPGRADE", "NONE", "REBUILD"}

\* MainWindow.INSTALL, MainWindow.UPGRADE, MainWindow.REBUILD: the wizard's choice
Modes == {"INSTALL", "UPGRADE", "REBUILD"}

\* Variant for mutation checks: the sons get the node's own "parent" flag,
\* so an INSTALL node no longer marks its descendants.
RECURSIVE SetActionFlat(_, _, _, _)
SetActionFlat(node, parent, toUpgrade, mode) ==
    LET own == CASE mode = "REBUILD"    -> "REBUILD"
                 [] node \in toUpgrade -> "INSTALL"
                 [] parent             -> "UPGRADE"
                 [] OTHER              -> "NONE"
    IN FoldLeft(LAMBDA f, s : f @@ SetActionFlat(s, parent, toUpgrade, mode),
                [n \in {node} |-> own], Sons[node])

\* setAction(node, parent, toUpgrade): in a rebuild every node is REBUILD;
\* otherwise a node of toUpgrade is INSTALL and makes all its descendants
\* "parent", a "parent" node not in toUpgrade is UPGRADE, any other NONE.
\* Returns the actions of the subtree of node.
RECURSIVE SetAction(_, _, _, _)
SetAction(node, parent, toUpgrade, mode) ==
    LET own     == CASE mode = "REBUILD"    -> "REBUILD"
                     [] node \in toUpgrade -> "INSTALL"
                     [] parent             -> "UPGRADE"
                     [] OTHER              -> "NONE"
        sonFlag == mode # "REBUILD" /\ (node \in toUpgrade \/ parent)
    IN FoldLeft(LAMBDA f, s : f @@ SetAction(s, sonFlag, toUpgrade, mode),
                [n \in {node} |-> own], Sons[node])
=============================================================================
