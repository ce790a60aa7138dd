---------------------------- MODULE InstallerSpec ----------------------------
(***************************************************************************)
(* What the build of the package tree promises, without threads, signals, *)
(* steps or the working directory: packages are installed one at a time, *)
(* each only after every package above it that has something to build,  *)
(* an archive is removed only once its package is installed, and the     *)
(* completion is announced only when every package with an action is     *)
(* installed and every archive is gone.  Failures are not steps here: a   *)
(* failed package is one that is never installed.                         *)
(***************************************************************************)
EXTENDS Planner

VARIABLES Act,        \* the action of every node
          Installed,  \* the nodes installed so far
          Archives,   \* the archives still in the source directory
          Done        \* the completion has been announced

avars == <<Act, Installed, Archives, Done>>

Parent(n) == CHOOSE f \in Nodes : n \in Range(Sons[f])
RECURSIVE Above(_)
Above(n) == IF n = Root THEN {} ELSE {Parent(n)} \cup Above(Parent(n))

Init ==
    /\ Act \in [Nodes -> Actions]
    /\ Installed = {}
    /\ Archives = {n \in Nodes : Act[n] = "INSTALL"}
    /\ Done = FALSE

Install(n) ==
    /\ Act[n] # "NONE" /\ n \notin Installed /\ ~Done
    /\ \A a \in Above(n) : Act[a] # "NONE" => a \in Installed
    /\ Installed' = Installed \cup {n}
    /\ UNCHANGED <<Act, Archives, Done>>

RemoveArchive(n) ==
    /\ n \in Archives \cap Installed
    /\ Archives' = Archives \ {n}
    /\ UNCHANGED <<Act, Installed, Done>>

Complete ==
    /\ ~Done
    /\ \A n \in Nodes : Act[n] # "NONE" => n \in Installed
    /\ Archives = {}
    /\ Done' = TRUE
    /\ UNCHANGED <<Act, Installed, Archives>>

Next == Complete \/ \E n \in Nodes : Install(n) \/ RemoveArchive(n)

Spec == Init /\ [][Next]_avars
=============================================================================
