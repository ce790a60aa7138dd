------------------------------ MODULE MCUpgrade ------------------------------
(***************************************************************************)
(* Model of the upgrade planner for TLC.  A state is one input of the      *)
(* download page: whether the manifest and remote pages were read, the    *)
(* action the user chose on the first page, the version the remote pages  *)
(* gave every node (or None), and the version directories of every        *)
(* package in the source directory, in listdir order.                     *)
(* The tree is a chain root -> a -> c; no name is its package's packName,  *)
(* as in the manifest.                                                     *)
(***************************************************************************)
EXTENDS Upgrade, FiniteSetsExt

MCNodes == {"root", "a", "c"}
MCSons  == [n \in MCNodes |-> CASE n = "root" -> <<"a">>
                                [] n = "a"    -> <<"c">>
                                [] OTHER      -> <<>>]
MCPackName == [n \in MCNodes |-> "pk_" \o n]

\* "1" has no dot, which getDigits rejects; "1.10" is below "1.9" for
\* isGreater, which reads digits.
MCLabels == {"1", "1.8", "1.9", "1.10"}
MCComps  == [l \in MCLabels |-> CASE l = "1"    -> <<1>>
                                  [] l = "1.8"  -> <<1, 8>>
                                  [] l = "1.9"  -> <<1, 9>>
                                  [] OTHER      -> <<1, 10>>]

\* The versions a remote page may report, and the directories a package may
\* have locally, in listdir order.
CatalogChoices == {"1.9", "1.10", None}
LocalChoices   == {<<>>, <<"1.9">>, <<"1.10">>, <<"1.8", "1.9">>,
                   <<"1.10", "1.9">>, <<"1", "1.10">>}

\* listdir(sourceDir) also holds directories of no package of the tree.
Foreign == <<"other", "1.9">>

VARIABLES fetched, mode, cat, loc
vars == <<fetched, mode, cat, loc>>

Init == /\ fetched \in BOOLEAN
        /\ mode \in Modes
        /\ cat  \in [MCNodes -> CatalogChoices]
        /\ loc  \in [MCNodes -> LocalChoices]

\* The inputs do not change; every state is a separate question.
Next == UNCHANGED vars

Spec == Init /\ [][Next]_vars

Listing == <<Foreign>> \o
           FlattenSeq([i \in 1..Cardinality(Nodes) |->
              LET n == GetNodes(Root)[i]
              IN [j \in DOMAIN loc[n] |-> <<PackName[n], loc[n][j]>>]])

Src == Range(Listing)
Old == FindPacks(Listing, GetVersions(cat))
Act == Action(mode, Listing, cat)
Out == PageOutcome(fetched, mode, Listing, cat, TRUE)

\* The directory set as a listing, in some order (no two labels of MCLabels
\* tie under isGreater, so findPacks does not depend on the order).
AsListing(S) == FoldSet(LAMBDA d, acc : <<d>> \o acc, <<>>, S)

Parent(n) == CHOOSE f \in Nodes : n \in Range(Sons[f])
RECURSIVE Ancestors(_)
Ancestors(n) == IF n = Root THEN {} ELSE {Parent(n)} \cup Ancestors(Parent(n))

\* The rule setAction implements: a rebuild rebuilds everything; otherwise
\* an outdated node is installed, a node below an outdated one is upgraded,
\* and any other is left alone.
RuleAction(n, toUpgrade) ==
    CASE mode = "REBUILD"                -> "REBUILD"
      [] n \in toUpgrade                 -> "INSTALL"
      [] Ancestors(n) \cap toUpgrade # {} -> "UPGRADE"
      [] OTHER                           -> "NONE"

-----------------------------------------------------------------------------
\* setAction gives every node the action of the rule, for the outdated set
\* getOldNodes computes.
SetActionMatchesRule ==
    mode # "INSTALL" =>
        \A n \in Nodes : Act[n] = RuleAction(n, GetOldNodes(Listing, cat))

\* findPacks keeps, for every package it finds, a parsable version of one
\* of its directories that no other directory of the package is greater than.
KeptIsGreatest ==
    \A p \in DOMAIN Old :
        /\ <<p, Old[p]>> \in Src
        /\ Parses(Comps[Old[p]])
        /\ \A d \in Src : d[1] = p => ~IsGreater(Comps[d[2]], Comps[Old[p]])

\* When check or checkForRebuild lets the installation start, every node
\* that will not be unpacked has the directory Installer's chdir enters
\* (sourceDir/packName-version).
SourcesPresent ==
    Out \in {"confirm", "rebuild"} =>
        \A n \in Nodes : Act[n] # "INSTALL" => DirectoryName(n, cat) \in Src

\* The download page always goes on: once the remote pages are read, the
\* progress dialog closes and offers downloads, Next, or Back and Start,
\* whatever versions the pages reported.
PageGoesOn == Offers(Out) # {}

\* deletePackages removes, for every installed package, each directory of
\* it whose version is below the installed one.
CleanupRemovesOlder ==
    Out \in {"download", "confirm"} =>
        LET after == AfterInstall(Src, Act, cat)
        IN \A n \in Nodes : Act[n] = "INSTALL" =>
              \A d \in after : d[1] = PackName[n] =>
                  ~IsGreater(Comps[cat[n]], Comps[d[2]])

\* After an upgrade completes, a new check finds every package matching
\* the catalog.
UpgradeConverges ==
    Out = "confirm" =>
        GetOldNodes(AsListing(AfterInstall(Src, Act, cat)), cat) = {}
=============================================================================
