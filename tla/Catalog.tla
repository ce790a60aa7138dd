------------------------------ MODULE Catalog ------------------------------
(***************************************************************************)
(* How the package tree is built and given its catalog versions           *)
(* (config/ConfigManager.py, config/TableParser.py): the SAX callback      *)
(* ConfigParser.startElement, once per element of the manifest, with      *)
(* Tree.addNode and its search __getNode; then NetworkManager.run, where  *)
(* TableParser.addVersions feeds every version page to the SGML parser,   *)
(* whose callbacks start_a, end_a and handle_data collect the names and   *)
(* the versions, and setTreeVersions pairs them with zip and writes them  *)
(* into the nodes reachable from Tree.root.  One thread at a time runs    *)
(* these steps: the wizard waits for NetworkManager's signal.             *)
(*                                                                         *)
(* A Node object is the position of its package element in the manifest. *)
(* A page is a sequence of rows, each a package name link and its release *)
(* link; Tokens gives the callbacks the parser makes for it.  Whitespace between tags is a data chunk that     *)
(* strip() empties; it is the text "".                                    *)
(***************************************************************************)
EXTENDS Naturals, Sequences, SequencesExt

CONSTANTS Manifests,  \* the manifests the installer may be given
          PageSets,   \* the version pages, one per repository element
          MaxLen,     \* the longest manifest
          None,       \* Python's None
          NetMayFail  \* urllib.urlopen may raise

NoFather == ""
Pos      == 1..MaxLen

VARIABLES manifest, \* the elements of the manifest, in document order
          pages,    \* the version page of every versionUrl
          pos,      \* the element startElement gets next
          repos,    \* len(tree.url): repository elements seen
          root,     \* Tree.root (0 for None)
          sons,     \* Node.sons of every element's node
          node,     \* Tree.node: the result of the last __getNode search
          status,   \* "parsing", "fetching", "complete", "parseError", "connError"
          pg,       \* addVersions: the versionUrl being read
          tok,      \* the parser's position in that page (0: not opened)
          packId,   \* TableParser.packId
          match,    \* TableParser.match
          names,    \* TableParser.names
          vers,     \* TableParser.vers
          version   \* Node.version of every element's node

vars == <<manifest, pages, pos, repos, root, sons, node, status, pg, tok,
          packId, match, names, vers, version>>

El        == manifest[pos]
Name(i)   == manifest[i].name
Packages  == {i \in DOMAIN manifest : manifest[i].kind = "package"}

\* The callbacks sgmllib makes for one row of a page.
Tokens(row) ==
    LET nameLink == <<[t |-> "name", v |-> row.pid], [t |-> "data", v |-> row.name],
                      [t |-> "end", v |-> ""], [t |-> "data", v |-> ""]>>
        relLink  == <<[t |-> "rel", v |-> row.pid], [t |-> "data", v |-> row.ver],
                      [t |-> "end", v |-> ""]>>
    IN nameLink \o relLink

PageTokens(k) == FlattenSeq([i \in DOMAIN pages[k] |-> Tokens(pages[k][i])])
Tok == PageTokens(pg)[tok]

\* The rows of all the pages.
Rows == UNION {Range(pages[k]) : k \in DOMAIN pages}

\* The nodes reachable from a node through Node.sons.
RECURSIVE Reach(_)
Reach(i) == {i} \cup UNION {Reach(s) : s \in Range(sons[i])}

TypeOK ==
    /\ manifest \in Manifests /\ pages \in PageSets
    /\ pos \in 1..(Len(manifest) + 1) /\ repos \in 0..MaxLen
    /\ root \in 0..MaxLen /\ node \in 0..MaxLen
    /\ sons \in [Pos -> Seq(Pos)]
    /\ status \in {"parsing", "fetching", "complete", "parseError", "connError"}
    /\ pg \in Nat /\ tok \in Nat
    /\ packId \in {None} \cup {r.pid : r \in Rows}
    /\ match \in BOOLEAN
    /\ names \in Seq({r.name : r \in Rows})
    /\ vers \in Seq({r.ver : r \in Rows})
    /\ version \in [Pos -> {None} \cup {r.ver : r \in Rows}]

\* Tree.__init__ with a fresh TableParser to come.
Fresh ==
    /\ pos = 1 /\ repos = 0 /\ root = 0 /\ node = 0
    /\ sons = [i \in Pos |-> <<>>]
    /\ status = "parsing"
    /\ pg = 1 /\ tok = 0 /\ packId = None /\ match = FALSE
    /\ names = <<>> /\ vers = <<>>
    /\ version = [i \in Pos |-> None]

Init == manifest \in Manifests /\ pages \in PageSets /\ Fresh

-----------------------------------------------------------------------------
(* ConfigParser.startElement *)

\* __getNode(node, name): every node of a depth-first walk whose name
\* matches becomes self.node, the last one winning; the walk does not go
\* below a match, and self.node keeps its old value when nothing matches.
\* Variant for mutation checks: the loop over the sons returns from the
\* first son's search.
RECURSIVE GetNodeFirstSon(_, _, _)
GetNodeFirstSon(i, name, found) ==
    IF Name(i) = name THEN i
    ELSE IF sons[i] = <<>> THEN found ELSE GetNodeFirstSon(Head(sons[i]), name, found)

RECURSIVE GetNode(_, _, _)
GetNode(i, name, found) ==
    IF Name(i) = name THEN i
    ELSE FoldLeft(LAMBDA f, s : GetNode(s, name, f), found, sons[i])

\* addNode(father, son): the node __getNode(self.root, father) leaves in
\* self.node, the son being appended to it.
AddNodeFather(father) == IF root = 0 THEN 0 ELSE GetNode(root, father, node)

Parsing == status = "parsing" /\ pos <= Len(manifest)
Unchanged(v) == UNCHANGED v /\ UNCHANGED <<manifest, pages, pg, tok, packId,
                                          match, names, vers, version>>

\* A repository element: its url and version_url lists are appended.
Repository ==
    /\ Parsing /\ El.kind = "repository"
    /\ repos' = repos + 1 /\ pos' = pos + 1
    /\ Unchanged(<<root, sons, node, status>>)

\* A package with no father replaces Tree.root.  tree.url[-1] raises
\* IndexError before any repository element, which ends the parse.
RootPackage ==
    /\ Parsing /\ El.kind = "package" /\ El.father = NoFather
    /\ IF repos = 0 THEN status' = "parseError" /\ UNCHANGED root
                    ELSE root' = pos /\ UNCHANGED status
    /\ pos' = pos + 1
    /\ Unchanged(<<repos, sons, node>>)

\* A package with a father: addNode searches the father from the root
\* and appends the new node to self.node, whatever search set it.  A
\* missing repository, root (None.name) or self.node (None.sons) raises.
ChildPackage ==
    /\ Parsing /\ El.kind = "package" /\ El.father # NoFather
    /\ LET found == AddNodeFather(El.father)
       IN IF repos = 0 \/ found = 0
          THEN status' = "parseError" /\ UNCHANGED <<sons, node>>
          ELSE /\ sons' = [sons EXCEPT ![found] = Append(@, pos)]
               /\ node' = found
               /\ UNCHANGED status
    /\ pos' = pos + 1
    /\ Unchanged(<<repos, root>>)

\* The end of the document: DownloadWid starts the NetworkManager.
ParseEnd ==
    /\ status = "parsing" /\ pos > Len(manifest)
    /\ status' = "fetching"
    /\ Unchanged(<<pos, repos, root, sons, node>>)

-----------------------------------------------------------------------------
(* NetworkManager.run: TableParser.addVersions over tree.versionUrl *)

Fetching(v) == status = "fetching" /\ UNCHANGED v
               /\ UNCHANGED <<manifest, pages, pos, repos, root, sons, node>>
Reading(t)  == status = "fetching" /\ 1 <= tok /\ tok <= Len(PageTokens(pg))
               /\ Tok.t = t /\ tok' = tok + 1

\* urllib.urlopen(url).read() of the next versionUrl.
OpenPage ==
    /\ Fetching(<<status, pg, packId, match, names, vers, version>>)
    /\ pg <= repos /\ tok = 0
    /\ tok' = 1

\* urlopen raises: run's except emits connectionError.  The nodes keep the
\* versions the pages read so far gave them.
OpenFail ==
    /\ NetMayFail
    /\ Fetching(<<pg, tok, packId, match, names, vers, version>>)
    /\ pg <= repos /\ tok = 0
    /\ status' = "connError"

\* start_a on a package link: packId is its package_id.
StartName ==
    /\ Reading("name") /\ packId' = Tok.v
    /\ Fetching(<<status, pg, match, names, vers, version>>)

\* start_a on a release link: match when its package_id is packId; packId
\* is reset either way.
StartRelease ==
    /\ Reading("rel")
    /\ match' = (match \/ packId = Tok.v)
    /\ packId' = None
    /\ Fetching(<<status, pg, names, vers, version>>)

\* end_a
EndAnchor ==
    /\ Reading("end") /\ match' = FALSE
    /\ Fetching(<<status, pg, packId, names, vers, version>>)

\* Variant for mutation checks: the name chunk is not checked for emptiness.
HandleDataNoStrip ==
    /\ Reading("data")
    /\ names' = IF packId # None THEN Append(names, Tok.v) ELSE names
    /\ vers'  = IF match THEN Append(vers, Tok.v) ELSE vers
    /\ Fetching(<<status, pg, packId, match, version>>)

\* handle_data: after a package link, a chunk not empty once stripped is a
\* name; inside a matching release link, any chunk is a version.
HandleData ==
    /\ Reading("data")
    /\ names' = IF packId # None /\ Tok.v # "" THEN Append(names, Tok.v) ELSE names
    /\ vers'  = IF match THEN Append(vers, Tok.v) ELSE vers
    /\ Fetching(<<status, pg, packId, match, version>>)

\* Variant for mutation checks: the first pair of a name wins.
ZipDictFirstWins(ns, vs) == FoldLeft(LAMBDA d, p : d @@ (p[1] :> p[2]),
                                     [x \in {} |-> None], Zip(ns, vs))

\* dict(zip(names, vers)): a later pair of the same name wins.
ZipDict(ns, vs) == FoldLeft(LAMBDA d, p : (p[1] :> p[2]) @@ d,
                            [x \in {} |-> None], Zip(ns, vs))

\* close(), then setTreeVersions(tree.root): every node reachable from the
\* root whose name is a key takes its version; the others keep theirs.
\* After the last page tree.root is set and "completion" emitted.
PageDone ==
    /\ status = "fetching" /\ tok = Len(PageTokens(pg)) + 1
    /\ LET temp == ZipDict(names, vers)
       IN version' = [i \in Pos |-> IF i \in Reach(root) /\ Name(i) \in DOMAIN temp
                                    THEN temp[Name(i)] ELSE version[i]]
    /\ pg' = pg + 1 /\ tok' = 0
    /\ status' = IF pg = repos THEN "complete" ELSE status
    /\ UNCHANGED <<manifest, pages, pos, repos, root, sons, node, packId, match,
                   names, vers>>

-----------------------------------------------------------------------------
Parse  == Repository \/ RootPackage \/ ChildPackage \/ ParseEnd
Fetch  == OpenPage \/ OpenFail \/ StartName \/ StartRelease \/ EndAnchor
          \/ HandleData \/ PageDone

Next == Parse \/ Fetch

\* One thread parses, then one thread reads the pages; neither stops while
\* it has input.  A failing urlopen is possible, never forced.
Spec == Init /\ [][Next]_vars /\ WF_vars(Parse) /\ WF_vars(Fetch)

-----------------------------------------------------------------------------
\* The version the pages read so far give a name: that of the last row of
\* the name, None if no page lists it.
Listed(name, upto) ==
    LET rows == FlattenSeq([k \in 1..upto |-> pages[k]])
        j    == SelectLastInSeq(rows, LAMBDA r : r.name = name)
    IN IF j = 0 THEN None ELSE rows[j].ver

\* Once startElement has taken the whole manifest without raising, the tree
\* from Tree.root holds every package of the manifest, each the son of a
\* package with the name its father attribute gives.
ManifestFaithful ==
    status \notin {"parsing", "parseError"} =>
        /\ root # 0 /\ Reach(root) = Packages
        /\ \A f \in Packages : \A s \in Range(sons[f]) : manifest[s].father = Name(f)

\* When NetworkManager emits "completion", every node of the tree has the
\* version of its own name's release row, the one the last page listing it
\* gives, and None when no page lists it.
VersionsFromOwnRow ==
    status = "complete" => \A i \in Reach(root) : version[i] = Listed(Name(i), repos)
=============================================================================
