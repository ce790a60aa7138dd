---------------------------- MODULE PackageTree ----------------------------
(***************************************************************************)
(* The package tree of config/ConfigManager.py (classes Node and Tree).   *)
(* A node is identified by its logical name; its sons are the ordered     *)
(* list Node.sons.  The tree is fixed once the manifest has been parsed,  *)
(* so it is a constant here; its queries are operators.                   *)
(***************************************************************************)
EXTENDS Naturals, Sequences, SequencesExt

CONSTANTS Nodes,  \* names of the packages of the manifest
          Root,   \* Tree.root
          Sons    \* Node.sons, as a function from a node to a sequence of nodes

\* Every node but the root is the son of exactly one node, once.
ASSUME TreeShape ==
    /\ Root \in Nodes
    /\ Sons \in [Nodes -> Seq(Nodes)]
    /\ \A n \in Nodes \ {Root} :
          Cardinality({<<f, i>> \in Nodes \X (1..Cardinality(Nodes)) :
                          i \in DOMAIN Sons[f] /\ Sons[f][i] = n}) = 1
    /\ \A f \in Nodes : Root \notin Range(Sons[f])

\* len(node.sons) == 0
IsLeaf(n) == Sons[n] = <<>>

\* Tree.getNodes / __getNodes: the node, then the nodes of every son's
\* subtree in the order of Node.sons (pre-order).
RECURSIVE GetNodes(_)
GetNodes(n) == <<n>> \o FlattenSeq([i \in DOMAIN Sons[n] |-> GetNodes(Sons[n][i])])

\* Tree.getLeafsNumber / __getLeafsNumber
RECURSIVE LeafsNumber(_)
LeafsNumber(n) ==
    IF IsLeaf(n) THEN 1
    ELSE FoldLeft(LAMBDA acc, s : acc + LeafsNumber(s), 0, Sons[n])
=============================================================================
