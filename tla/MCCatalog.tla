------------------------------ MODULE MCCatalog ------------------------------
(***************************************************************************)
(* Manifests and version pages for TLC.  A manifest has unique names and  *)
(* one root, and names every father before its sons, as addNode needs.    *)
(* Pages list every package in a row of its own, a package possibly on    *)
(* two pages.                                                              *)
(***************************************************************************)
EXTENDS Catalog

Repo       == [kind |-> "repository", name |-> "", father |-> ""]
P(n, f)    == [kind |-> "package", name |-> n, father |-> f]
Good(n, v) == [name |-> n, pid |-> "id_" \o n, ver |-> v]

\* A chain, a root with two sons (the second with a son), two
\* repositories, and a package before any repository (which raises).
Ordered ==
    { <<Repo, P("r", ""), P("a", "r"), P("b", "a")>>,
      <<Repo, P("r", ""), P("a", "r"), P("b", "r")>>,
      <<Repo, P("r", ""), P("a", "r"), P("b", "r"), P("c", "b")>>,
      <<Repo, P("r", ""), P("b", "r"), Repo, P("a", "r")>>,
      <<P("r", ""), Repo, P("a", "r")>> }

FirstPages  == { <<Good("r", "1.0"), Good("a", "1.0"), Good("b", "2.0")>>,
                 <<Good("a", "2.0"), Good("r", "1.0")>> }
SecondPages == { <<Good("a", "2.0")>>, <<>> }

MCPageSets == {<<p1, p2>> : p1 \in FirstPages, p2 \in SecondPages}
=============================================================================
