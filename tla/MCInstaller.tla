---------------------------- MODULE MCInstaller ----------------------------
(* A four-package tree: the root has a son with a single son, and a leaf  *)
(* son.  It has a node with one son, a node with several, and two leaves  *)
(* at different depths, the cases traverseAndInstall tells apart.          *)
EXTENDS Installer

MCNodes == {"root", "a", "b", "c"}
MCSons  == [n \in MCNodes |-> CASE n = "root" -> <<"a", "b">>
                                [] n = "a"    -> <<"c">>
                                [] OTHER      -> <<>>]
=============================================================================
