------------------------------ MODULE MCWizard ------------------------------
(***************************************************************************)
(* The wizard over the manifests and version pages of MCCatalog.          *)
(***************************************************************************)
EXTENDS Wizard, MCCatalog
=============================================================================
