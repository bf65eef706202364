--------------------------- MODULE MCToolCatalog ---------------------------
(***************************************************************************)
(* Instances of ToolCatalog for TLC.                                            *)
(***************************************************************************)
EXTENDS ToolCatalog, TLC

\* Requests are interchangeable.
CatalogSymmetry == Permutations(Request)

=============================================================================
