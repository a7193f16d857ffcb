----------------------------- MODULE MCCatalog -----------------------------
EXTENDS Catalog, TLC

\* Nothing tells one refresh from another.
Symmetry == Permutations(Refreshes)
=============================================================================
