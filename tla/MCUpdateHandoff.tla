-------------------------- MODULE MCUpdateHandoff --------------------------
EXTENDS UpdateHandoff, TLC

\* Nothing tells one version to install, or one updater, from another.
Symmetry == Permutations(Versions) \cup Permutations(Updaters)
=============================================================================
