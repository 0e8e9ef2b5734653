--------------------------- MODULE MCJobLifecycle ---------------------------
EXTENDS JobLifecycle, TLC

JobSymmetry == Permutations(Jobs)
=============================================================================
