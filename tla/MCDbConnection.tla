--------------------------- MODULE MCDbConnection ---------------------------
EXTENDS DbConnection, TLC

Symmetry == Permutations(Thread)
=============================================================================
