------------------------------ MODULE MCCacher ------------------------------
\* Small instances of StmtCacher.
EXTENDS StmtCacher, TLC

\* Neither the two goroutines with a transaction nor the queries differ.
Symmetry == Permutations(TxGoroutines) \cup Permutations(Goroutines \ TxGoroutines)
=============================================================================
