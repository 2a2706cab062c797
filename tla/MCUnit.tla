------------------------------- MODULE MCUnit -------------------------------
\* Small instances of UnitOfWork.
EXTENDS UnitOfWork, TLC

\* Clients are interchangeable: every definition treats them alike.
Symmetry == Permutations(Clients)
=============================================================================
