------------------------------- MODULE MCBulk -------------------------------
\* The bulk compiler and the effect of its statements on small patch lists.
EXTENDS BulkEffect, MCPatches
=============================================================================
