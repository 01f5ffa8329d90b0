----------------------------- MODULE MCScanner ------------------------------
\* scan_core checks liveness, so no symmetry of Docs is declared.
EXTENDS Scanner
=============================================================================
