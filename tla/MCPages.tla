------------------------------ MODULE MCPages ------------------------------
\* TLC instances of the pages, safety and liveness.
EXTENDS Pages

CONSTANTS ada, bo
=============================================================================
