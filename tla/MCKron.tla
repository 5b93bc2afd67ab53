-------------------------------- MODULE MCKron ------------------------------
\* Instances of Kron for TLC.
EXTENDS Kron
=============================================================================
