----------------------------- MODULE MCKMailSpool ---------------------------
\* Instances of KMailSpool for TLC.
EXTENDS KMailSpool
=============================================================================
