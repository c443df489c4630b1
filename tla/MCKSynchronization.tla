-------------------------- MODULE MCKSynchronization --------------------------
\* Small instance of KSynchronization for TLC.
EXTENDS KSynchronization
=============================================================================
