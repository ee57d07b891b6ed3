----------------------------- MODULE MCRecovery -----------------------------
\* Recovery for TLC: ids of processes and workers are interchangeable, but the
\* liveness property forbids to make use of it.
EXTENDS Recovery
=============================================================================
