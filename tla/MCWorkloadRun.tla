---------------------------- MODULE MCWorkloadRun ----------------------------
EXTENDS WorkloadRun
=============================================================================
