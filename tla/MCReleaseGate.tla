--------------------------- MODULE MCReleaseGate ---------------------------
EXTENDS ReleaseGate
=============================================================================
