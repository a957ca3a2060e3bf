--------------------------- MODULE MCSignalChild ---------------------------
EXTENDS SignalChild
=============================================================================
