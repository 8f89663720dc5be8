------------------------- MODULE MCDaemonLifecycle -------------------------
EXTENDS DaemonLifecycle
=============================================================================
