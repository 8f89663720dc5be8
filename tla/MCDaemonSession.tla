-------------------------- MODULE MCDaemonSession --------------------------
EXTENDS DaemonSession, TLC

\* Connections of a kind are interchangeable.
Connections == Permutations(ControlConns) \cup Permutations(DataConns)
=============================================================================
