-------------------------- MODULE SessionRegistry --------------------------
(***************************************************************************)
(* What the daemon promises about device connections (docs/phase-3.md and  *)
(* docs/protocol.md: one active Control connection and one matching Data   *)
(* connection), each promise one atomic step.  Every connection is used at *)
(* most once; a data channel belongs to one session from its first to its  *)
(* last moment; losing the session or stopping takes the channel and its   *)
(* relay away in the same instant, and after stopping there is nothing.    *)
(***************************************************************************)
CONSTANTS ControlConns, DataConns, None

VARIABLES
    session,    \* the Control connection, or None
    kind,       \* "" without a session, else the mode of its HELLO
    channel,    \* the Data connection bound to the session, or None
    tunnel,     \* the relay that carries the channel's packets, or None
    fresh,      \* connections that have not asked for anything yet
    halted

vars == <<session, kind, channel, tunnel, fresh, halted>>

Init ==
    /\ session = None /\ kind = "" /\ channel = None /\ tunnel = None
    /\ fresh = ControlConns \cup DataConns
    /\ halted = FALSE

\* SESSION_BUSY or DATA_SESSION_REJECTED.
Refuse(h) ==
    /\ h \in fresh
    /\ fresh' = fresh \ {h}
    /\ UNCHANGED <<session, kind, channel, tunnel, halted>>

\* A session starts with no channel left over from an older one.
Open(c, m) ==
    /\ ~halted /\ session = None /\ channel = None /\ tunnel = None
    /\ c \in fresh
    /\ session' = c /\ kind' = m
    /\ fresh' = fresh \ {c}
    /\ UNCHANGED <<channel, tunnel, halted>>

Attach(d) ==
    /\ ~halted /\ session # None /\ kind = "vpn" /\ channel = None /\ tunnel = None
    /\ d \in fresh
    /\ channel' = d
    /\ fresh' = fresh \ {d}
    /\ UNCHANGED <<session, kind, tunnel, halted>>

\* Packets flow only for the attached channel, and start to flow once.
Carry(d) ==
    /\ ~halted /\ channel = d /\ tunnel = None
    /\ tunnel' = d
    /\ UNCHANGED <<session, kind, channel, fresh, halted>>

Detach ==
    /\ channel # None
    /\ channel' = None /\ tunnel' = None
    /\ UNCHANGED <<session, kind, fresh, halted>>

Drop ==
    /\ ~halted /\ session # None
    /\ session' = None /\ kind' = "" /\ channel' = None /\ tunnel' = None
    /\ UNCHANGED <<fresh, halted>>

Halt ==
    /\ halted' = TRUE
    /\ session' = None /\ kind' = "" /\ channel' = None /\ tunnel' = None
    /\ UNCHANGED fresh

Next ==
    \/ \E h \in ControlConns \cup DataConns : Refuse(h)
    \/ \E c \in ControlConns, m \in {"phase1", "vpn"} : Open(c, m)
    \/ \E d \in DataConns : Attach(d) \/ Carry(d)
    \/ Detach \/ Drop \/ Halt

Spec == Init /\ [][Next]_vars
=============================================================================
