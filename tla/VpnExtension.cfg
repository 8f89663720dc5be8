CONSTANT Faults = {"transport", "setup", "destroy", "ackTimeout", "system"}
SPECIFICATION FairSpec
INVARIANTS TunnelOwned RebuildsFromNothing EndsReleased
PROPERTIES UsesPump UIStopEnds DeadLinkGivenUp PumpFailureNoticed
