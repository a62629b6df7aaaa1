SPECIFICATION ILiveSpec
INVARIANTS NoneLeftInService NoLostEdge VectorPresent
PROPERTIES KeysServed ClockServed
