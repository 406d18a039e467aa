CONSTANTS
    Runs     = {r1, r2}
    None     = None
    Calls    = {c1}
    MaxQueue = 2
SPECIFICATION Spec
INVARIANTS TypeOK StopReaches TrafficGivenBack ConnectedHasRun
PROPERTIES ConnectedServes StopStops
