CONSTANTS
    p1 = p1  p2 = p2  p3 = p3
    Plugin = {p1, p2, p3}
    Declared <- Ring
    NoCall = NoCall
    Caller = {c1, c2}
    ErrorListener = TRUE
SPECIFICATION PluginsSpec
INVARIANTS TypeOK RegisteredAcyclic DependenciesInitialized ActiveIsRunning
           GraphsMirror CyclesFound LoadOrderSound ImpactComplete
SYMMETRY CallersAlike
