CONSTANTS
    p1 = p1  p2 = p2  p3 = p3
    Plugin = {p1, p2}
    Declared <- Mutual
    NoCall = NoCall
    Caller = {c1}
    ErrorListener = TRUE
SPECIFICATION Spec
PROPERTY UnloadStopsFirst
