SPECIFICATION FairSpec
CONSTANTS
    Calls = {"p1", "p2", "p3"}
    CircuitOf <- TwoCircuits
    Nobody = "nobody"
INVARIANTS
    TypeOK
    OneCalculatorPerCircuit
    LoadedIsComplete
PROPERTY
    CallsEnd
CHECK_DEADLOCK FALSE
