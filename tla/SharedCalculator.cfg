SPECIFICATION Spec
CONSTANTS
    Calls = {"p1", "p2", "p3"}
    CircuitOf <- TwoCircuits
    Nobody = "nobody"
INVARIANT
    WitnessOfOwnInputs
CHECK_DEADLOCK FALSE
