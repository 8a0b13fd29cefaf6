SPECIFICATION Spec
CONSTANT Calls = {c1, c2, c3}
SYMMETRY Alike
INVARIANTS PinsStand
PROPERTIES ImplementsPin
CHECK_DEADLOCK FALSE
