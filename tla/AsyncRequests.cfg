SPECIFICATION Spec
CONSTANT Requests = {r1, r2}
SYMMETRY Identities
INVARIANTS NothingLeaks NothingEscapesClose
CHECK_DEADLOCK FALSE
