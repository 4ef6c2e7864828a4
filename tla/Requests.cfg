SPECIFICATION PartsSpec
CONSTANTS
    None = None
    Declined = Declined
    t1 = t1
    t2 = t2
    k1 = k1
    k2 = k2
    k3 = k3
    h1 = h1
    h2 = h2
INVARIANTS PlanSound ViewTrue DirectJustified   RecordTrue
PROPERTY Irrevocable
SYMMETRY Symmetric
CHECK_DEADLOCK FALSE
