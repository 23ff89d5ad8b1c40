CONSTANTS
    Keys = {k1, k2, k3, k4, k5}
    MaxNodes = 2
    Removing = {k1, k2}
SYMMETRY KeySymmetry
SPECIFICATION Spec
INVARIANTS
    TypeOK
    LocationsConsistent
    SizesBounded
    RecencyOrder
PROPERTIES
    ImplementsDemandCache
