SPECIFICATION Spec
CONSTANTS
    igb0 = igb0
    igb1 = igb1
    reader = reader
    Nics = {igb0, igb1}
    Readers = {reader}
    Wrap = 4
    Base = 2
    FirstCount = 3
    MaxTraffic = 1
INVARIANTS TypeOK ViewIsCoherent
PROPERTIES NeverOverstates
SYMMETRY Symmetry
