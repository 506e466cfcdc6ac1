SPECIFICATION Spec
CONSTANTS
    igb0 = igb0
    igb1 = igb1
    reader = reader
    Nics = {igb0, igb1}
    Readers = {}
    Wrap = 4
    Base = 2
    FirstCount = 3
    MaxTraffic = 1
PROPERTIES CannotLie
