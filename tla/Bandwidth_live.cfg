SPECIFICATION FairSpec
CONSTANTS
    igb0 = igb0
    igb1 = igb1
    reader = reader
    Nics = {igb0, igb1}
    Readers = {}
    Wrap = 2
    Base = 2
    FirstCount = 1
    MaxTraffic = 1
PROPERTIES OutageShows RatesReturn
