SPECIFICATION IdleSpec
CONSTANTS
    Fds = {0, 1}
    Lens = {1, 2}
    MaxQueue = 2
    MaxPkts = 2
PROPERTY StopEnds
