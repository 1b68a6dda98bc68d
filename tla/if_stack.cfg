SPECIFICATION Spec
CONSTANTS
    Bridges  = {1, 4}
    Eths     = {2, 3}
    MoCAs    = {3}
    Others   = {}
    MaxName  = 4
    MaxChanges = 1
    MaxFailures = 1

INVARIANTS
    PortsLinked
    
