SPECIFICATION Spec
CONSTANTS
    Switches = {sw1, sw2, sw3, sw4, sw5}
    Order <- Named
    Outside = outside
    Wires <- AllWires
    BaseRoute <- Mirror
    Handlers = {h1, h2}
    Frail <- MayFail
    Changes = 3
    Requests = 1
    Faults = 1
    sw1 = sw1
    sw2 = sw2
    sw3 = sw3
    sw4 = sw4
    sw5 = sw5
INVARIANT TunnelStands
SYMMETRY Symmetric
CHECK_DEADLOCK FALSE
