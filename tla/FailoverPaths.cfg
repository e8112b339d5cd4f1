SPECIFICATION Spec
CONSTANTS
    Switches = {sw2, sw3, sw4, sw5}
    Order <- Named
    Outside = outside
    Wires <- AllWires
    Sessions <- Two
    Handlers = {h1, h2}
    Nobody = nobody
    QueueCap = 1
    DedupWindow = 0
    Limits = {1, 2}
    Overlap = FALSE
    Frail <- OneLink
    Losses = {"gone"}
    Changes = 2
    Faults = 0
    sw1 = sw1
    sw2 = sw2
    sw3 = sw3
    sw4 = sw4
    sw5 = sw5
    ana = ana
    eva = eva
    leo = leo
    vlan = vlan
    course = course
INVARIANT TypeOK
INVARIANT NoBlackHole
INVARIANT OwnFlowsKnown
SYMMETRY Symmetric
CHECK_DEADLOCK FALSE
