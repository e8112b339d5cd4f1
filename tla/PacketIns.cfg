SPECIFICATION Spec
CONSTANTS
    Switches = {sw1, sw2, sw3, sw4, sw5}
    Order <- NamedAll
    Outside = outside
    Wires <- MoreWires
    Sessions <- One
    Handlers = {h1}
    Nobody = nobody
    QueueCap = 1
    DedupWindow = 2
    Limits = {1}
    Overlap = FALSE
    Frail <- LinkAndSwitch
    Losses = {"inactive", "gone"}
    Changes = 2
    Faults = 1
    sw1 = sw1
    sw2 = sw2
    sw3 = sw3
    sw4 = sw4
    sw5 = sw5
    ana = ana
    eva = eva
    leo = leo
    vlan = vlan
    course = course
INVARIANT RoutesAreBest
PROPERTY LetIn
CHECK_DEADLOCK FALSE
