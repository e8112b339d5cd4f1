SPECIFICATION Spec
CONSTANTS
    Threads = {t1, t2}
    Incidents = {i1, i2}
    Flows = {fa, fb}
    Ttls = {1}
    Failing = {i1}
    MaxTime = 1
    t1 = t1
    t2 = t2
    i1 = i1
    i2 = i2
    fa = fa
    fb = fb
    Requests <- DirectiveAndAlert
INVARIANT TypeOK
INVARIANT NoHiddenDrop
SYMMETRY Symmetric
