SPECIFICATION Spec
CONSTANTS
    node = node
    btxd = btxd
    m = m
    c1 = c1
    c2 = c2
    u1 = u1
    u2 = u2
    w1 = w1
    w2 = w2
    w3 = w3
    w4 = w4
    Daemons = {node, btxd}
    Order <- TwoInOrder
    Main = m
    Closers = {}
    Users = {}
    Watchers = {w1, w2}
    Ops = {"start"}
    MaxFailures = 5
INVARIANT RestartIsPending
CHECK_DEADLOCK FALSE
