SPECIFICATION Spec
CONSTANTS
    node = node
    btxd = btxd
    m = m
    c1 = c1
    c2 = c2
    u1 = u1
    u2 = u2
    w1 = w1
    w2 = w2
    w3 = w3
    w4 = w4
    Daemons = {btxd}
    Order <- OneInOrder
    Main = m
    Closers = {c1, c2}
    Users = {}
    Watchers = {w1}
    Ops = {"stop"}
    MaxFailures = 1
INVARIANT CloseRunsToCompletion
CHECK_DEADLOCK FALSE
