CONSTANTS
    p1 = p1
    p2 = p2
    n1 = n1
    n2 = n2
    e1 = e1
    e2 = e2
    root = root
    None = None
    Empty = Empty
    Programs = {p1, p2}
    Nodes = {n1, n2}
    Events = {e1, e2}
    Stores = {root}
    NodesOf <- MCNodesOf
    EventsOf <- MCEventsOf
    Scripts <- MCRawScripts
    Backpressure = 2
    MaxCalls = 2
    MaxCancels = 1
    MaxRunNodes = 1

SPECIFICATION Spec

INVARIANT FiredEventsAreDeclared

CHECK_DEADLOCK FALSE
