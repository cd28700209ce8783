CONSTANTS
    p1 = p1
    p2 = p2
    n1 = n1
    n2 = n2
    None = None
    Empty = Empty
    Programs = {p1, p2}
    Nodes = {n1, n2}
    Events = {}
    NodesOf <- MCNodesOf
    EventsOf <- MCEventsOf
    Stores = {}
    Documents <- MCDocuments
    PreviewNodes = {n1}
    MaxCommands = 3

SPECIFICATION Spec

INVARIANT SettledViewIsTruthful
INVARIANT ResultsAreOfTheLastRun
INVARIANT PreviewsAreTheLatest
