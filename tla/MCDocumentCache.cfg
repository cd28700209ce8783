CONSTANTS
    a1 = a1
    a2 = a2
    b1 = b1
    c1 = c1
    n1 = n1
    n2 = n2
    m1 = m1
    l1 = l1
    rootA = rootA
    rootA2 = rootA2
    rootB = rootB
    rootC = rootC
    docA = docA
    docB = docB
    docC = docC
    None = None
    Empty = Empty
    Memory = Memory
    Programs = {a1, a2, b1, c1}
    Nodes = {n1, n2, m1, l1}
    Events = {}
    Stores = {Memory, rootA, rootA2, rootB, rootC}
    NodesOf <- MCNodesOf
    EventsOf <- MCEventsOf
    Scripts = {}
    Backpressure = 1
    MaxCalls = 3
    MaxCancels = 0
    MaxRunNodes = 1
    Documents = {docA, docB, docC}
    DocumentOf <- MCDocumentOf
    Unsaved = docA
    Saved = {rootB}
    HomeOf <- MCHomeOf
    Backed = {n2, m1, l1}
    Readers <- MCReaders

SPECIFICATION CacheSpec

INVARIANT NamedNodesAreInstalled
INVARIANT BlobsStayHome
INVARIANT SavedValuesAreKept

CHECK_DEADLOCK FALSE
