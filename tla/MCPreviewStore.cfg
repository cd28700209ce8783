CONSTANTS
    n1 = n1
    n2 = n2
    Nodes = {n1, n2}
    MaxTickets = 3

SPECIFICATION FairSpec

INVARIANT CardsAreTruthful
INVARIANT RastersFindTheirImage
PROPERTY ConversionsEnd
