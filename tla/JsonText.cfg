\* Three nodes, objects of two names and arrays of two elements.
SPECIFICATION Spec
CONSTANTS
    Nodes = {n1, n2, n3}
    NULL = NULL
    Keys = {"method", "parameters"}
    InQuotes <- MCInQuotes
    MaxItems = 2
    MaxHandles = 1
    Scalars <- MCScalars
    Tokens <- MCTokens
    MaxText = 10
    MaxDepth = 3
SYMMETRY AnyAddress
INVARIANTS TypeOK OwnersAreCounted ValuesAreProper AcceptsOnlyJson RoundTrip
