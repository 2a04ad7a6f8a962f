\* One request for both engines, over two tables of at most three rows (five in one
\* request); formulas of at most seven tokens; documents four levels deep; results of
\* at most four rows.
SPECIFICATION TablesSpec
CONSTANTS
    Null = Null
    ToListLimit = 2
    InferLength = 2
    MaxRows = 4
    Suffixed <- AddRight
    Requests <- AllRequests
    Operands = {"x"}
    Alphabets <- Formulas
    Keys = {"a", "b"}
    MaxDepth = 2
    Others <- Neighbours
    Compounds <- AllCompounds
    StoredTables <- Results
    PageSizes = {0, 1, 2, 3}
    MaxPage = 5
INVARIANTS
    ProcessMatchesQuery
    OuterKeepsRows
    EmptyTableOutcomes
    ParserFollowsGrammar
    NamesMatchUnlessNested
    PagesPartition
CHECK_DEADLOCK FALSE
