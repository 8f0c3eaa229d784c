SPECIFICATION FairSpec
CONSTANTS
    TableCounts <- MCOneTable
    Contents <- MCContents
    TableSize <- MCTableSize
    Crashes = FALSE
PROPERTIES UpdateReturns
CHECK_DEADLOCK FALSE
