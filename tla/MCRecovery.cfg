SPECIFICATION FairSpec
CONSTANTS
    TableCounts <- MCTableCounts
    Contents <- MCContents
    TableSize <- MCTableSize
    Crashes = TRUE
INVARIANTS TypeOK UpdatedIsSame
PROPERTIES UpdateReturnsInStep
CHECK_DEADLOCK FALSE
