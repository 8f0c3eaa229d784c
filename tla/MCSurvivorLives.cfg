SPECIFICATION Spec
CONSTANTS
    TableCounts <- MCFourteenTables
    Contents <- MCContents
    TableSize <- MCTableSize
    Crashes = FALSE
INVARIANTS SurvivorLives
CHECK_DEADLOCK FALSE
