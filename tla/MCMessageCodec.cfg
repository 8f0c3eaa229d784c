SPECIFICATION CodecSpec
CONSTANTS
    Opcodes <- MCOpcodes
    TableNums <- MCTableNums
    Results <- MCResults
    Strings <- MCStrings
    Datas <- MCDatas
    MaxKeys = 3
    Size = 7
INVARIANTS
    DecodedIsSent
    WritesWhatItAllocates
    HashIsARow
CHECK_DEADLOCK FALSE
