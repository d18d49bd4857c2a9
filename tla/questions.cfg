SPECIFICATION QuestionsSpec
CONSTANTS
    Names = {"a", "b", "c"}
    Width = 8
    FormatInt <- MCFormatInt
    Atoi <- MCAtoi
    Words <- MCWords
    Cuts <- MCCuts
INVARIANTS
    SameRequest
    SameDecision
    SameInfo
    CyclesAreFound
    SortIsTopological
    ProxyPortIsBound
CHECK_DEADLOCK FALSE
