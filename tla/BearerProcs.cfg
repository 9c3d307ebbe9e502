SPECIFICATION Spec
CONSTANTS
    Seqs = {1, 2}
    Contents = {"one", "two"}
    Contexts <- TwoContents
    EBIs = {6, 7}
    IdleEBIs = {6}
    PairSpace = 3
    MaxRule = 3
    MaxFail = 1
INVARIANTS BearerHasRules   AnsweredOnce
PROPERTY TxnsComplete
CHECK_DEADLOCK FALSE
