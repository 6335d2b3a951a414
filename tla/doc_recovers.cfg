CONSTANTS
    a = a
    b = b
    c = c
    o = o
    zero = zero
    w1 = w1
    none = none
    junk = junk
    nohead = nohead
    emptytx = emptytx
    Account <- MCAccount
    Coinbase = o
    Word <- MCWord
    ZeroWord = zero
    NoWord = none
    GasLimit = 4
    Tx <- MCTx
    Junk <- MCJunk
    Blocks <- FewBlocks
    Calls <- NoCalls
    GenesisStarts = {1, 2}
    Genesis <- MCGenesis
    NoHead = nohead
    EmptyTx = emptytx
    MaxStarts = 2
    MaxFaults = 0
SPECIFICATION Spec
CHECK_DEADLOCK FALSE
INVARIANT RestartRecovers
