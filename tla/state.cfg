CONSTANTS
    a = a
    b = b
    c = c
    o = o
    zero = zero
    w1 = w1
    none = none
    junk = junk
    nohead = nohead
    emptytx = emptytx
    Account <- MCAccount
    Coinbase = o
    Word <- MCWord
    ZeroWord = zero
    NoWord = none
    GasLimit = 3
    Tx <- MCTx
    Junk <- MCJunk
    Blocks <- MCBlocks
    Calls <- MCCalls
    GenesisStarts = {1}
    Genesis <- MCGenesis
    NoHead = nohead
    EmptyTx = emptytx
    MaxStarts = 3
    MaxFaults = 0
SPECIFICATION Spec
CHECK_DEADLOCK FALSE
INVARIANT TypeOK
 
INVARIANT BrokenOnlyMidCommit
PROPERTY RestartExact
PROPERTY ImplementsAtomicLedger
