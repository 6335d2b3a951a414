CONSTANTS
    a = a
    b = b
    c = c
    o = o
    zero = zero
    w1 = w1
    none = none
    junk = junk
    nohead = nohead
    emptytx = emptytx
    Account <- MCAccount
    Coinbase = o
    Word <- MCWord
    ZeroWord = zero
    NoWord = none
    GasLimit = 4
    Tx <- MCTx
    Junk <- MCJunk
    Blocks <- FewBlocks
    Calls <- NoCalls
    GenesisStarts = {1, 2}
    Genesis <- MCGenesis
    NoHead = nohead
    EmptyTx = emptytx
    MaxStarts = 2
    MaxFaults = 1
SPECIFICATION FairSpec
CHECK_DEADLOCK FALSE
INVARIANT ReceiptsHaveTxs
INVARIANT NoReplay
INVARIANT HeadCoversReceipts
INVARIANT ServedStateIsDurable
PROPERTY ReceiptFinal
INVARIANT SupplyConserved
PROPERTY GenesisCompletes
