CONSTANTS
    a = a
    b = b
    zero = zero
    none = none
    junk = junk
    nohead = nohead
    emptytx = emptytx
    nonce = nonce
    nobody = nobody
    panicked = panicked
    c1 = c1
    c2 = c2
    Account <- MCAccount
    Coinbase = b
    Word <- MCWord
    ZeroWord = zero
    NoWord = none
    GasLimit = 4
    Tx <- MCTx
    Junk <- MCJunk
    Blocks <- FewBlocks
    Calls <- MCCalls
    GenesisStarts = {}
    Genesis <- MCGenesis
    NoHead = nohead
    EmptyTx = emptytx
    MaxStarts = 1
    MaxFaults = 0
    Client <- MCClient
    NoOne = nobody
    Panicked = panicked
    NoNonce = nonce
    Controlled <- MCControlled
    TxArgs <- MCTxArgs
    RawTx <- MCRawTx
    Foreign <- BusyForeign
    MaxRequests = 2
    MaxDelivered = 1
    Endless <- JunkBlocks
SPECIFICATION NodeFairSpec
CHECK_DEADLOCK FALSE
PROPERTY RequestsAnswered
INVARIANT NodeTypeOK
