CONSTANTS
    a = a
    b = b
    zero = zero
    none = none
    junk = junk
    nohead = nohead
    emptytx = emptytx
    nonce = nonce
    nobody = nobody
    panicked = panicked
    c1 = c1
    c2 = c2
    Account <- MCAccount
    Coinbase = b
    Word <- MCWord
    ZeroWord = zero
    NoWord = none
    GasLimit = 4
    Tx <- MCTx
    Junk <- MCJunk
    Blocks <- MCBlocks
    Calls <- MCCalls
    GenesisStarts = {1, 2}
    Genesis <- MCGenesis
    NoHead = nohead
    EmptyTx = emptytx
    MaxStarts = 2
    MaxFaults = 1
    Client <- OneClient
    NoOne = nobody
    Panicked = panicked
    NoNonce = nonce
    Controlled <- MCControlled
    TxArgs <- MCTxArgs
    RawTx <- MCRawTx
    Foreign <- MCForeign
    MaxRequests = 2
    MaxDelivered = 2
    Endless <- NoBlocks
SPECIFICATION NodeSpec
CHECK_DEADLOCK FALSE
PROPERTY EffectsHaveReceipts
PROPERTY SignsFresh
PROPERTY ImplementsState
INVARIANT NonceNotBehindBalance
