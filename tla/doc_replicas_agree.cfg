CONSTANTS
    a = a
    b = b
    c = c
    o = o
    zero = zero
    w1 = w1
    none = none
    noroot = noroot
    n1 = n1
    n2 = n2
    Account <- MCAccount
    Coinbase = o
    Word <- MCWord
    ZeroWord = zero
    NoWord = none
    GasLimit = 4
    Replica <- MCReplica
    Log <- MCLog
    Calls <- MCCalls
    HasGenesis = FALSE
    Genesis <- MCGenesis
    NoRoot = noroot
    MaxStarts = 1
SPECIFICATION Spec
CHECK_DEADLOCK FALSE
INVARIANT ReplicasAgree
