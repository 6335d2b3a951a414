CONSTANTS
    n1 = n1
    n2 = n2
    n3 = n3
    cf = cf
    null = null
    Node <- MCNode
    Contract = cf
    NoAddress = null
    NoCampaign = null
    Endowment = 2000
    MaxBlock = 2
    MaxLag = 1
    demoNodes <- MCNodes
    Unreliable <- MCUnreliable
    Nothing = null
SPECIFICATION FairSpec
CHECK_DEADLOCK FALSE
PROPERTY DemoEnds
INVARIANT CampaignTruthful
INVARIANT OnePerNonce
