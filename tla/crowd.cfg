CONSTANTS
    u1 = u1
    u2 = u2
    vault = vault
    self = self
    none = none
    Account <- MCAccount
    Self = self
    Accepting <- MCAccepting
    Destructible <- MCDestructible
    Endowment <- MCEndowment
    Goals <- MCGoals
    Values <- MCValues
    NoCampaign = none
    MaxRaised = 7
SPECIFICATION Spec
INVARIANT TypeOK
INVARIANT Backed
INVARIANT Accounted
PROPERTY LeavesSettled
