CONSTANTS
    p1 = p1
    p2 = p2
    p3 = p3
    css = css
    lost = lost
    list = list
    undefined = undefined
    Page <- MCPage
    Path <- MCPath
    Config <- MCConfig
    Accounts = list
    Undefined = undefined
    MaxRounds = 2
SPECIFICATION FairSpec
CHECK_DEADLOCK FALSE
INVARIANT OwnStats
PROPERTY EveryRequestAnswered
