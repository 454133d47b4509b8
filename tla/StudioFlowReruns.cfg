CONSTANTS
    trigger = trigger
    call = call
    loop = loop
    branch = branch
    odd = odd
    other = other
    last = last
    params = params
    page = page
    Nodes = {trigger, call, other}
    Passive = {params}
    Starts = {trigger}
    Edges <- PairEdges
    Needs <- PairNeeds
    Loops = {}
    LoopCount <- TwoRounds
    Branches = {}
    Unknown = {}
    Page = page
    MaxRuns = 2
SPECIFICATION FairSpec
CHECK_DEADLOCK FALSE
INVARIANTS
    RunningIsBusy
    PageShowsCurrentRun
PROPERTIES
    ContractHolds
