CONSTANTS
    trigger = trigger
    call = call
    loop = loop
    branch = branch
    odd = odd
    other = other
    last = last
    params = params
    page = page
    Nodes = {trigger, call, loop, branch, other, last, odd}
    Passive = {params}
    Starts = {trigger}
    Edges <- ForkEdges
    Needs <- ForkNeeds
    Loops = {loop}
    LoopCount <- TwoRounds
    Branches = {branch, call}
    Unknown = {odd}
    Page = page
    MaxRuns = 1
SPECIFICATION Spec
CHECK_DEADLOCK FALSE
INVARIANTS
    TypeOK
    PendingCountsCalls
    DoneMeansQuiet
    SuccessIsClean
    LoopRunsFixedCount
