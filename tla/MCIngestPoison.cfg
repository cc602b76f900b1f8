CONSTANTS
    b1 = b1
    b2 = b2
    b3 = b3
    b4 = b4
    b5 = b5
    e1 = e1
    e2 = e2
    e3 = e3
    e4 = e4
    Batches = {b1, b2, b3, b4, b5}
    Events = {e1, e2, e3, e4}
    Content <- MCContent
    Defect <- MCDefect
    Presented <- MCPresented
    current = current
    previous = previous
    foreign = foreign
    Hashes = {current, previous, foreign}
    AcceptedHashes = {current, previous}
    Unstorable = {e3}
    Handlers = {h1, h2}
    MaxFaults = 0
SPECIFICATION FairSpec
CHECK_DEADLOCK FALSE
PROPERTIES EveryBatchSettles
