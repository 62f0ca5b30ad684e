\* Two processes write and one reads; three folders, one leaf, four calls.
CONSTANTS
    Writer = {w1, w2}
    Reader = {r1}
    MaxFolder = 3
    MaxLeaf = 1
    MaxTreeCalls = 4
    Unmade = Unmade
    Purged = Purged
SPECIFICATION TreeSpec
INVARIANT ListsRight
PROPERTIES ChecksHold AnswersRight WalksEnd
CHECK_DEADLOCK FALSE
