SPECIFICATION FairSpec
CONSTANTS
    NoFile = NoFile
    Capacity = 4
    AnchorCells = 2
    MaxAppends = 3
    MaxLaunches = 1
INVARIANTS ReadsInOrder HandledOnce
PROPERTIES LostByTwoRotations RecordsHandled AnswersFollowReview
CHECK_DEADLOCK FALSE
