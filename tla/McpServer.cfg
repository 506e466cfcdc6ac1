SPECIFICATION FairSpec
CONSTANTS
    one = one
    two = two
    Ids = {one, two}
    Null = Null
    Lines <- MCLines
    MaxLines = 3
    PipeSize = 1
\* The process has exited and the host has no more to do.
CHECK_DEADLOCK FALSE
INVARIANTS TypeOK AnswersInOrder OnlyWholeCallsReach AtMostTwoInDoubt
PROPERTIES EveryRequestAnswered EndsAfterClose
