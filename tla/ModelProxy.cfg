SPECIFICATION Spec
CONSTANTS
    None = None
    Requests <- MCRequests  Tools = {0, 1}  MaxDeltas = 6
CHECK_DEADLOCK FALSE
INVARIANT AnswersFaithful
