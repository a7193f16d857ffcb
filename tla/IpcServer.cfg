SPECIFICATION FairSpec
CONSTANTS
 Clients = {a}
 Cap = 2
 MaxFrames = 2
 MaxEdges = 3
INVARIANTS NoSendOnClosed StreamHasNoGap
PROPERTIES AnswersArrive TeardownEnds
CHECK_DEADLOCK FALSE
