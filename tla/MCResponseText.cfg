SPECIFICATION Spec
CONSTANTS
    Characters <- MCCharacters
    Space = " "
    TokenStarts <- GreedyStarts
    Texts <- AllTexts
    StopLists <- AllStopLists
    Limits = {1, 2, 4}
INVARIANTS
    StreamJoinsToReply
    StopTakesEffect
    CompletionReportsCut
    CountsAsInEngine
CHECK_DEADLOCK FALSE
