SPECIFICATION FairSpec
CONSTANTS
    login = login
    again = again
    news = news
    Request <- MCRequest
    Chat <- MCChat
    Blocks <- MCBlocks
    Answers <- MCAnswers
    Main <- MCMain
    Timer <- MCTimer
    RecvMax = 12
    MaxShort = 1
    MaxFaults = 1
INVARIANTS
    TypeOK
    NothingInvented
    FrameByFrame
    EndMeansTorn
    NoAnswerVanishes
PROPERTIES
    EveryFrameSettles
CHECK_DEADLOCK FALSE
