SPECIFICATION Spec
CONSTANTS
    Threads = {main, side}
    main = main
    side = side
    Main = main
    MaxLines = 4
    MaxRare = 1
CHECK_DEADLOCK FALSE
INVARIANTS CorrectionsFollowStops RunsMeetResults AnswersMeetQuestions TerminalsAsRecorded
