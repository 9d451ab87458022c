SPECIFICATION FairSpec
CONSTANTS
    HttpThreads = {h1, h2}
    Main = main
    Slots = {0}
    MaxId = 2
    SleepEnabled = TRUE
INVARIANTS NoLostWakeup CallbacksHaveModel NoRestWhileActive UniqueTask
PROPERTIES TerminateEndsLoop TaskTaken
CHECK_DEADLOCK FALSE
