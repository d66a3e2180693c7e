\* A vector of every kind; requests are answered in any order, or fail.
CONSTANTS
    absent = absent
    Absent = absent
    Vectors <- SomeVectors
    CommandLines <- SomeCommandLines
    Responses <- SomeResponses
SPECIFICATION RunnerSpec
CHECK_DEADLOCK FALSE
INVARIANTS
    RunnerTypeOK
    PassIsEarned
    JudgedOnce
    CountIsOwn
    ExitZeroMeansPassed
PROPERTY RunEnds
