SPECIFICATION Spec
CONSTANTS
    Calls <- MCCalls
    Words <- MCWords
    Numerals <- MCNumerals
    Meant <- MCMeant
INVARIANTS StringMeansWhatItSays OptionsTakePrecedence FailedCallKeepsConfig
CHECK_DEADLOCK FALSE
