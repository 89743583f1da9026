CONSTANTS
    Programs <- MCLeft
    Trees <- MCLeftTrees
    Code <- MCLeftCode
    Verified <- MCLeftVerified
    Meanings <- MCLeftMeanings
    Answers <- MCAnswers
    MaxAnswers <- MCMaxAnswers
    MaxFrames <- MCMaxFrames
SPECIFICATION Spec
INVARIANT MeaningKept
CHECK_DEADLOCK FALSE
