CONSTANTS
    Programs <- MCPrograms
    Trees <- MCTrees
    Code <- MCCode
    Verified <- MCVerified
    Meanings <- MCMeanings
    Answers <- MCAnswers
    MaxAnswers <- MCMaxAnswers
    MaxFrames <- MCMaxFrames
SPECIFICATION Spec
INVARIANT TypeOK
INVARIANT ParsesBack
INVARIANT MeaningKept
INVARIANT LoaderAccepts
INVARIANT DepthsProved
INVARIANT StackProved
INVARIANT DepthCounted
INVARIANT OpenUpvaluesLive
INVARIANT HandlersLive
INVARIANT StopFails
PROPERTY StopKept
PROPERTY Halts
CHECK_DEADLOCK FALSE
