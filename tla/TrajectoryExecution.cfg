CONSTANTS
    Handlers = {1, 2}
    Grippers = {1}
    Recorders <- TwoRecorders
    Batches <- AllBatches
    MaxExecutions = 5
    Concurrent = FALSE
SPECIFICATION FairSpec
INVARIANTS
    TypeOK
    BatchIsWatched
    ResultsAreOwn
PROPERTIES
    CallbacksUndoNothing
    PromisedSteps
    KeepsPromise
