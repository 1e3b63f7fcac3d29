CONSTANTS
    Ids = {i1, i2}
    Uris = {u1, u2}
    NoId = NoId
    NoUri = NoUri
    MaxMessages = 3
    MaxWcp = 1
SPECIFICATION FairSpec
INVARIANTS
    UncancellableRunsToCompletion
    AtMostOneReply
    PendingRequestCanBeCancelled
    NothingDroppedAtExit
    SettledDocumentIsAnalysed
PROPERTIES
    EditsApplyInOrder
    InputEndTerminates
    ImplementsFairRpcService
