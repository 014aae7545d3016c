CONSTANTS
    Thread = {t1, t2}
    NoThread = NoThread
    Table <- MCTable
    Program <- MCProgram
    HasWs = {1, 3, 4}
    PsBytes <- MCPsBytes
    Word = {0, 1, 2, 3}
    Value = {"v1", "v2"}
SPECIFICATION FairSpec
INVARIANTS TypeOK Isolated WorkSpacesOfFrames FailureReported
PROPERTIES NothingAfterAbort ExecutionReturns
