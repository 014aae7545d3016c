CONSTANTS
    Thread = {t1, t2}
    NoThread = NoThread
    Table <- MCTable
    Program <- LoopWithIf
    HasWs = {1}
    PsBytes <- MCPsBytes
    Word = {0, 1, 2, 3}
    Value = {"v1", "v2"}
SPECIFICATION FairSpec
PROPERTIES StuckLoopAborted
