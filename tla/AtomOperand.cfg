CONSTANTS
    ByteBits = 2
    IioList <- MCIioList
    Sample = {0, 6, 201}
    Tables <- MCTables
    ParamSpace <- MCParamSpace
    WorkSpace <- MCWorkSpace
    Registers <- MCRegisters
    Aperture = 16
    ScratchSize = 8
    Image <- MCImage
    DataTable <- MCDataTable
    Start = 9
    Shifts = 16
    Foreign = {0, 255}
SPECIFICATION Spec
INVARIANTS TypeOK DataIsNamedUnlessMoved ScratchUnlessEdge
PROPERTIES Computes IioRuns
