CONSTANTS
    Client = {c1, c2}
    NoClient = NoClient
    x = x
    y = y
    z = z
    Addr = {x, y, z}
    Present = {x, z}
    ByteSize = 4
    Request <- MCRequest
    Reliable = {y, z}
SPECIFICATION FairSpec
INVARIANTS TypeOK SuccessUnlessAliased Coherent EmulatedOutcomeUnlessRefused
PROPERTIES Implements OnlyAskedWritesUnless TransferReturnsIfTablesEnd
