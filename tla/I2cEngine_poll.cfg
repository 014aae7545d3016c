CONSTANTS
    Client = {c1, c2}
    NoClient = NoClient
    Present = {1}
    ByteSize = 6
    BufferSize = 4
    TimeoutInterval = 2
    Request <- MCRequest
SPECIFICATION Spec
INVARIANTS SeenIsReported
