CONSTANTS
    Thread = {t1, t2}
    Reg <- MCReg
    Field = {f1, f2}
    Bit = {0, 1}
    Op <- MCOp
    NoOp = NoOp
    NoValue = NoValue
    Size = 32
    Guarded <- MCGuarded
    NoThread = NoThread
SPECIFICATION FairSpec
INVARIANTS TypeOK FreshUpdate
PROPERTIES FieldsKept Atomic CallReturns
