SPECIFICATION Spec
CONSTANTS
    b1 = b1
    b2 = b2
    NoBase = NoBase
    Batch = Batch
    Bases = {b1}
    MaxKernels = 2
    MaxNotebooks = 2
    MaxRestarts = 1
INVARIANTS
    RestartKeepsTheRecord
