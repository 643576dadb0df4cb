CONSTANTS
    t1 = t1
    t2 = t2
    w1 = w1
    w2 = w2
    f1 = f1
    b1 = b1
    Txs = {t1, t2}
    Words = {w1, w2}
    Fields = {f1}
    Values = {0, 1}
    Blocks = {b1}
    MaxFrames = 2
    MaxGeneration = 3
    MaxLine = 3
    Shards = 2
    Total = 3
    MaxAsk = 2
    MaxOps = 3
    MaxMishaps = 1
    Layers = 3
    Width = 2
    PagesPer = 2
    Lengths = {1, 3, 4, 14}
    Backs = {0, 2, 5}
    MaxTx = 4
SPECIFICATION MCSpec
SYMMETRY MCSymmetry
INVARIANTS Recoverable SpaceSafe
PROPERTIES ImplementsAtomicStore MappingAfterData
