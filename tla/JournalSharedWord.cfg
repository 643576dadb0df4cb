CONSTANTS
    Txs = {t1, t2}
    Words = {w1}
    Fields = {f1, f2}
    Values = {0, 1}
    Blocks = {}
    MaxFrames = 2
    MaxGeneration = 3
    MaxLine = 3
SPECIFICATION Spec
PROPERTIES MappingAfterData
