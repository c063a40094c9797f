SPECIFICATION FairSpec
CONSTANTS
    t1 = t1  t2 = t2  b1 = b1  b2 = b2  v1 = v1  v2 = v2
    Tags <- MCTags
    Lines = 1
    Bytes <- TwoBytes
    Vals <- MCVals
    MaxResets = 1
INVARIANTS Coherent AckAnswersPort
PROPERTIES ImplementsPortMemory RequestAnswered
