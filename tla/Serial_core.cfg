CONSTANTS
    w1 = w1
    w2 = w2
    d1 = d1
    d2 = d2
    d3 = d3
    NoBuffer = NoBuffer
    Writers <- MCWriters
    Buffers <- MCBuffers
    Texts <- MCTexts
    Bytes = {0, 1}
    BufSize = 3
    ReadLens = {1, 2}
    QueueSize = 2
SPECIFICATION MCSpec
INVARIANTS SerialTypeOK NobodyForgotten SentInOrder
PROPERTIES RefinesLine
SYMMETRY MCSymmetry
CHECK_DEADLOCK FALSE
