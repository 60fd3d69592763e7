SPECIFICATION BufferSpec
CONSTANTS
    Size = 3
    MaxRequest = 4
    MaxBytes = 7
    MaxSink = 9
INVARIANTS
    WrittenInOrder
    ReadInOrder
CHECK_DEADLOCK FALSE
