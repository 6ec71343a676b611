\* The capacity ends inside the second mask byte, so that batches start, end and
\* cross a byte boundary and the last byte is left partly filled.
SPECIFICATION Spec
CONSTANTS
    Elem = {d, x}
    Default = d
    Unwritten = Unwritten
    Capacity = 5
    W = 3
    MASK = TRUE
    Reader = {r1}
INVARIANTS TypeOK MaskCoversValues AdmittedIsWritten SealedLengthIsFinal SealedPaddingIsClear
PROPERTIES SharedBytesAreFinal ImplementsLog
CHECK_DEADLOCK FALSE
