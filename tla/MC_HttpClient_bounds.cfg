\* A buffer one token short of the longest answer, and one broken transfer.
CONSTANTS
    NUM_TAGS = 2
    Records = {r1, r2}
    Zeroed = Zeroed
    Open = Open
    Close = Close
    Junk = Junk
    NUL = NUL
    NoAnswer = NoAnswer
    HTTP_BUFFER_SIZE = 3
    MaxTransferFaults = 1
SPECIFICATION Spec
INVARIANT TypeOK
INVARIANT Terminated
