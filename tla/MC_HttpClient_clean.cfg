\* Answers that fit the buffer, refused connections, no broken transfers.
CONSTANTS
    NUM_TAGS = 2
    Records = {r1, r2}
    Zeroed = Zeroed
    Open = Open
    Close = Close
    Junk = Junk
    NUL = NUL
    NoAnswer = NoAnswer
    HTTP_BUFFER_SIZE = 4
    MaxTransferFaults = 0
SPECIFICATION Spec
PROPERTY DownloaderRefined
