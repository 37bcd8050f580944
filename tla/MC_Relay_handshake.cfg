\* Two slots, one good and one base64-malformed record, one radio failure:
\* downloads that grow and shrink the list, skips, reboots and a failed
\* command all happen.
CONSTANTS
    NUM_TAGS = 2
    Records = {r1, r2}
    Malformed = {r2}
    Short = {}
    Zeroed = Zeroed
    Garbage = Garbage
    None = None
    MaxRadioFailures = 1
SPECIFICATION Spec
INVARIANT TypeOK
INVARIANT Handshake
