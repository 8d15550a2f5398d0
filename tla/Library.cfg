\* 14 items hold the largest tree and the largest body; two levels of nesting.
\* Signatures of 4 bytes, buffers to match, expiry modulo 1024; keys of up to 3.
CONSTANTS
    MaxItems = 14
    NestingLimit = 2
    BufSize = 256
    Width <- MCWidth
    Bodies <- MCBodies
    Pids <- MCPids
    Long <- MCLong
    Tokens <- MCTokens
    Half = 2
    HdrCap = 14
    PayCap = 12
    SigCap = 5
    ExpWrap = 1024
    Now = 100
    MinKey = 2
    MaxLen = 3
    Byte = {1, 2}
SPECIFICATION LibrarySpec
INVARIANTS
    NothingLeaks
    PrintsBack
    VerdictExact
    AcceptedValid
    AnswerWhole
    VerdictRight
    SignatureTrue
    HandedTrue
PROPERTIES
    BufferFits
