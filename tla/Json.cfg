\* Five items; literals of four pieces.
CONSTANTS
    MaxItems = 5
    Piece <- MCPiece
    MaxPieces = 4
SPECIFICATION JsonSpec
INVARIANTS
    ListsClosed
    StringDecoded
    StringRoundTrip
PROPERTIES
    ImplementsTrees
CHECK_DEADLOCK FALSE
